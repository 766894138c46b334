--------------------------- MODULE MCSampledStream ---------------------------
(* Model checking SampledStream.  A format is a rate; blocks have one      *)
(* channel, and those of the second rate recommend a ring of two seconds.  *)
EXTENDS SampledStream

CONSTANT input

MCField  == {"rate"}
MCValue  == {"a", "b"}
MCFormat == [MCField -> MCValue]

MCOffered   == [d \in Device |-> [fl \in MCField |-> <<"a", "b">>]]
MCPreferred == [d \in Device \cup {NoDevice} |-> [fl \in MCField |-> "a"]]
MCSupported == [d \in Device |-> MCFormat]
MCChannels  == [f \in MCFormat |-> 1]
MCExpected  == [f \in MCFormat |-> IF f["rate"] = "a" THEN 0 ELSE 2]
=============================================================================
