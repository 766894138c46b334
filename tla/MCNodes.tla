------------------------------- MODULE MCNodes -------------------------------
(***************************************************************************)
(* The nodes of a graph that have a life of their own, the chat nodes, a   *)
(* video source, the frame sampler, the shader node and the display of the *)
(* video output, the debug console and the profiler.  They share nothing,  *)
(* so a behaviour is one of a single part, from each of its initial        *)
(* states, while the others rest.                                          *)
(***************************************************************************)
EXTENDS ChatNodes, LogManager, VideoSources, FrameSampler, ShaderNode, PerfProfiler,
        VideoOutput

VARIABLE part   \* the part that lives

CONSTANTS u1, u2

(* The display of the video output, the only part with a liveness property,*)
(* has no session in it, so that the symmetry is sound for that too.       *)
MCSessionIds == {u1, u2}
Symmetry == Permutations(MCSessionIds)

Vars == <<part, chatVars, logVars, sourceVars, samplerVars, shaderVars, perfVars, outputVars>>
-----------------------------------------------------------------------------
Stored(w) == FoldSeq(LAMBDA session, sum : sum + Len(session.messages), 0, w.sessions)

(* The messages in both chats and under way together: one more while two   *)
(* requests are under way, fewer when the node runs a server of its own;   *)
(* the Console keeps to one session.                                       *)
Bound ==
  LET size == Stored(chat["llama"]) + Stored(chat["console"]) + Len(requests)
  IN  /\ Len(chat["console"].sessions) = 1
      /\ size <= CASE server.process # "none" -> 2
                   [] server.process = "none" /\ Len(requests) < 2 -> 3
                   [] server.process = "none" /\ Len(requests) >= 2 -> 4

(* One initial state of every part that rests.                             *)
Rests(p) ==
  /\ p = "log" => manager = LogDefaults /\ rules = NoRules /\ ~s_consoleEnabled
  /\ p = "source" => kind = "file" /\ ~qt5
  /\ p = "sampler" => gate.everyN = (CHOOSE n \in EveryN : TRUE) /\ gate.maxFps = (CHOOSE n \in MaxFps : TRUE)
  /\ p = "shader" => hardware /\ shader = (CHOOSE text \in Compiling : TRUE)
  /\ p = "output" => qt6 /\ hardwareGL /\ ~display.gl

Parts == {"chat", "log", "source", "sampler", "shader", "perf", "output"}

Init ==
  /\ part \in Parts
  /\ ChatInit /\ LogInit /\ SourceInit /\ SamplerInit /\ ShaderInit /\ PerfInit /\ OutputInit
  /\ \A p \in Parts \ {part} : Rests(p)

Next ==
  /\ UNCHANGED part
  /\ \/ part = "chat"    /\ ChatNext
        /\ UNCHANGED <<logVars, sourceVars, samplerVars, shaderVars, perfVars, outputVars>>
     \/ part = "log"     /\ LogNext
        /\ UNCHANGED <<chatVars, sourceVars, samplerVars, shaderVars, perfVars, outputVars>>
     \/ part = "source"  /\ SourceNext
        /\ UNCHANGED <<chatVars, logVars, samplerVars, shaderVars, perfVars, outputVars>>
     \/ part = "sampler" /\ SamplerNext
        /\ UNCHANGED <<chatVars, logVars, sourceVars, shaderVars, perfVars, outputVars>>
     \/ part = "shader"  /\ ShaderNext
        /\ UNCHANGED <<chatVars, logVars, sourceVars, samplerVars, perfVars, outputVars>>
     \/ part = "perf"    /\ PerfNext
        /\ UNCHANGED <<chatVars, logVars, sourceVars, samplerVars, shaderVars, outputVars>>
     \/ part = "output"  /\ OutputNext
        /\ UNCHANGED <<chatVars, logVars, sourceVars, samplerVars, shaderVars, perfVars>>

Spec == Init /\ [][Next]_Vars /\ ZeroTimersFire
-----------------------------------------------------------------------------
(* What is measured is measured right: the rate of the sampled frames and  *)
(* the figures of the profiler.                                            *)
MetersAreTrue == RateIsKept /\ FiguresAreOfTheLast
=============================================================================
