---------------------------- MODULE MCVideoFrames ----------------------------
(* Model checking VideoFrames.  Texture names are interchangeable; where   *)
(* there are two sizes and two pictures, each size comes with its picture.   *)
EXTENDS VideoFrames, TLC

CONSTANTS First, Second, FirstSize, FirstPic
MCKind   == [i \in 1 .. N |-> IF i = 1 THEN First ELSE Second]
MCShots  == {s \in Size \X Pic :
               \/ Cardinality(Size) = 1 \/ Cardinality(Pic) = 1
               \/ ((s[1] = FirstSize) <=> (s[2] = FirstPic))}
Symmetry == Permutations(Name)
=============================================================================
