---------------------------- MODULE FrameSampler ----------------------------
(***************************************************************************)
(* The frame sampler node: of the frames that come in it passes on every   *)
(* N-th one, or no more of them in a second than asked.  Time advances in  *)
(* ticks.  The frame itself is passed by reference; only its passing is    *)
(* modelled.                                                               *)
(***************************************************************************)
EXTENDS Naturals

CONSTANTS EveryN, MaxFps,   \* settings of the two spin boxes
          Second,           \* ticks of a second
          MaxFrames,        \* bound on the frames and
          MaxTicks          \* on the ticks since the settings last changed

ASSUME FrameSamplerAssumption ==
  /\ EveryN \subseteq Nat \ {0} /\ MaxFps \subseteq Nat \ {0} /\ EveryN # {} /\ MaxFps # {}
  /\ Second \in Nat /\ MaxFrames \in Nat /\ MaxTicks \in Nat

VARIABLES
  gate,      \* m_mode, m_everyN, m_maxFps, m_frameCounter, the timer: running, elapsed
  m_output,  \* does the output hold a frame?
  sampled    \* history since the settings changed: frames in, frames out, ticks

samplerVars == <<gate, m_output, sampled>>

NothingSampled == [frames |-> 0, passed |-> 0, ticks |-> 0]

SamplerInit ==
  /\ \E n \in EveryN, fps \in MaxFps :
       gate = [mode |-> "everyNth", everyN |-> n, maxFps |-> fps,
               counter |-> 0, timing |-> FALSE, elapsed |-> 0]
  /\ m_output = FALSE /\ sampled = NothingSampled
-----------------------------------------------------------------------------
resetGateMut(g) == [g EXCEPT !.timing = FALSE, !.elapsed = 0]

resetGate(g) == [g EXCEPT !.counter = 0, !.timing = FALSE, !.elapsed = 0]

(* The combo box, the spin boxes, and load(), which sets all three.        *)
SetParameters(mode, n, fps) ==
  /\ gate' = resetGate([gate EXCEPT !.mode = mode, !.everyN = n, !.maxFps = fps])
  /\ sampled' = NothingSampled
  /\ UNCHANGED m_output

Interval == Second \div gate.maxFps

(* passesGate: whether a frame passes, and what the gate is after it.      *)
passesGate ==
  IF gate.mode = "everyNth"
  THEN [pass |-> gate.everyN <= 1 \/ (gate.counter + 1) % gate.everyN = 0,
        after |-> [gate EXCEPT !.counter = @ + 1]]
  ELSE LET due == gate.elapsed >= Interval
       IN  [pass |-> due,
            after |-> [gate EXCEPT !.timing = TRUE, !.elapsed = IF due THEN 0 ELSE @]]

(* FrameSamplerNode::setInData.                                            *)
SampleFrame ==
  LET gone == passesGate
  IN  /\ sampled.frames < MaxFrames
      /\ gate' = gone.after
      /\ m_output' = (m_output \/ gone.pass)
      /\ sampled' = [sampled EXCEPT !.frames = @ + 1, !.passed = IF gone.pass THEN @ + 1 ELSE @]

SampleNothing == m_output' = FALSE /\ UNCHANGED <<gate, sampled>>

Tick ==
  /\ sampled.ticks < MaxTicks
  /\ gate' = [gate EXCEPT !.elapsed = IF gate.timing THEN @ + 1 ELSE @]
  /\ sampled' = [sampled EXCEPT !.ticks = @ + 1]
  /\ UNCHANGED m_output

SamplerNext ==
  \/ \E mode \in {"everyNth", "maxFps"}, n \in EveryN, fps \in MaxFps : SetParameters(mode, n, fps)
  \/ SampleFrame \/ SampleNothing \/ Tick

SamplerSpec == SamplerInit /\ [][SamplerNext]_samplerVars
-----------------------------------------------------------------------------
SamplerTypeOK ==
  /\ gate \in [mode : {"everyNth", "maxFps"}, everyN : EveryN, maxFps : MaxFps,
               counter : 0 .. MaxFrames, timing : BOOLEAN, elapsed : 0 .. MaxTicks]
  /\ m_output \in BOOLEAN
  /\ sampled \in [frames : 0 .. MaxFrames, passed : 0 .. MaxFrames, ticks : 0 .. MaxTicks]

(* Since the settings last changed exactly one frame of every N has        *)
(* passed, or no more frames than the time that went by allows, whatever   *)
(* settings were in force before.                                          *)
RateIsKept ==
  IF gate.mode = "everyNth" THEN sampled.passed = sampled.frames \div gate.everyN
  ELSE sampled.passed * Interval <= sampled.ticks
=============================================================================
