---------------------------- MODULE LauncherProofs ----------------------------
(***************************************************************************)
(* Theorems about the process manager, for every number of starts: the     *)
(* maps, the events and the processes agree, a running child is always     *)
(* reachable through the map, and a stop request that is done with was     *)
(* enforced.  Then about the launcher, for any number of signals too.      *)
(***************************************************************************)
EXTENDS Launcher, SequenceTheorems, TLAPS

(* Handles are given out in order; the one of a start in progress is next. *)
HandlesInOrder ==
  /\ pc = "waitStarted" => cur = m_nextHandle /\ m_nextHandle < MaxHandle
  /\ requested \subseteq 0 .. m_nextHandle - 1
  /\ \A h \in Handle :
       h >= m_nextHandle => /\ events[h] = <<>>
                            /\ state[h] # "NotRunning" =>
                                 pc = "waitStarted" /\ cur = h

(* What a blocked call knows of the handle it waits on.                    *)
CallInv ==
  /\ pc \in {"idle", "waitStarted"} => rest = {}
  /\ pc \in {"waitTerm", "waitKill"} => cur \in m_processMap
  /\ pc = "waitKill" => signal[cur] = "kill" \/ state[cur] = "NotRunning"

IInv ==
  /\ TypeOK
  /\ EventProtocol
  /\ MapMatchesEvents
  /\ NoLostChild
  /\ StopIsForced
  /\ HandlesInOrder
  /\ CallInv

-----------------------------------------------------------------------------
LEMMA InitInv == Init => IInv
BY MaxHandleAssumption
DEF Init, IInv, TypeOK, EventProtocol, MapMatchesEvents, NoLostChild,
    StopIsForced, InHand, HandlesInOrder, CallInv, Handle, ChildStates, Waits

(* The operating system changes neither the maps nor the calls.            *)
LEMMA OSInv == ASSUME IInv, NEW h \in Handle, OS(h) PROVE IInv'
<1>1. child' \in [Handle -> ChildStates]
  BY DEF IInv, TypeOK, OS, Exec, Die, ChildStates
<1>2. UNCHANGED <<mgrVars, state, signal, pc, cur, rest, events, requested>>
  BY DEF OS, Exec, Die
<1>. QED
  BY <1>1, <1>2
  DEF IInv, TypeOK, EventProtocol, MapMatchesEvents, NoLostChild,
      StopIsForced, InHand, HandlesInOrder, CallInv, mgrVars

LEMMA StartProcessInv == ASSUME IInv, StartProcess PROVE IInv'
<1>0. m_nextHandle \in Handle
  BY MaxHandleAssumption DEF IInv, TypeOK, StartProcess, Handle
<1>1. TypeOK'
  <2>1. child' \in [Handle -> ChildStates]
    BY <1>0 DEF IInv, TypeOK, StartProcess, ChildStates
  <2>2. state' \in [Handle -> {"NotRunning", "Starting", "Running"}]
    BY <1>0 DEF IInv, TypeOK, StartProcess
  <2>. QED
    BY <1>0, <2>1, <2>2 DEF IInv, TypeOK, StartProcess, Track, Waits
<1>. USE MaxHandleAssumption DEF Handle
<1>2. EventProtocol' /\ MapMatchesEvents'
  BY DEF IInv, TypeOK, EventProtocol, MapMatchesEvents, HandlesInOrder,
         StartProcess, Track
<1>3. NoLostChild' /\ HandlesInOrder'
  BY DEF IInv, TypeOK, NoLostChild, HandlesInOrder, StartProcess, Track
<1>4. StopIsForced'
  <2>1. InHand = rest /\ InHand' = rest
    BY DEF InHand, StartProcess
  <2>2. m_nextHandle \notin requested
    BY <1>0 DEF IInv, TypeOK, HandlesInOrder
  <2>3. \A h \in requested \cap m_processMap' :
           h \in m_processMap /\ state'[h] = state[h]
    BY <1>0, <2>2 DEF IInv, TypeOK, StartProcess, Track
  <2>. QED
    BY <2>1, <2>3 DEF IInv, StopIsForced, StartProcess
<1>5. CallInv'
  BY DEF IInv, TypeOK, CallInv, StartProcess
<1>. QED  BY <1>1, <1>2, <1>3, <1>4, <1>5 DEF IInv

LEMMA AfterStartupType ==
  ASSUME TypeOK, NEW h \in Handle
  PROVE  AfterStartup(h) \in {"NotRunning", "Starting", "Running"}
BY DEF TypeOK, AfterStartup

(* StartReturns announces the handle whose start was in progress.          *)
LEMMA StartReturnsInv == ASSUME IInv, StartReturns PROVE IInv'
<1>. USE MaxHandleAssumption DEF Handle
<1>1. cur = m_nextHandle /\ events[cur] = <<>> /\ cur \in m_processMap
      /\ cur \notin requested /\ rest = {}
  BY DEF IInv, TypeOK, HandlesInOrder, MapMatchesEvents, CallInv, StartReturns
<1>2. Append(<<>>, "STARTED") = <<"STARTED">>
  OBVIOUS
<1>3. events' = [events EXCEPT ![cur] = <<"STARTED">>]
  BY <1>1, <1>2 DEF IInv, TypeOK, StartReturns, Emit
<1>4. TypeOK'
  <2>1. <<"STARTED">> \in Seq({"STARTED", "STOPPED"})
    OBVIOUS
  <2>2. events' \in [Handle -> Seq({"STARTED", "STOPPED"})]
    BY <1>3, <2>1 DEF IInv, TypeOK
  <2>3. state' \in [Handle -> {"NotRunning", "Starting", "Running"}]
    BY AfterStartupType DEF IInv, TypeOK, StartReturns
  <2>4. m_nextHandle' \in 0 .. MaxHandle
    BY <1>1 DEF IInv, TypeOK, StartReturns, NextHandle
  <2>. QED
    BY <2>2, <2>3, <2>4 DEF IInv, TypeOK, StartReturns, Waits
<1>5. EventProtocol' /\ MapMatchesEvents'
  BY <1>1, <1>3 DEF IInv, TypeOK, EventProtocol, MapMatchesEvents, StartReturns
<1>6. NoLostChild' /\ HandlesInOrder' /\ CallInv'
  <2>1. m_nextHandle' = cur + 1 /\ pc' = "idle" /\ cur' = cur /\ rest' = {}
    BY <1>1 DEF StartReturns, NextHandle
  <2>2. m_processMap' = m_processMap /\ requested' = requested
    BY DEF StartReturns
  <2>3. \A h \in Handle : h # cur => state'[h] = state[h] /\ events'[h] = events[h]
    BY <1>3 DEF IInv, TypeOK, StartReturns
  <2>4. NoLostChild'
    BY <1>1, <2>2, <2>3 DEF IInv, NoLostChild
  <2>5. CallInv'
    BY <2>1 DEF CallInv
  <2>6. requested' \subseteq 0 .. m_nextHandle' - 1
    BY <1>1, <2>1, <2>2 DEF IInv, TypeOK, HandlesInOrder
  <2>7. ASSUME NEW h \in Handle, h >= m_nextHandle'
        PROVE  events'[h] = <<>> /\ state'[h] = "NotRunning"
    <3>1. h \in Int /\ cur \in Int /\ h >= m_nextHandle /\ h # cur
      BY <1>1, <2>1, <2>7 DEF IInv, TypeOK
    <3>. QED  BY <2>3, <3>1 DEF IInv, HandlesInOrder
  <2>8. HandlesInOrder'
    BY <2>1, <2>6, <2>7 DEF HandlesInOrder
  <2>. QED  BY <2>4, <2>5, <2>8
<1>7. StopIsForced'
  BY <1>1 DEF IInv, TypeOK, StopIsForced, InHand, StartReturns
<1>. QED  BY <1>4, <1>5, <1>6, <1>7 DEF IInv

LEMMA StartupNotifiedInv ==
  ASSUME IInv, NEW h \in Handle, StartupNotified(h) PROVE IInv'
<1>1. state[h] = "Starting" /\ state' = [state EXCEPT ![h] = AfterStartup(h)]
  BY DEF StartupNotified
<1>2. TypeOK'
  BY <1>1, AfterStartupType DEF IInv, TypeOK, StartupNotified, mgrVars
<1>3. StopIsForced'
  BY <1>1 DEF IInv, TypeOK, StopIsForced, InHand, StartupNotified, mgrVars
<1>4. EventProtocol' /\ MapMatchesEvents'
  BY DEF IInv, EventProtocol, MapMatchesEvents, StartupNotified, mgrVars
<1>5. NoLostChild' /\ HandlesInOrder' /\ CallInv'
  BY <1>1 DEF IInv, TypeOK, NoLostChild, HandlesInOrder, CallInv,
              StartupNotified, mgrVars
<1>. QED  BY <1>2, <1>3, <1>4, <1>5 DEF IInv

(* Between starts the map holds only handles that were given out.          *)
LEMMA TrackedHandles ==
  ASSUME IInv, pc # "waitStarted", NEW h \in m_processMap
  PROVE  h \in 0 .. m_nextHandle - 1
<1>1. h \in Handle /\ m_nextHandle \in Nat /\ MaxHandle \in Nat
  BY MaxHandleAssumption DEF IInv, TypeOK
<1>2. events[h] = <<"STARTED">>
  BY <1>1 DEF IInv, MapMatchesEvents
<1>3. <<"STARTED">> # <<>>
  OBVIOUS
<1>4. ~(h >= m_nextHandle)
  BY <1>1, <1>2, <1>3 DEF IInv, HandlesInOrder
<1>. QED  BY <1>1, <1>4 DEF Handle

(* What OnProcessFinished does to a handle of the map, in or out of a wait. *)
LEMMA OnProcessFinishedInv ==
  ASSUME IInv, NEW h \in Handle, h \in m_processMap, pc # "waitStarted",
         OnProcessFinished(h)
  PROVE  /\ m_processMap' \in SUBSET Handle /\ m_processDescriptors' \in SUBSET Handle
         /\ state' \in [Handle -> {"NotRunning", "Starting", "Running"}]
         /\ events' \in [Handle -> Seq({"STARTED", "STOPPED"})]
         /\ events' = [events EXCEPT ![h] = <<"STARTED", "STOPPED">>]
<1>1. events[h] = <<"STARTED">>
  BY DEF IInv, MapMatchesEvents
<1>2. Append(<<"STARTED">>, "STOPPED") = <<"STARTED", "STOPPED">>
  <2>. DEFINE S == {"STARTED", "STOPPED"}
              a == Append(<<"STARTED">>, "STOPPED")
              b == <<"STARTED", "STOPPED">>
  <2>1. <<"STARTED">> \in Seq(S) /\ "STOPPED" \in S /\ b \in Seq(S)
    OBVIOUS
  <2>2. Len(<<"STARTED">>) = 1 /\ <<"STARTED">>[1] = "STARTED"
    OBVIOUS
  <2>3. Len(b) = 2 /\ b[1] = "STARTED" /\ b[2] = "STOPPED"
    OBVIOUS
  <2>4. a \in Seq(S) /\ Len(a) = 2 /\ a[1] = "STARTED" /\ a[2] = "STOPPED"
    BY <2>1, <2>2, AppendProperties
  <2>5. \A i \in 1 .. Len(a) : a[i] = b[i]
    BY <2>3, <2>4
  <2>. HIDE DEF a, b
  <2>6. a = b
    BY <2>1, <2>3, <2>4, <2>5, SeqEqual
  <2>. QED  BY <2>6 DEF a, b
<1>3. events' = [events EXCEPT ![h] = <<"STARTED", "STOPPED">>]
  BY <1>1, <1>2 DEF IInv, TypeOK, OnProcessFinished, Emit
<1>4. <<"STARTED", "STOPPED">> \in Seq({"STARTED", "STOPPED"})
  OBVIOUS
<1>5. events' \in [Handle -> Seq({"STARTED", "STOPPED"})]
  BY <1>3, <1>4 DEF IInv, TypeOK
<1>. QED
  BY <1>3, <1>5 DEF IInv, TypeOK, OnProcessFinished, Forget

(* The two deliveries of finished() differ in what becomes of the call.    *)
LEMMA DeliveredInv ==
  ASSUME IInv, NEW h \in Handle, h \in m_processMap, OnProcessFinished(h),
         UNCHANGED <<signal, cur, rest>>,
         \/ pc = "idle" /\ pc' = pc
         \/ pc \in {"waitTerm", "waitKill"} /\ cur = h /\ pc' = "loop"
  PROVE  IInv'
<1>1. /\ m_processMap' = m_processMap \ {h}
      /\ m_processDescriptors' = m_processDescriptors \ {h}
      /\ state' = [state EXCEPT ![h] = "NotRunning"]
      /\ events' = [events EXCEPT ![h] = <<"STARTED", "STOPPED">>]
      /\ UNCHANGED <<m_nextHandle, child, requested>>
  BY OnProcessFinishedInv DEF OnProcessFinished, Forget
<1>2. TypeOK'
  BY <1>1, OnProcessFinishedInv DEF IInv, TypeOK, Waits
<1>3. EventProtocol' /\ MapMatchesEvents'
  BY <1>1 DEF IInv, TypeOK, EventProtocol, MapMatchesEvents
<1>4. NoLostChild' /\ CallInv'
  BY <1>1 DEF IInv, TypeOK, NoLostChild, CallInv
<1>5. HandlesInOrder'
  <2>1. h \in 0 .. m_nextHandle - 1
    BY TrackedHandles
  <2>. QED
    BY <1>1, <2>1 DEF IInv, TypeOK, HandlesInOrder, Handle
<1>6. StopIsForced'
  BY <1>1 DEF IInv, TypeOK, StopIsForced, InHand
<1>. QED  BY <1>2, <1>3, <1>4, <1>5, <1>6 DEF IInv

LEMMA FinishedInv == ASSUME IInv, NEW h \in Handle, Finished(h) PROVE IInv'
<1>1. h \in m_processMap
  BY DEF IInv, NoLostChild, Finished
<1>. QED  BY <1>1, DeliveredInv DEF Finished

LEMMA WaitFinishedInv == ASSUME IInv, WaitFinished PROVE IInv'
<1>1. cur \in Handle /\ cur \in m_processMap
  BY DEF IInv, TypeOK, CallInv, WaitFinished
<1>. QED  BY <1>1, DeliveredInv DEF WaitFinished

LEMMA SendSignalType ==
  ASSUME TypeOK, NEW h \in Handle, SendSignal(h, "term")
  PROVE  /\ signal' \in [Handle -> {"none", "term", "kill"}]
         /\ \A k \in Handle : signal[k] = "kill" => signal'[k] = "kill"
BY DEF TypeOK, SendSignal

LEMMA KillInv == ASSUME IInv, NEW h \in Handle, Kill(h) PROVE IInv'
<1>1. /\ signal' \in [Handle -> {"none", "term", "kill"}]
      /\ \A k \in Handle : signal[k] = "kill" => signal'[k] = "kill"
  BY SendSignalType DEF IInv, Kill
<1>2. TypeOK'
  BY <1>1 DEF IInv, TypeOK, Kill, mgrVars, Waits
<1>3. StopIsForced'
  <2>1. InHand = {} /\ InHand' = {h}
    BY DEF IInv, CallInv, InHand, Kill
  <2>2. \A k \in requested \cap m_processMap : signal[k] = "kill" \/ state[k] = "NotRunning"
    BY <2>1 DEF IInv, StopIsForced
  <2>3. m_processMap \in SUBSET Handle
    BY DEF IInv, TypeOK
  <2>. SUFFICES ASSUME NEW k \in (requested' \cap m_processMap') \ InHand'
                PROVE  signal'[k] = "kill" \/ state'[k] = "NotRunning"
    BY DEF StopIsForced
  <2>4. /\ k \in requested \cap m_processMap /\ k \in Handle
        /\ state' = state
    BY <2>1, <2>3 DEF Kill, mgrVars
  <2>. QED
    BY <1>1, <2>2, <2>4
<1>4. h \in 0 .. m_nextHandle - 1
  BY TrackedHandles DEF Kill
<1>5. HandlesInOrder' /\ CallInv'
  BY <1>1, <1>4 DEF IInv, TypeOK, HandlesInOrder, CallInv, Kill, mgrVars, Handle
<1>6. EventProtocol' /\ MapMatchesEvents' /\ NoLostChild'
  BY DEF IInv, EventProtocol, MapMatchesEvents, NoLostChild, Kill, mgrVars
<1>. QED  BY <1>2, <1>3, <1>5, <1>6 DEF IInv

LEMMA KillAllInv == ASSUME IInv, KillAll PROVE IInv'
<1>1. TypeOK'
  BY DEF IInv, TypeOK, KillAll, Snapshot, mgrVars, Waits
<1>2. StopIsForced'
  BY DEF IInv, TypeOK, StopIsForced, InHand, CallInv, KillAll, Snapshot, mgrVars
<1>3. m_processMap \subseteq 0 .. m_nextHandle - 1
  BY TrackedHandles DEF KillAll
<1>4. HandlesInOrder' /\ CallInv'
  BY <1>3 DEF IInv, TypeOK, HandlesInOrder, CallInv, KillAll, mgrVars
<1>5. EventProtocol' /\ MapMatchesEvents' /\ NoLostChild'
  BY DEF IInv, EventProtocol, MapMatchesEvents, NoLostChild, KillAll, mgrVars
<1>. QED  BY <1>1, <1>2, <1>4, <1>5 DEF IInv

LEMMA KillNextInv == ASSUME IInv, KillNext PROVE IInv'
<1>1. PICK h \in rest :
        /\ rest' = rest \ {h}
        /\ IF h \in m_processMap
           THEN SendSignal(h, "term") /\ pc' = "waitTerm" /\ cur' = h
           ELSE UNCHANGED <<signal, pc, cur>>
  BY DEF KillNext
<1>2. h \in Handle
  BY DEF IInv, TypeOK
<1>3. /\ signal' \in [Handle -> {"none", "term", "kill"}]
      /\ \A k \in Handle : signal[k] = "kill" => signal'[k] = "kill"
  BY <1>1, <1>2, SendSignalType DEF IInv, TypeOK
<1>4. TypeOK'
  BY <1>1, <1>2, <1>3 DEF IInv, TypeOK, KillNext, mgrVars, Waits
<1>5. StopIsForced'
  BY <1>1, <1>2, <1>3 DEF IInv, TypeOK, StopIsForced, InHand, KillNext, mgrVars
<1>6. HandlesInOrder' /\ CallInv'
  BY <1>1, <1>2, <1>3 DEF IInv, TypeOK, HandlesInOrder, CallInv, KillNext, mgrVars
<1>7. EventProtocol' /\ MapMatchesEvents' /\ NoLostChild'
  BY <1>1 DEF IInv, EventProtocol, MapMatchesEvents, NoLostChild, KillNext, mgrVars
<1>. QED  BY <1>4, <1>5, <1>6, <1>7 DEF IInv

LEMMA KillReturnsInv == ASSUME IInv, KillReturns PROVE IInv'
BY DEF IInv, TypeOK, EventProtocol, MapMatchesEvents, NoLostChild, StopIsForced,
       InHand, HandlesInOrder, CallInv, KillReturns, mgrVars, Waits

(* A wait that fails: SIGKILL after the first one, nothing after the second. *)
LEMMA WaitTimedOutInv == ASSUME IInv, WaitTimedOut PROVE IInv'
<1>1. /\ cur \in Handle /\ cur \in m_processMap
      /\ UNCHANGED <<mgrVars, child, cur, rest, events, requested>>
  BY DEF IInv, TypeOK, CallInv, WaitTimedOut, LeaveEntry
<1>2. /\ state' \in [Handle -> {"NotRunning", "Starting", "Running"}]
      /\ \A k \in Handle : state[k] = "NotRunning" => state'[k] = "NotRunning"
  BY <1>1, AfterStartupType DEF IInv, TypeOK, WaitTimedOut
<1>3. /\ signal' \in [Handle -> {"none", "term", "kill"}]
      /\ \A k \in Handle : signal[k] = "kill" => signal'[k] = "kill"
  BY DEF IInv, TypeOK, WaitTimedOut, ForceKill
<1>4. \/ /\ pc = "waitTerm" /\ pc' = "waitKill"
         /\ signal'[cur] = "kill" \/ state'[cur] = "NotRunning"
      \/ pc = "waitKill" /\ pc' = "loop"
  BY <1>1 DEF IInv, TypeOK, WaitTimedOut, ForceKill
<1>5. TypeOK'
  BY <1>1, <1>2, <1>3, <1>4 DEF IInv, TypeOK, mgrVars, Waits
<1>6. StopIsForced' /\ CallInv'
  BY <1>1, <1>2, <1>3, <1>4
  DEF IInv, TypeOK, StopIsForced, InHand, CallInv, mgrVars
<1>7. HandlesInOrder' /\ NoLostChild'
  BY <1>1, <1>2, <1>4 DEF IInv, TypeOK, HandlesInOrder, NoLostChild, mgrVars
<1>8. EventProtocol' /\ MapMatchesEvents'
  BY <1>1, <1>4 DEF IInv, EventProtocol, MapMatchesEvents, mgrVars
<1>. QED  BY <1>5, <1>6, <1>7, <1>8 DEF IInv

-----------------------------------------------------------------------------
LEMMA NextInv == IInv /\ [Next]_qVars => IInv'
<1>. SUFFICES ASSUME IInv, [Next]_qVars PROVE IInv'
  OBVIOUS
<1>1. CASE User
  BY <1>1, StartProcessInv, KillAllInv, KillInv DEF User
<1>2. CASE Blocked
  BY <1>2, StartReturnsInv, KillNextInv, KillReturnsInv, WaitFinishedInv,
     WaitTimedOutInv
  DEF Blocked
<1>3. CASE \E h \in Handle : OS(h) \/ Loop(h)
  BY <1>3, OSInv, StartupNotifiedInv, FinishedInv DEF Loop
<1>4. CASE UNCHANGED qVars
  BY <1>4
  DEF IInv, TypeOK, EventProtocol, MapMatchesEvents, NoLostChild,
      StopIsForced, InHand, HandlesInOrder, CallInv, qVars, mgrVars
<1>. QED  BY <1>1, <1>2, <1>3, <1>4 DEF Next

(* The inductive invariant holds whatever the number of starts.            *)
THEOREM Invariance == Spec => []IInv
<1>. QED  BY InitInv, NextInv, PTL DEF Spec

(* Every variable keeps its type.                                          *)
THEOREM TypeCorrect == Spec => []TypeOK
<1>1. IInv => TypeOK
  BY DEF IInv
<1>. QED  BY <1>1, Invariance, PTL

(* STARTED once, then STOPPED once, however the death of a child, the event *)
(* loop and the blocking calls interleave.                                 *)
THEOREM EventsInOrder == Spec => []EventProtocol
<1>1. IInv => EventProtocol
  BY DEF IInv
<1>. QED  BY <1>1, Invariance, PTL

(* The maps hold what the events say.                                      *)
THEOREM MapsAgree == Spec => []MapMatchesEvents
<1>1. IInv => MapMatchesEvents
  BY DEF IInv
<1>. QED  BY <1>1, Invariance, PTL

(* No process that may be running drops out of the map.                    *)
THEOREM ChildrenReachable == Spec => []NoLostChild
<1>1. IInv => NoLostChild
  BY DEF IInv
<1>. QED  BY <1>1, Invariance, PTL

(* A stop request that has been dealt with was enforced with SIGKILL unless *)
(* the process had already gone or had never run.                          *)
THEOREM StopsEnforced == Spec => []StopIsForced
<1>1. IInv => StopIsForced
  BY DEF IInv
<1>. QED  BY <1>1, Invariance, PTL

(* No child is lost, whoever sees it die.                                  *)
THEOREM NoChildIsLost == Spec => []ChildrenAccounted
<1>1. IInv => ChildrenAccounted
  BY DEF IInv, ChildrenAccounted
<1>. QED  BY <1>1, Invariance, PTL

(***************************************************************************)
(* The launcher.                                                           *)
(*                                                                         *)
(* A step of the launcher is one of the process manager, or leaves it      *)
(* alone, but for the last, ~QObject, which kills what still runs: the     *)
(* invariant of the manager carries over.  What is added relates the       *)
(* toolbar's map and the phase of main() to the manager's map, and says    *)
(* that a stop request has reached whatever may still run on the way out.  *)
(***************************************************************************)

WayOut == {"appDtor", "baseDtor", "gone"}

(* The window is there or it is not, and main() starts its children first. *)
PhaseOK ==
  /\ phase = "launching" => ~toolbar
  /\ ~toolbar => m_runningApps = {}
  /\ pc = "waitStarted" => phase \notin WayOut /\ (toolbar => phase = "exec")
  /\ phase = "gone" => pc = "idle"

(* What runs is known to be, and was asked to stop before it is forced.    *)
StopsOK ==
  /\ phase \in WayOut => m_processMap \subseteq requested
  /\ \A h \in Handle : child[h] \in {"forked", "live"} => state[h] # "NotRunning"
  /\ pc = "waitTerm" => signal[cur] # "none" \/ state[cur] = "NotRunning"

LauncherInv == IInv /\ LTypeOK /\ MirrorExact /\ PhaseOK /\ StopsOK

-----------------------------------------------------------------------------
LEMMA InitLauncherInv == LInit => LauncherInv
<1> SUFFICES ASSUME LInit PROVE LauncherInv
  OBVIOUS
<1>1. IInv
  BY InitInv DEF LInit
<1>2. LTypeOK
  <2>1. phase \in Phases /\ s_sigPipe \in 0 .. MaxSignals /\ m_runningApps \in SUBSET Handle
    BY LauncherAssumption DEF LInit, Phases
  <2>2. quit \in BOOLEAN /\ quitAfter \in BOOLEAN /\ finishedGetLine \in BOOLEAN
    BY Zenon DEF LInit
  <2>3. toolbar \in BOOLEAN
    BY DEF LInit
  <2> QED BY <1>1, <2>1, <2>2, <2>3 DEF LTypeOK, IInv
<1>3. MirrorExact
  BY DEF LInit, Init, MirrorExact
<1>4. PhaseOK
  BY DEF LInit, Init, PhaseOK
<1>5. StopsOK
  BY DEF LInit, Init, StopsOK, WayOut
<1> QED BY <1>1, <1>2, <1>3, <1>4, <1>5 DEF LauncherInv

-----------------------------------------------------------------------------
(* The steps by what they are to the manager.                              *)
ManagerStep ==
  \/ StartApplication \/ ApplicationStarted \/ KilledChildFinished \/ KillGoesOn \/ KillCallReturns
  \/ onKillAllTriggered \/ onQuitTriggered \/ ExecReturns \/ BaseDestructor
  \/ \E h \in Handle : onKillAppTriggered(h) \/ ChildFinished(h) \/ StartupNoticed(h) \/ OSStep(h)

QuietStep ==
  \/ EnterEventLoop \/ RequestQuit \/ signalHandler \/ ReadLine \/ onSignalActivated \/ newLine

LEMMA LauncherSteps == LNext => ManagerStep \/ QuietStep \/ Destroyed
  BY DEF LNext, GuiThread, UserOrMain, Asked, ManagerStep, QuietStep

LEMMA ManagerSteps == ManagerStep => Next
<1>1. StartApplication => Next
  BY DEF StartApplication, Next, User
<1>2. ApplicationStarted => Next
  BY DEF ApplicationStarted, Next, Blocked
<1>3. KilledChildFinished \/ KillGoesOn \/ KillCallReturns => Next
  BY DEF KilledChildFinished, KillGoesOn, KillCallReturns, Next, Blocked
<1>4. onKillAllTriggered \/ onQuitTriggered \/ ExecReturns \/ BaseDestructor => Next
  BY DEF onKillAllTriggered, onQuitTriggered, ExecReturns, BaseDestructor, Next, User
<1>5. ASSUME NEW h \in Handle, onKillAppTriggered(h) \/ ChildFinished(h) \/ StartupNoticed(h) \/ OSStep(h)
      PROVE  Next
  BY <1>5 DEF onKillAppTriggered, ChildFinished, StartupNoticed, OSStep, Next, User, Loop
<1> QED BY <1>1, <1>2, <1>3, <1>4, <1>5 DEF ManagerStep

LEMMA QuietSteps == QuietStep => UNCHANGED qVars
  BY DEF QuietStep, EnterEventLoop, RequestQuit, signalHandler, ReadLine, onSignalActivated, newLine

(* Whatever still runs when the objects go has been killed by force.       *)
LEMMA AllForced ==
  ASSUME LauncherInv, phase \in WayOut, pc = "idle", NEW h \in Handle, state[h] # "NotRunning"
  PROVE  signal[h] = "kill"
<1>1. h \in requested \cap m_processMap
  BY DEF LauncherInv, IInv, NoLostChild, StopsOK
<1>2. InHand = {}
  BY DEF LauncherInv, IInv, CallInv, InHand
<1> QED BY <1>1, <1>2 DEF LauncherInv, IInv, StopIsForced

LEMMA DestroyedKillsNone == ASSUME LauncherInv, Destroyed PROVE signal' = signal
<1>1. ASSUME NEW h \in Handle, state[h] # "NotRunning" PROVE signal[h] = "kill"
  BY <1>1, AllForced DEF Destroyed, WayOut
<1>2. signal = [h \in Handle |-> signal[h]]
  BY DEF LauncherInv, IInv, TypeOK
<1> QED BY <1>1, <1>2 DEF Destroyed, DeleteChildren

LEMMA ManagerInv == ASSUME LauncherInv, [LNext]_vars PROVE IInv'
<1>1. CASE Destroyed
  BY <1>1, DestroyedKillsNone, NextInv DEF Destroyed, LauncherInv, qVars
<1>2. CASE ManagerStep
  BY <1>2, ManagerSteps, NextInv DEF LauncherInv
<1>3. CASE QuietStep
  BY <1>3, QuietSteps, NextInv DEF LauncherInv
<1>4. CASE UNCHANGED vars
  BY <1>4, NextInv DEF LauncherInv, vars
<1> QED BY <1>1, <1>2, <1>3, <1>4, LauncherSteps

-----------------------------------------------------------------------------
(* What the launcher adds to the invariant of the manager, step by step.   *)
Added == LTypeOK /\ MirrorExact /\ PhaseOK /\ StopsOK

Facts == IInv /\ TypeOK /\ Added

LEMMA StartKeeps == ASSUME Facts, TypeOK', StartApplication PROVE Added'
<1>1. m_nextHandle \in Handle /\ m_nextHandle \notin m_processMap
  <2>1. m_nextHandle \in Handle /\ pc = "idle"
    BY MaxHandleAssumption DEF Facts, TypeOK, StartApplication, StartProcess, Handle
  <2>2. m_nextHandle >= m_nextHandle
    BY <2>1, MaxHandleAssumption DEF Handle
  <2>3. events[m_nextHandle] = <<>>
    BY <2>1, <2>2 DEF Facts, IInv, HandlesInOrder
  <2>4. <<>> # <<"STARTED">>
    OBVIOUS
  <2>5. m_nextHandle \notin m_processMap
    BY <2>1, <2>3, <2>4 DEF Facts, IInv, MapMatchesEvents
  <2> QED BY <2>1, <2>5
<1>2. pc' = "waitStarted" /\ cur' = m_nextHandle /\ m_processMap' = m_processMap \cup {m_nextHandle}
      /\ pc = "idle" /\ UNCHANGED <<lVars, signal, requested>> /\ phase \notin WayOut
      /\ (toolbar => phase = "exec")
  BY DEF StartApplication, StartProcess, Track, WayOut
<1>3. UNCHANGED <<toolbar, m_runningApps, phase, quit, quitAfter, s_sigPipe, finishedGetLine>>
  BY <1>2 DEF lVars, inbox
<1>4. \A h \in Handle : child'[h] \in {"forked", "live"} => state'[h] # "NotRunning"
  <2> SUFFICES ASSUME NEW h \in Handle, child'[h] \in {"forked", "live"} PROVE state'[h] # "NotRunning"
    OBVIOUS
  <2>1. CASE h = m_nextHandle
    BY <1>1, <2>1 DEF Facts, TypeOK, StartApplication, StartProcess
  <2>2. CASE h # m_nextHandle
    BY <1>1, <2>2 DEF Facts, Added, StopsOK, TypeOK, StartApplication, StartProcess
  <2> QED BY <2>1, <2>2
<1>5. LTypeOK' /\ MirrorExact'
  BY <1>1, <1>2, <1>3 DEF Facts, Added, LTypeOK, MirrorExact
<1>6. PhaseOK' /\ StopsOK'
  BY <1>2, <1>3, <1>4 DEF Facts, Added, PhaseOK, StopsOK, WayOut
<1> QED BY <1>5, <1>6 DEF Added

LEMMA StartedKeeps == ASSUME Facts, TypeOK', ApplicationStarted PROVE Added'
<1>1. cur \in m_processMap /\ cur \in m_processDescriptors /\ cur \in Handle
  BY DEF Facts, IInv, TypeOK, MapMatchesEvents, ApplicationStarted, StartReturns
<1>2. pc = "waitStarted" /\ pc' = "idle"
      /\ UNCHANGED <<m_processMap, child, signal, cur, requested, toolbar, phase, quit,
                     quitAfter, s_sigPipe, finishedGetLine>>
  BY DEF ApplicationStarted, StartReturns, inbox
<1>3. m_runningApps' = IF toolbar /\ phase = "exec" THEN m_runningApps \cup {cur} ELSE m_runningApps
  <2>1. ApplicationEvent(cur, "STARTED")
    BY DEF ApplicationStarted
  <2>2. CASE toolbar /\ phase = "exec"
    BY <1>1, <2>1, <2>2 DEF ApplicationEvent
  <2>3. CASE ~toolbar
    BY <2>1, <2>3 DEF ApplicationEvent
  <2>4. CASE phase # "exec"
    BY <2>1, <2>4 DEF ApplicationEvent
  <2> QED BY <2>2, <2>3, <2>4
<1>4. \A h \in Handle : child'[h] \in {"forked", "live"} => state'[h] # "NotRunning"
  BY <1>2 DEF Facts, Added, StopsOK, TypeOK, ApplicationStarted, StartReturns, AfterStartup
<1>5. LTypeOK' /\ MirrorExact'
  BY <1>1, <1>2, <1>3 DEF Facts, Added, LTypeOK, MirrorExact
<1>6. PhaseOK' /\ StopsOK'
  BY <1>2, <1>3, <1>4 DEF Facts, Added, PhaseOK, StopsOK, WayOut
<1> QED BY <1>5, <1>6 DEF Added

LEMMA FinishedKeeps ==
  ASSUME Facts, TypeOK', NEW h \in Handle, OnProcessFinished(h), FinishedSlots(h), child[h] = "dead",
         UNCHANGED signal, pc # "waitStarted", phase # "gone", pc' \in {"idle", "loop"}
  PROVE  Added'
<1>1. m_processMap' = m_processMap \ {h} /\ requested' = requested /\ child' = child
      /\ state' = [state EXCEPT ![h] = "NotRunning"]
      /\ UNCHANGED <<toolbar, phase, quitAfter, s_sigPipe, finishedGetLine>>
  BY DEF OnProcessFinished, FinishedSlots, Forget, inbox
<1>2. m_runningApps' = IF toolbar /\ phase = "exec" THEN m_runningApps \ {h} ELSE m_runningApps
  <2>1. ApplicationEvent(h, "STOPPED")
    BY DEF FinishedSlots
  <2>2. CASE toolbar /\ phase = "exec"
    BY <2>1, <2>2 DEF ApplicationEvent
  <2>3. CASE ~toolbar
    BY <2>1, <2>3 DEF ApplicationEvent
  <2>4. CASE phase # "exec"
    BY <2>1, <2>4 DEF ApplicationEvent
  <2> QED BY <2>2, <2>3, <2>4
<1>3. quit' \in BOOLEAN
  BY Zenon DEF Facts, Added, LTypeOK, FinishedSlots, onAllProcessesFinished
<1>4. \A k \in Handle : child'[k] \in {"forked", "live"} => state'[k] # "NotRunning"
  BY <1>1 DEF Facts, Added, StopsOK, TypeOK
<1>5. LTypeOK' /\ MirrorExact'
  BY <1>1, <1>2, <1>3 DEF Facts, Added, LTypeOK, MirrorExact
<1>6. PhaseOK' /\ StopsOK'
  BY <1>1, <1>2, <1>4 DEF Facts, Added, PhaseOK, StopsOK, WayOut
<1> QED BY <1>5, <1>6 DEF Added

(* The steps of a blocked call and the calls to Kill and KillAll.          *)
KillStep ==
  \/ KillGoesOn \/ KillCallReturns
  \/ onKillAllTriggered \/ onQuitTriggered \/ ExecReturns \/ BaseDestructor
  \/ \E h \in Handle : onKillAppTriggered(h)

LEMMA KillKeeps == ASSUME Facts, TypeOK', KillStep PROVE Added'
<1>1. m_processMap' = m_processMap /\ requested \subseteq requested' /\ child' = child
  BY DEF KillStep, KillGoesOn, KillNext, WaitTimedOut, LeaveEntry, KillCallReturns, KillReturns,
         onKillAllTriggered, onQuitTriggered, ExecReturns, BaseDestructor, KillAll,
         onKillAppTriggered, Kill, mgrVars
<1>2. pc # "waitStarted" /\ pc' # "waitStarted" /\ phase # "gone" /\ phase' # "gone"
  BY DEF KillStep, KillGoesOn, KillNext, WaitTimedOut, KillCallReturns, KillReturns, onKillAllTriggered,
         onQuitTriggered, ExecReturns, BaseDestructor, KillAll, onKillAppTriggered, Kill,
         Facts, Added, PhaseOK, lVars
<1>3. \/ UNCHANGED <<toolbar, m_runningApps, phase>>
      \/ phase' \in WayOut /\ requested' = requested \cup m_processMap /\ toolbar' = toolbar
         /\ m_runningApps' \in {{}, m_runningApps}
  BY DEF KillStep, KillGoesOn, KillCallReturns, onKillAllTriggered, onQuitTriggered, ExecReturns,
         BaseDestructor, KillAll, onKillAppTriggered, lVars, WayOut
<1>4. s_sigPipe' = s_sigPipe /\ finishedGetLine' = finishedGetLine
      /\ phase' \in Phases
  BY DEF KillStep, KillGoesOn, KillCallReturns, onKillAllTriggered, onQuitTriggered, ExecReturns,
         BaseDestructor, onKillAppTriggered, lVars, inbox, Facts, Added, LTypeOK, Phases
<1>5. quit' \in BOOLEAN /\ quitAfter' \in BOOLEAN
  <2>1. quit \in BOOLEAN /\ quitAfter \in BOOLEAN
    BY DEF Facts, Added, LTypeOK
  <2>2. quit' \in {quit, quit \/ quitAfter} /\ quitAfter' \in {quitAfter, TRUE, FALSE}
    BY DEF KillStep, KillGoesOn, KillCallReturns, onKillAllTriggered, onQuitTriggered, ExecReturns,
           BaseDestructor, onKillAppTriggered, lVars
  <2> QED BY <2>1, <2>2
<1>6. \A h \in Handle : child'[h] \in {"forked", "live"} => state'[h] # "NotRunning"
  <2>1. CASE KillGoesOn
    BY <1>1, <2>1 DEF Facts, Added, StopsOK, TypeOK, KillGoesOn, KillNext, WaitTimedOut, AfterStartup
  <2>2. CASE ~KillGoesOn
    <3>1. state' = state
      BY <2>2 DEF KillStep, KillCallReturns, KillReturns, onKillAllTriggered, onQuitTriggered,
             ExecReturns, BaseDestructor, KillAll, onKillAppTriggered, Kill
    <3> QED BY <1>1, <3>1 DEF Facts, Added, StopsOK
  <2> QED BY <2>1, <2>2
<1>7. pc' = "waitTerm" => signal'[cur'] # "none" \/ state'[cur'] = "NotRunning"
  <2> SUFFICES ASSUME pc' = "waitTerm"
               PROVE  signal'[cur'] # "none" \/ state'[cur'] = "NotRunning"
    OBVIOUS
  <2>1. PICK h \in Handle : SendSignal(h, "term") /\ cur' = h /\ state' = state
    BY DEF Facts, TypeOK, KillStep, KillGoesOn, KillNext, WaitTimedOut, KillCallReturns, KillReturns,
           onKillAllTriggered, onQuitTriggered, ExecReturns, BaseDestructor, KillAll,
           onKillAppTriggered, Kill
  <2> QED BY <2>1 DEF SendSignal, Facts, TypeOK
<1>8. LTypeOK'
  BY <1>3, <1>4, <1>5 DEF Facts, Added, LTypeOK
<1>9. MirrorExact'
  BY <1>1, <1>2, <1>3 DEF Facts, Added, MirrorExact, WayOut
<1>10. PhaseOK'
  BY <1>2, <1>3 DEF Facts, Added, PhaseOK, WayOut
<1>11. StopsOK'
  BY <1>1, <1>3, <1>6, <1>7 DEF Facts, Added, StopsOK
<1> QED BY <1>8, <1>9, <1>10, <1>11 DEF Added

(* The steps of the system, of QProcess and of the world outside.          *)
LEMMA OutsideKeeps ==
  ASSUME Facts, TypeOK', NEW h \in Handle, StartupNoticed(h) \/ OSStep(h)
  PROVE  Added'
<1>1. UNCHANGED <<mgrVars, signal, pc, cur, requested>>
      /\ UNCHANGED <<toolbar, m_runningApps, phase, quit, quitAfter, s_sigPipe, finishedGetLine>>
  BY DEF StartupNoticed, StartupNotified, OSStep, OS, Exec, Die, lVars, inbox
<1>2. \A k \in Handle : child'[k] \in {"forked", "live"} => state'[k] # "NotRunning"
  <2>1. CASE StartupNoticed(h)
    BY <2>1 DEF Facts, Added, StopsOK, TypeOK, StartupNoticed, StartupNotified, AfterStartup
  <2>2. CASE OSStep(h)
    BY <2>2 DEF Facts, Added, StopsOK, TypeOK, OSStep, OS, Exec, Die
  <2> QED BY <2>1, <2>2
<1>3. pc = "waitTerm" => state' = state
  BY DEF StartupNoticed, StartupNotified, OSStep, OS, Exec, Die
<1>4. LTypeOK' /\ MirrorExact' /\ PhaseOK'
  BY <1>1 DEF Facts, Added, LTypeOK, MirrorExact, PhaseOK, mgrVars
<1>5. StopsOK'
  BY <1>1, <1>2, <1>3 DEF Facts, Added, StopsOK, mgrVars
<1> QED BY <1>4, <1>5 DEF Added

LEMMA QuietKeeps == ASSUME Facts, TypeOK', QuietStep PROVE Added'
<1>1. UNCHANGED <<m_processMap, state, child, signal, pc, cur, requested>>
  BY QuietSteps DEF qVars, mgrVars
<1>2. UNCHANGED <<toolbar, m_runningApps, quitAfter>>
  BY DEF QuietStep, EnterEventLoop, RequestQuit, signalHandler, ReadLine, onSignalActivated, newLine
<1>3. phase' = phase \/ (phase = "launching" /\ phase' = "exec" /\ pc = "idle")
  BY DEF QuietStep, EnterEventLoop, RequestQuit, signalHandler, ReadLine, onSignalActivated, newLine
<1>4. quit' \in BOOLEAN /\ finishedGetLine' \in BOOLEAN
  BY DEF QuietStep, EnterEventLoop, RequestQuit, signalHandler, ReadLine, onSignalActivated, newLine,
         Facts, Added, LTypeOK, inbox
<1>5. s_sigPipe' \in 0 .. MaxSignals
  BY LauncherAssumption
  DEF QuietStep, EnterEventLoop, RequestQuit, signalHandler, ReadLine, onSignalActivated, newLine,
      Facts, Added, LTypeOK, inbox
<1>6. LTypeOK'
  BY <1>2, <1>3, <1>4, <1>5 DEF Facts, Added, LTypeOK, Phases
<1>7. MirrorExact' /\ PhaseOK' /\ StopsOK'
  BY <1>1, <1>2, <1>3 DEF Facts, Added, MirrorExact, PhaseOK, StopsOK, WayOut
<1> QED BY <1>6, <1>7 DEF Added

LEMMA DestroyedKeeps == ASSUME Facts, TypeOK', Destroyed PROVE Added'
<1>1. signal' = signal
  BY DestroyedKillsNone DEF Facts, Added, LauncherInv
<1>2. UNCHANGED <<mgrVars, state, child, pc, cur, requested>> /\ phase = "baseDtor" /\ phase' = "gone"
      /\ UNCHANGED <<toolbar, m_runningApps, quit, quitAfter, s_sigPipe, finishedGetLine>>
      /\ pc = "idle"
  BY DEF Destroyed, inbox
<1>3. LTypeOK' /\ MirrorExact'
  BY <1>2 DEF Facts, Added, LTypeOK, Phases, MirrorExact
<1>4. PhaseOK' /\ StopsOK'
  BY <1>1, <1>2 DEF Facts, Added, PhaseOK, StopsOK, WayOut, mgrVars
<1> QED BY <1>3, <1>4 DEF Added

LEMMA NextLauncherInv == LauncherInv /\ [LNext]_vars => LauncherInv'
<1> SUFFICES ASSUME LauncherInv, [LNext]_vars PROVE LauncherInv'
  OBVIOUS
<1>1. IInv'
  BY ManagerInv
<1>2. Facts /\ TypeOK'
  BY <1>1 DEF LauncherInv, Facts, Added, IInv
<1>3. ASSUME StartApplication \/ ApplicationStarted PROVE Added'
  BY <1>2, <1>3, StartKeeps, StartedKeeps
<1>4. ASSUME KilledChildFinished PROVE Added'
  <2>1. cur \in Handle /\ phase # "gone"
    BY <1>2, <1>4 DEF Facts, TypeOK, Added, PhaseOK, KilledChildFinished, WaitFinished
  <2> QED BY <1>2, <1>4, <2>1, FinishedKeeps DEF KilledChildFinished, WaitFinished
<1>5. ASSUME NEW h \in Handle, ChildFinished(h) PROVE Added'
  BY <1>2, <1>5, FinishedKeeps DEF ChildFinished, Finished
<1>6. ASSUME KillStep PROVE Added'
  BY <1>2, <1>6, KillKeeps
<1>7. ASSUME NEW h \in Handle, StartupNoticed(h) \/ OSStep(h) PROVE Added'
  BY <1>2, <1>7, OutsideKeeps
<1>8. ASSUME QuietStep \/ Destroyed PROVE Added'
  BY <1>2, <1>8, QuietKeeps, DestroyedKeeps
<1>9. ASSUME UNCHANGED vars PROVE Added'
  BY <1>2, <1>9
  DEF Facts, Added, LTypeOK, MirrorExact, PhaseOK, StopsOK, vars, qVars, mgrVars, lVars, inbox
<1>10. Added'
  BY <1>3, <1>4, <1>5, <1>6, <1>7, <1>8, <1>9, LauncherSteps DEF ManagerStep, KillStep
<1> QED BY <1>1, <1>10 DEF Added, LauncherInv

-----------------------------------------------------------------------------
(* In every phase of main() and of the destructors the toolbar's map, the  *)
(* manager and the signals sent agree: what the theorems below rest on.    *)
THEOREM LauncherInvariant == LSpec => []LauncherInv
  BY InitLauncherInv, NextLauncherInv, PTL DEF LSpec

(* The variables of the launcher and of its process manager have their     *)
(* types, for any number of children and of signals.                       *)
THEOREM LauncherTypes == LSpec => []LTypeOK
<1>1. LauncherInv => LTypeOK
  BY DEF LauncherInv
<1> QED BY <1>1, LauncherInvariant, PTL

(* The process manager loses no child inside the launcher either, where    *)
(* the slots of its signals run and ~QObject has the last word.            *)
THEOREM LauncherLosesNoChild == LSpec => []ChildrenAccounted
<1>1. LauncherInv => ChildrenAccounted
  BY DEF LauncherInv, IInv, ChildrenAccounted
<1> QED BY <1>1, LauncherInvariant, PTL

(* The toolbar's map is the manager's, however children come and go.       *)
THEOREM MirrorStaysExact == LSpec => []MirrorExact
<1>1. LauncherInv => MirrorExact
  BY DEF LauncherInv
<1> QED BY <1>1, LauncherInvariant, PTL

-----------------------------------------------------------------------------
(* A signal is sent by few steps, and SIGKILL only after SIGTERM.          *)
LEMMA KillsInOrder ==
  ASSUME LauncherInv, [LNext]_vars, NEW h \in Handle, signal[h] = "none"
  PROVE  signal'[h] # "kill"
<1>1. TypeOK /\ StopsOK
  BY DEF LauncherInv, IInv
<1>2. CASE Destroyed
  BY <1>2, DestroyedKillsNone
<1>3. CASE QuietStep \/ UNCHANGED vars
  BY <1>3, QuietSteps DEF vars, qVars
<1>4. CASE ManagerStep
  <2>1. CASE StartProcess \/ StartReturns \/ WaitFinished \/ KillReturns \/ KillAll
    BY <2>1 DEF StartProcess, StartReturns, WaitFinished, KillReturns, KillAll
  <2>2. ASSUME NEW k \in Handle, OS(k) \/ Loop(k) PROVE signal'[h] # "kill"
    BY <2>2 DEF OS, Exec, Die, Loop, StartupNotified, Finished
  <2>3. ASSUME NEW k \in Handle, Kill(k) PROVE signal'[h] # "kill"
    BY <1>1, <2>3 DEF Kill, SendSignal, TypeOK
  <2>4. CASE KillNext
    BY <1>1, <2>4 DEF KillNext, SendSignal, TypeOK
  <2>5. CASE WaitTimedOut
    <3>1. cur \in Handle /\ state' = [state EXCEPT ![cur] = IF @ = "Starting" THEN AfterStartup(cur) ELSE @]
      BY <1>1, <2>5 DEF WaitTimedOut, TypeOK
    <3>2. CASE pc = "waitKill"
      BY <2>5, <3>2 DEF WaitTimedOut
    <3>3. CASE pc = "waitTerm"
      <4>1. signal[cur] # "none" \/ state[cur] = "NotRunning"
        BY <1>1, <3>3 DEF StopsOK
      <4>2. state[cur] = "NotRunning" => state'[cur] = "NotRunning"
        BY <1>1, <3>1 DEF TypeOK
      <4>3. ForceKill(cur)
        BY <2>5, <3>3 DEF WaitTimedOut
      <4> QED BY <1>1, <3>1, <4>1, <4>2, <4>3 DEF ForceKill, TypeOK
    <3> QED BY <2>5, <3>2, <3>3 DEF WaitTimedOut
  <2> QED BY <1>4, <2>1, <2>2, <2>3, <2>4, <2>5, ManagerSteps DEF Next, User, Blocked
<1> QED BY <1>2, <1>3, <1>4, LauncherSteps

NoneLeft == phase = "gone" => \A h \in Handle : child[h] \in {"forked", "live"} => signal[h] = "kill"

LEMMA GoneForced == LauncherInv => NoneLeft
  BY AllForced DEF LauncherInv, PhaseOK, StopsOK, WayOut, NoneLeft

(* No child is killed that was not asked before, and none is left behind   *)
(* that was not killed.                                                    *)
THEOREM ExitStaysOrderly == LSpec => ExitIsOrderly
<1> DEFINE Orderly ==
             \A h \in Handle :
               /\ signal[h] = "none" => signal'[h] # "kill"
               /\ phase' = "gone" /\ child'[h] \in {"forked", "live"} => signal'[h] = "kill"
<1>1. LauncherInv /\ NoneLeft' /\ [LNext]_vars => [Orderly]_vars
  BY KillsInOrder DEF NoneLeft
<1> QED BY <1>1, GoneForced, LauncherInvariant, PTL DEF LSpec, ExitIsOrderly

-----------------------------------------------------------------------------
(* The refinement: what a step does to the toolbar's list.                 *)
Listing == <<m_runningApps, m_nextHandle, toolbar, phase>>

LEMMA ListUnchanged ==
  ASSUME UNCHANGED Listing PROVE UNCHANGED List!vars
  BY DEF Listing, List!vars

LEMMA ListOpens == LInit => List!Init
<1> SUFFICES ASSUME LInit PROVE List!Init
  OBVIOUS
<1>1. m_runningApps = {}
  BY DEF LInit
<1>2. {h \in 0 .. m_nextHandle - 1 : toolbar} = {}
  BY DEF LInit, Init
<1>3. (toolbar /\ phase = "exec") \in BOOLEAN
  BY DEF LInit
<1> QED BY <1>1, <1>2, <1>3 DEF List!Init

LEMMA ListAdds == ASSUME LauncherInv, ApplicationStarted PROVE [List!Next]_(List!vars)
<1>1. /\ m_nextHandle' = m_nextHandle + 1 /\ toolbar' = toolbar /\ phase' = phase
      /\ m_nextHandle = cur /\ m_nextHandle \in Handle
  BY DEF LauncherInv, IInv, TypeOK, HandlesInOrder, ApplicationStarted, StartReturns, NextHandle, Handle
<1>2. ApplicationEvent(cur, "STARTED") /\ cur \in m_processDescriptors
  BY DEF LauncherInv, IInv, TypeOK, MapMatchesEvents, ApplicationStarted, StartReturns
<1>3. CASE toolbar
  <2>1. phase = "exec"
    BY <1>3 DEF LauncherInv, PhaseOK, ApplicationStarted, StartReturns
  <2>2. m_runningApps' = m_runningApps \cup {cur}
    BY <1>2, <1>3, <2>1 DEF ApplicationEvent
  <2>3. {h \in 0 .. m_nextHandle - 1 : toolbar} = 0 .. m_nextHandle - 1
        /\ {h \in 0 .. m_nextHandle' - 1 : toolbar'} = (0 .. m_nextHandle - 1) \cup {cur}
        /\ cur \notin 0 .. m_nextHandle - 1
    BY <1>1, <1>3 DEF Handle
  <2>4. (toolbar /\ phase = "exec") /\ ((toolbar /\ phase = "exec")' <=> (toolbar /\ phase = "exec"))
    BY <1>1, <1>3, <2>1
  <2>5. List!Add(cur)
    BY <1>1, <2>2, <2>3, <2>4 DEF List!Add
  <2> QED BY <1>1, <2>5 DEF List!Next
<1>4. CASE ~toolbar
  <2>1. m_runningApps' = m_runningApps
    BY <1>2, <1>4 DEF ApplicationEvent
  <2>2. {h \in 0 .. m_nextHandle - 1 : toolbar} = {} /\ {h \in 0 .. m_nextHandle' - 1 : toolbar'} = {}
    BY <1>1, <1>4
  <2> QED BY <1>1, <2>1, <2>2 DEF List!vars
<1> QED BY <1>3, <1>4

LEMMA ListRemoves ==
  ASSUME LauncherInv, NEW h \in Handle, OnProcessFinished(h), FinishedSlots(h)
  PROVE  [List!Next]_(List!vars)
<1>1. UNCHANGED <<m_nextHandle, toolbar, phase>>
  BY DEF OnProcessFinished, FinishedSlots
<1>2. m_runningApps' \in {m_runningApps, m_runningApps \ {h}}
  BY DEF FinishedSlots, ApplicationEvent
<1>3. CASE m_runningApps' = m_runningApps
  BY <1>1, <1>3, ListUnchanged DEF Listing
<1>4. CASE m_runningApps' # m_runningApps
  <2>1. h \in m_runningApps /\ m_runningApps' = m_runningApps \ {h}
    BY <1>2, <1>4
  <2>2. List!Remove(h)
    BY <1>1, <2>1 DEF List!Remove
  <2> QED BY <2>2 DEF List!Next
<1> QED BY <1>3, <1>4

LEMMA ListCloses == ASSUME LauncherInv, ExecReturns PROVE [List!Next]_(List!vars)
<1>1. m_runningApps' = {} /\ phase = "exec" /\ phase' = "appDtor" /\ toolbar' = toolbar
      /\ m_nextHandle' = m_nextHandle
  BY DEF ExecReturns, KillAll, mgrVars
<1>2. CASE toolbar
  BY <1>1, <1>2 DEF List!Close, List!Next
<1>3. CASE ~toolbar
  <2>1. m_runningApps = {}
    BY <1>3 DEF LauncherInv, PhaseOK
  <2> QED BY <1>1, <1>3, <2>1 DEF List!vars
<1> QED BY <1>2, <1>3

LEMMA ListStep == LauncherInv /\ [LNext]_vars => [List!Next]_(List!vars)
<1> SUFFICES ASSUME LauncherInv, [LNext]_vars PROVE [List!Next]_(List!vars)
  OBVIOUS
<1>1. CASE ApplicationStarted
  BY <1>1, ListAdds
<1>2. CASE KilledChildFinished
  <2>1. cur \in Handle
    BY DEF LauncherInv, IInv, TypeOK
  <2> QED BY <1>2, <2>1, ListRemoves DEF KilledChildFinished, WaitFinished
<1>3. ASSUME NEW h \in Handle, ChildFinished(h) PROVE [List!Next]_(List!vars)
  BY <1>3, ListRemoves DEF ChildFinished, Finished
<1>4. CASE ExecReturns
  BY <1>4, ListCloses
<1>5. CASE EnterEventLoop \/ BaseDestructor \/ Destroyed
  <2>1. UNCHANGED <<m_runningApps, m_nextHandle, toolbar>> /\ ~(toolbar /\ phase = "exec")
    BY <1>5 DEF EnterEventLoop, BaseDestructor, Destroyed, KillAll, qVars, mgrVars, LauncherInv, PhaseOK
  <2>2. ~(toolbar' /\ phase' = "exec")
    BY <1>5, <2>1 DEF EnterEventLoop, BaseDestructor, Destroyed, LauncherInv, PhaseOK
  <2> QED BY <2>1, <2>2 DEF List!vars
<1>6. CASE StartApplication \/ KillGoesOn \/ KillCallReturns \/ onKillAllTriggered \/ onQuitTriggered
  <2>1. UNCHANGED Listing
    BY <1>6 DEF StartApplication, StartProcess, KillGoesOn, KillNext, WaitTimedOut, LeaveEntry,
           KillCallReturns, KillReturns, onKillAllTriggered, onQuitTriggered, KillAll, Listing, lVars, mgrVars
  <2> QED BY <2>1, ListUnchanged
<1>7. ASSUME NEW h \in Handle, onKillAppTriggered(h) \/ StartupNoticed(h) \/ OSStep(h)
      PROVE  [List!Next]_(List!vars)
  <2>1. UNCHANGED Listing
    BY <1>7 DEF onKillAppTriggered, Kill, StartupNoticed, StartupNotified, OSStep, OS, Exec, Die,
           Listing, lVars, mgrVars
  <2> QED BY <2>1, ListUnchanged
<1>8. CASE QuietStep /\ ~EnterEventLoop
  <2>1. UNCHANGED Listing
    BY <1>8 DEF QuietStep, RequestQuit, signalHandler, ReadLine, onSignalActivated, newLine, Listing, qVars, mgrVars
  <2> QED BY <2>1, ListUnchanged
<1>9. CASE UNCHANGED vars
  BY <1>9, ListUnchanged DEF vars, qVars, mgrVars, lVars, Listing
<1> QED BY <1>1, <1>2, <1>3, <1>4, <1>5, <1>6, <1>7, <1>8, <1>9, LauncherSteps DEF ManagerStep

(* The toolbar, as the launcher keeps it, implements the abstract list.    *)
THEOREM ToolbarImplementsList == LSpec => ListSpec
<1> QED BY ListOpens, ListStep, LauncherInvariant, PTL DEF LSpec, ListSpec, List!Spec
=============================================================================
