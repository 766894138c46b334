--------------------------- MODULE QProcessManager ---------------------------
(***************************************************************************)
(* The generic child-process manager of the framework,                     *)
(* src/frame_work/base/src/process/QProcessManager.{h,cpp}, on Unix.       *)
(*                                                                         *)
(* All of its methods run on the GUI thread.  Three of them block that     *)
(* thread while the operating system works: StartProcess in                *)
(* waitForStarted(5000), Kill and KillAll in waitForFinished(10000) and    *)
(* then waitForFinished(1000).  A blocked call is modelled by pc, cur and  *)
(* rest: what it waits for, the handle it waits on and, in KillAll, the    *)
(* snapshot of keys it has still to visit.  A timeout may fire whenever    *)
(* what is waited for has not happened.  waitForFinished delivers          *)
(* finished() of the awaited child synchronously, from inside the wait;    *)
(* the finished() of the other children is delivered by the event loop,    *)
(* that is, only when pc = "idle".                                         *)
(***************************************************************************)
EXTENDS Naturals, Sequences

CONSTANT MaxHandle      \* bound: how many times StartProcess is called
ASSUME MaxHandleAssumption == MaxHandle \in Nat \ {0}

Handle == 0 .. MaxHandle - 1

VARIABLES
  m_nextHandle,
  m_processMap,         \* the keys of the map handle -> QProcess
  m_processDescriptors, \* the keys of the map handle -> descriptor
  state,                \* QProcess::state() of the handle's object
  child,                \* what the operating system knows of the child
  signal,               \* the strongest signal sent to the child
  pc, cur, rest,        \* the call the GUI thread is blocked in
  events,               \* history: the ProcessEvents emitted for a handle
  requested             \* history: the handles Kill or KillAll asked to stop

mgrVars == <<m_nextHandle, m_processMap, m_processDescriptors>>
qVars   == <<mgrVars, state, child, signal, pc, cur, rest, events, requested>>

ChildStates == {"none", "forked", "noexec", "live", "dead"}
Waits       == {"idle", "waitStarted", "loop", "waitTerm", "waitKill"}

TypeOK ==
  /\ m_nextHandle \in 0 .. MaxHandle
  /\ m_processMap \in SUBSET Handle
  /\ m_processDescriptors \in SUBSET Handle
  /\ state \in [Handle -> {"NotRunning", "Starting", "Running"}]
  /\ child \in [Handle -> ChildStates]
  /\ signal \in [Handle -> {"none", "term", "kill"}]
  /\ pc \in Waits
  /\ cur \in Handle
  /\ rest \in SUBSET Handle
  /\ events \in [Handle -> Seq({"STARTED", "STOPPED"})]
  /\ requested \in SUBSET Handle

Init ==
  /\ m_nextHandle = 0
  /\ m_processMap = {} /\ m_processDescriptors = {}
  /\ state = [h \in Handle |-> "NotRunning"]
  /\ child = [h \in Handle |-> "none"]
  /\ signal = [h \in Handle |-> "none"]
  /\ pc = "idle" /\ cur = 0 /\ rest = {}
  /\ events = [h \in Handle |-> <<>>]
  /\ requested = {}

-----------------------------------------------------------------------------
(* The operating system: the forked child executes the program or fails to, *)
(* and a live child dies by itself, of SIGTERM (which it may ignore) or of   *)
(* SIGKILL (which it may not).  A child signalled before exec dies too.      *)

Exec(h) ==
  /\ child[h] = "forked"
  /\ child' \in {[child EXCEPT ![h] = r] : r \in {"live", "noexec"}}
  /\ UNCHANGED <<mgrVars, state, signal, pc, cur, rest, events, requested>>

Die(h) ==
  /\ child[h] = "live" \/ (child[h] = "forked" /\ signal[h] # "none")
  /\ child' = [child EXCEPT ![h] = "dead"]
  /\ UNCHANGED <<mgrVars, state, signal, pc, cur, rest, events, requested>>

-----------------------------------------------------------------------------
(* QProcess: the startup pipe tells it whether exec succeeded.             *)

AfterStartup(h) ==
  CASE child[h] \in {"live", "dead"} -> "Running"
    [] child[h] = "noexec"           -> "NotRunning"
    [] OTHER                         -> state[h]

(* FailedToStart emits errorOccurred, which nobody connects, not finished. *)
StartupNotified(h) ==
  /\ pc = "idle"
  /\ state[h] = "Starting" /\ child[h] # "forked"
  /\ state' = [state EXCEPT ![h] = AfterStartup(h)]
  /\ UNCHANGED <<mgrVars, child, signal, pc, cur, rest, events, requested>>

(* QProcess::terminate and kill do nothing to a process that does not run. *)
SendSignal(h, s) ==
  signal' = IF state[h] = "NotRunning" \/ signal[h] = "kill"
            THEN signal ELSE [signal EXCEPT ![h] = s]

-----------------------------------------------------------------------------
(* The pieces the methods are made of.  A definition whose name ends in Mut *)
(* is a plausible slip in the one below it; no specification uses it.      *)

Emit(h, e) == events' = [events EXCEPT ![h] = Append(@, e)]

Track(h) ==
  /\ m_processMap' = m_processMap \cup {h}
  /\ m_processDescriptors' = m_processDescriptors \cup {h}

Forget(h) ==
  /\ m_processMap' = m_processMap \ {h}
  /\ m_processDescriptors' = m_processDescriptors \ {h}

NextHandleMut == m_nextHandle' = m_nextHandle

NextHandle == m_nextHandle' = m_nextHandle + 1

SnapshotRunningMut == {h \in m_processMap : state[h] = "Running"}

(* The keys KillAll goes through, taken before it changes the map.         *)
Snapshot == m_processMap

ForceKill(h) ==
  signal' = IF state'[h] = "NotRunning" THEN signal
            ELSE [signal EXCEPT ![h] = "kill"]

LeaveEntryMut(h) ==
  IF pc = "waitKill" THEN Forget(h) /\ UNCHANGED m_nextHandle ELSE UNCHANGED mgrVars

(* Nothing is done for a process that outlives the forced wait.            *)
LeaveEntry(h) == UNCHANGED mgrVars

StartProcess ==
  /\ pc = "idle" /\ m_nextHandle < MaxHandle
  /\ \/ /\ child' = [child EXCEPT ![m_nextHandle] = "forked"]
        /\ state' = [state EXCEPT ![m_nextHandle] = "Starting"]
     \/ /\ child' = [child EXCEPT ![m_nextHandle] = "noexec"]  \* fork failed
        /\ UNCHANGED state
  /\ Track(m_nextHandle)
  /\ pc' = "waitStarted" /\ cur' = m_nextHandle
  /\ UNCHANGED <<m_nextHandle, signal, rest, events, requested>>

(* waitForStarted(5000) returns, with success or not: the code only warns. *)
StartReturns ==
  /\ pc = "waitStarted"
  /\ state' = [state EXCEPT ![cur] = AfterStartup(cur)]
  /\ Emit(cur, "STARTED")
  /\ NextHandle
  /\ pc' = "idle"
  /\ UNCHANGED <<m_processMap, m_processDescriptors, child, signal, cur, rest,
                 requested>>

OnProcessFinished(h) ==
  /\ state' = [state EXCEPT ![h] = "NotRunning"]
  /\ Forget(h)
  /\ IF h \in m_processMap THEN Emit(h, "STOPPED") ELSE UNCHANGED events
  /\ UNCHANGED <<m_nextHandle, child, requested>>

(* finished() of a child that died, delivered by the event loop.           *)
Finished(h) ==
  /\ pc = "idle"
  /\ state[h] = "Running" /\ child[h] = "dead"
  /\ OnProcessFinished(h)
  /\ UNCHANGED <<signal, pc, cur, rest>>

-----------------------------------------------------------------------------
Kill(h) ==
  /\ pc = "idle"
  /\ h \in m_processMap
  /\ SendSignal(h, "term")
  /\ pc' = "waitTerm" /\ cur' = h /\ rest' = {}
  /\ requested' = requested \cup {h}
  /\ UNCHANGED <<mgrVars, state, child, events>>

KillAll ==
  /\ pc = "idle"
  /\ pc' = "loop" /\ rest' = Snapshot
  /\ requested' = requested \cup m_processMap
  /\ UNCHANGED <<mgrVars, state, child, signal, cur, events>>

(* One turn of KillAll's loop over its snapshot, in the order of the keys. *)
KillNext ==
  /\ pc = "loop" /\ rest # {}
  /\ \E h \in rest :
       /\ \A k \in rest : h <= k
       /\ rest' = rest \ {h}
       /\ IF h \in m_processMap
          THEN SendSignal(h, "term") /\ pc' = "waitTerm" /\ cur' = h
          ELSE UNCHANGED <<signal, pc, cur>>
  /\ UNCHANGED <<mgrVars, state, child, events, requested>>

KillReturns ==
  /\ pc = "loop" /\ rest = {}
  /\ pc' = "idle"
  /\ UNCHANGED <<mgrVars, state, child, signal, cur, rest, events, requested>>

(* waitForFinished returns true: finished() was delivered from inside it.  *)
WaitFinished ==
  /\ pc \in {"waitTerm", "waitKill"}
  /\ state[cur] # "NotRunning" /\ child[cur] = "dead"
  /\ OnProcessFinished(cur)
  /\ pc' = "loop"
  /\ UNCHANGED <<signal, cur, rest>>

(* It returns false on a timeout, and at once for a process that does not  *)
(* run or that turns out not to have started.  After the graceful wait the *)
(* process is killed; after the forced one the entry is left as it is.     *)
WaitTimedOut ==
  /\ pc \in {"waitTerm", "waitKill"}
  /\ state[cur] = "NotRunning" \/ child[cur] # "dead"
  /\ state' = [state EXCEPT ![cur] =
                 IF @ = "Starting" THEN AfterStartup(cur) ELSE @]
  /\ IF pc = "waitTerm"
     THEN ForceKill(cur) /\ pc' = "waitKill"
     ELSE UNCHANGED signal /\ pc' = "loop"
  /\ LeaveEntry(cur)
  /\ UNCHANGED <<child, cur, rest, events, requested>>

-----------------------------------------------------------------------------
OS(h)      == Exec(h) \/ Die(h)
Blocked    == StartReturns \/ KillNext \/ KillReturns \/ WaitFinished \/ WaitTimedOut
Loop(h)    == StartupNotified(h) \/ Finished(h)
User       == StartProcess \/ KillAll \/ \E h \in Handle : Kill(h)

Next == User \/ Blocked \/ \E h \in Handle : OS(h) \/ Loop(h)

Spec == Init /\ [][Next]_qVars

-----------------------------------------------------------------------------
(* A handle is announced at most once as started and then at most once as  *)
(* stopped, whichever of the event loop, Kill and KillAll sees its child   *)
(* die, and no handle is used for two children.                            *)
EventProtocol ==
  \A h \in Handle : events[h] \in {<<>>, <<"STARTED">>, <<"STARTED", "STOPPED">>}

(* Both maps hold exactly the handles announced as started and not yet as  *)
(* stopped, and the one whose start is in progress: GetProcessDescriptor   *)
(* answers for the handles a listener believes alive and for no other.     *)
MapMatchesEvents ==
  /\ m_processDescriptors = m_processMap
  /\ \A h \in Handle :
       h \in m_processMap <=> \/ events[h] = <<"STARTED">>
                             \/ (pc = "waitStarted" /\ cur = h)

(* A child that may be running is always in the map, so that Kill, KillAll *)
(* and the destructor can reach it.                                        *)
NoLostChild == \A h \in Handle : state[h] # "NotRunning" => h \in m_processMap

(* A stop request the manager is done with has left no entry that was not  *)
(* killed by force: what stays in the map afterwards is dying or never ran. *)
InHand == rest \cup (IF pc \in {"waitTerm", "waitKill"} THEN {cur} ELSE {})
StopIsForced ==
  \A h \in (requested \cap m_processMap) \ InHand :
    signal[h] = "kill" \/ state[h] = "NotRunning"

(* No child is lost, whatever the order in which the event loop, Kill and  *)
(* KillAll see it die: its events, its entry and its end agree.            *)
ChildrenAccounted == EventProtocol /\ MapMatchesEvents /\ NoLostChild /\ StopIsForced
=============================================================================
