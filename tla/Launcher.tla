------------------------------ MODULE Launcher -------------------------------
(***************************************************************************)
(* The launcher process of Daqster: src/apps/Daqster/main.cpp, which       *)
(* either shows the toolbar (no argument) or starts one child per argument *)
(* (several), the ApplicationsManager singleton it starts children with,   *)
(* the AppToolbar that mirrors the running ones, and the way out: quit(),  *)
(* the return of exec() and the static destructors.                        *)
(*                                                                         *)
(* The signals between these objects are direct connections, so what a     *)
(* slot does is part of the action that emits.  Requests to quit from      *)
(* outside come through the self pipe of UnixShutdownHandler and through   *)
(* the thread of QConsoleListener: both may come before exec() does.       *)
(***************************************************************************)
EXTENDS QProcessManager

CONSTANT MaxSignals   \* bound on the bytes in the self pipe

ASSUME LauncherAssumption == MaxSignals \in Nat

VARIABLES
  toolbar,          \* no positional argument: the main window with the toolbar
  m_runningApps,    \* AppToolbar: the keys of its map of running applications
  phase,            \* how far main() and the destructors are
  quit,             \* QCoreApplication::quit() was called
  quitAfter,        \* onQuitTriggered waits for KillAll before it quits
  s_sigPipe,        \* UnixShutdownHandler: the number of bytes in its pipe
  finishedGetLine   \* QConsoleListener: a line "quit" is in the event queue

inbox == <<s_sigPipe, finishedGetLine>>
lVars == <<toolbar, m_runningApps, phase, quit, quitAfter, inbox>>
vars  == <<qVars, lVars>>

Phases == {"launching", "exec", "appDtor", "baseDtor", "gone"}

LTypeOK ==
  /\ TypeOK
  /\ m_runningApps \in SUBSET Handle
  /\ toolbar \in BOOLEAN /\ quit \in BOOLEAN /\ quitAfter \in BOOLEAN
  /\ phase \in Phases
  /\ s_sigPipe \in 0 .. MaxSignals /\ finishedGetLine \in BOOLEAN

LInit ==
  /\ Init
  /\ m_runningApps = {}
  /\ toolbar \in BOOLEAN /\ phase = IF toolbar THEN "exec" ELSE "launching"
  /\ quit = FALSE /\ quitAfter = FALSE
  /\ s_sigPipe = 0 /\ finishedGetLine = FALSE

-----------------------------------------------------------------------------
ApplicationEventMut(h, e) ==
  m_runningApps' =
    IF ~toolbar \/ phase # "exec" THEN m_runningApps
    ELSE IF e = "STARTED" THEN m_runningApps \cup ({h} \cap m_processDescriptors)
    ELSE m_runningApps \ ({h} \cap m_processDescriptors')

(* AppToolbar::ApplicationEvent, connected while the main window exists.   *)
ApplicationEvent(h, e) ==
  m_runningApps' =
    IF ~toolbar \/ phase # "exec" THEN m_runningApps
    ELSE IF e = "STARTED" THEN m_runningApps \cup ({h} \cap m_processDescriptors)
    ELSE m_runningApps \ {h}

(* Headless mode, in which the end of the last child quits, stays off: the *)
(* constructor says so and nothing in the repository calls the setter.     *)
m_headlessMode == FALSE

onAllProcessesFinished ==
  quit' = (quit \/ (m_processMap' = {} /\ m_headlessMode))

(* The slots of finished(): clean-up, forwarded event, the hook above.     *)
FinishedSlots(h) ==
  /\ ApplicationEvent(h, "STOPPED")
  /\ onAllProcessesFinished
  /\ UNCHANGED <<phase, quitAfter, toolbar, inbox>>

-----------------------------------------------------------------------------
(* main() starts one child per argument before it enters the event loop.   *)
StartApplication ==
  /\ phase = IF toolbar THEN "exec" ELSE "launching"
  /\ StartProcess
  /\ UNCHANGED lVars

ApplicationStarted ==
  /\ StartReturns
  /\ ApplicationEvent(cur, "STARTED")
  /\ UNCHANGED <<phase, quit, quitAfter, toolbar, inbox>>

EnterEventLoop ==
  /\ phase = "launching" /\ pc = "idle" /\ m_nextHandle = MaxHandle
  /\ phase' = "exec"
  /\ UNCHANGED <<qVars, m_runningApps, quit, quitAfter, toolbar, inbox>>

onKillAppTriggered(h) ==
  /\ phase = "exec" /\ h \in m_runningApps
  /\ Kill(h)
  /\ UNCHANGED lVars

onKillAllTriggered ==
  /\ phase = "exec" /\ m_runningApps # {}     \* otherwise the button is disabled
  /\ KillAll
  /\ UNCHANGED lVars

onQuitTriggered ==
  /\ phase = "exec" /\ toolbar
  /\ KillAll
  /\ quitAfter' = TRUE
  /\ UNCHANGED <<m_runningApps, phase, quit, toolbar, inbox>>

(* The last window is closed.                                              *)
RequestQuit ==
  /\ phase = "exec" /\ pc = "idle" /\ toolbar
  /\ quit' = TRUE
  /\ UNCHANGED <<qVars, m_runningApps, phase, quitAfter, toolbar, inbox>>

(* SIGINT or SIGTERM.  A byte or a line that comes after exec() has        *)
(* returned is read by nobody and left out.                                *)
signalHandler ==
  /\ phase \in {"launching", "exec"} /\ s_sigPipe < MaxSignals
  /\ s_sigPipe' = s_sigPipe + 1
  /\ UNCHANGED <<qVars, toolbar, m_runningApps, phase, quit, quitAfter, finishedGetLine>>

(* One byte is read for one notification, and the loop ends.               *)
onSignalActivated ==
  /\ phase = "exec" /\ pc = "idle" /\ s_sigPipe > 0
  /\ s_sigPipe' = s_sigPipe - 1
  /\ quit' = TRUE
  /\ UNCHANGED <<qVars, toolbar, m_runningApps, phase, quitAfter, finishedGetLine>>

(* The listener's thread reads "quit" and posts it to the GUI thread.      *)
ReadLine ==
  /\ phase \in {"launching", "exec"} /\ ~finishedGetLine
  /\ finishedGetLine' = TRUE
  /\ UNCHANGED <<qVars, toolbar, m_runningApps, phase, quit, quitAfter, s_sigPipe>>

newLine ==
  /\ phase = "exec" /\ pc = "idle" /\ finishedGetLine
  /\ finishedGetLine' = FALSE
  /\ quit' = TRUE
  /\ UNCHANGED <<qVars, toolbar, m_runningApps, phase, quitAfter, s_sigPipe>>

-----------------------------------------------------------------------------
ChildFinished(h) ==
  /\ phase = "exec"
  /\ Finished(h)
  /\ FinishedSlots(h)

StartupNoticed(h) ==
  /\ phase = "exec"
  /\ StartupNotified(h)
  /\ UNCHANGED lVars

KilledChildFinished == WaitFinished /\ FinishedSlots(cur)

KillGoesOn == (KillNext \/ WaitTimedOut) /\ UNCHANGED lVars

KillCallReturnsMut ==
  /\ KillReturns
  /\ quitAfter' = FALSE
  /\ quit' = quitAfter
  /\ UNCHANGED <<m_runningApps, phase, toolbar, inbox>>

(* The last statement of onQuitTriggered, once its KillAll has returned.   *)
KillCallReturns ==
  /\ KillReturns
  /\ quit' = (quit \/ quitAfter)
  /\ quitAfter' = FALSE
  /\ UNCHANGED <<m_runningApps, phase, toolbar, inbox>>

-----------------------------------------------------------------------------
(* exec() returns, the window dies with main's frame, then the destructor  *)
(* of the ApplicationsManager calls KillAll, that of its base class again, *)
(* and ~QObject deletes the QProcess children, killing what still runs.    *)
ExecReturns ==
  /\ phase = "exec" /\ quit
  /\ KillAll
  /\ phase' = "appDtor"
  /\ m_runningApps' = {}
  /\ UNCHANGED <<quit, quitAfter, toolbar, inbox>>

BaseDestructor ==
  /\ phase = "appDtor"
  /\ KillAll
  /\ phase' = "baseDtor"
  /\ UNCHANGED <<m_runningApps, quit, quitAfter, toolbar, inbox>>

DeleteChildren ==
  signal' = [h \in Handle |-> IF state[h] = "NotRunning" THEN signal[h] ELSE "kill"]

Destroyed ==
  /\ phase = "baseDtor" /\ pc = "idle"
  /\ DeleteChildren
  /\ phase' = "gone"
  /\ UNCHANGED <<mgrVars, state, child, pc, cur, rest, events, requested>>
  /\ UNCHANGED <<m_runningApps, quit, quitAfter, toolbar, inbox>>

-----------------------------------------------------------------------------
OSStep(h) == OS(h) /\ UNCHANGED lVars

GuiThread ==
  \/ ApplicationStarted \/ KilledChildFinished \/ KillGoesOn \/ KillCallReturns
  \/ BaseDestructor \/ Destroyed \/ EnterEventLoop

Asked == onSignalActivated \/ newLine

UserOrMain ==
  \/ StartApplication \/ onKillAllTriggered \/ onQuitTriggered \/ RequestQuit
  \/ signalHandler \/ ReadLine
  \/ \E h \in Handle : onKillAppTriggered(h)

LNext ==
  \/ GuiThread \/ UserOrMain \/ Asked \/ ExecReturns
  \/ \E h \in Handle : ChildFinished(h) \/ StartupNoticed(h) \/ OSStep(h)

LSpec == LInit /\ [][LNext]_vars

(* A blocked call goes on, the event loop delivers what is pending, the    *)
(* system runs a forked child and kills one that was sent SIGKILL, main()  *)
(* starts all of its children, and exec() returns after the events it is   *)
(* already dispatching.  Neither the user nor a child's own death is taken *)
(* for granted.                                                            *)
LFairness ==
  /\ WF_vars(GuiThread)
  /\ WF_vars(phase = "launching" /\ StartApplication)
  /\ SF_vars(Asked)
  /\ SF_vars(ExecReturns)
  /\ \A h \in Handle : /\ SF_vars(ChildFinished(h) \/ StartupNoticed(h))
                       /\ WF_vars(Exec(h) /\ UNCHANGED lVars)
                       /\ WF_vars(signal[h] = "kill" /\ OSStep(h))

LFairSpec == LSpec /\ LFairness

-----------------------------------------------------------------------------
(* The toolbar's own map equals the manager's except for the start in      *)
(* progress: no entry is stale or missing, however the child went away.    *)
MirrorExact ==
  toolbar /\ phase = "exec" =>
    m_runningApps = m_processMap \ (IF pc = "waitStarted" THEN {cur} ELSE {})

(* No child is killed without having been asked to terminate first, not    *)
(* even by ~QProcess, and when the launcher has exited every child that    *)
(* can still run has been sent SIGKILL: no orphan is left, not even of a   *)
(* child that started late or that ignored both kinds of wait.             *)
ExitIsOrderly ==
  [][\A h \in Handle :
       /\ signal[h] = "none" => signal'[h] # "kill"
       /\ phase' = "gone" /\ child'[h] \in {"forked", "live"} => signal'[h] = "kill"]_vars

(* A quit request, a signal or a line from the console ends the process,   *)
(* whatever the children do about SIGTERM, also one that comes while       *)
(* main() still starts children or while a handler waits for one.          *)
QuitEnds == quit \/ s_sigPipe > 0 \/ finishedGetLine ~> phase = "gone"

(* The toolbar's list behaves as the abstract list of applications.        *)
List == INSTANCE AppList WITH
  listed <- m_runningApps,
  used   <- {h \in 0 .. m_nextHandle - 1 : toolbar},
  open   <- toolbar /\ phase = "exec"
ListSpec == List!Spec
=============================================================================
