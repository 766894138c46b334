----------------------------- MODULE LogManager -----------------------------
(***************************************************************************)
(* LogManager and the Debug Console dialog that drives it.  The dialog     *)
(* keeps a check box per category and reads the manager's state only when  *)
(* it is opened or reset: its slots keep the two together, some of them by *)
(* setting check boxes whose own slots run as a consequence.  One dialog   *)
(* is open at a time: a second one would not follow the first.             *)
(* Which messages reach the message handler is decided by QLoggingCategory *)
(* from the filter rules: a category that no rule names lets debug         *)
(* messages through, as Q_LOGGING_CATEGORY declares it, unless Qt's own.   *)
(***************************************************************************)
EXTENDS Naturals

CONSTANTS Categories,   \* what DAQSTER_LOGGING_CATEGORY registers
          LogFiles      \* paths, none of them empty

ASSUME LogAssumption == Categories # {} /\ "" \notin LogFiles

VARIABLES
  manager,               \* LogManager::Private
  rules,                 \* the filter rules in force
  s_logFile,             \* the path of the file that is open, or ""
  s_consoleEnabled,
  s_logManagerInstance,  \* whether it is set
  dialog                 \* whether it is open, and what its widgets show

logVars == <<manager, rules, s_logFile, s_consoleEnabled, s_logManagerInstance, dialog>>

Levels == 0 .. 4   \* Debug, Info, Warning, Critical, Fatal

Warning == 2

Fatal == 4

LogDefaults ==
  [masterEnabled |-> FALSE, enabled |-> {}, disabled |-> {}, logFilePath |-> "", logLevel |-> Warning]

(* Rules as text are read from the first line to the last: "*.debug=true", *)
(* a line "=false" for each of off, or a line "=true" for each of on.      *)
NoRules == [all |-> FALSE, off |-> {}, on |-> {}]

filterRules(m) ==
  IF m.masterEnabled THEN [all |-> TRUE, off |-> m.disabled, on |-> {}]
  ELSE [NoRules EXCEPT !.on = m.enabled]

Fresh ==
  [open |-> FALSE, all |-> FALSE, boxes |-> {}, console |-> FALSE, level |-> Warning,
   file |-> FALSE, path |-> "", fileEnabled |-> FALSE]

(* A process is started with the rules of its parent, or with none; its    *)
(* own manager knows nothing of them.                                      *)
LogInit ==
  /\ \E level \in Levels : manager = [LogDefaults EXCEPT !.logLevel = level]
  /\ \E off, on \in SUBSET Categories, all \in BOOLEAN :
       /\ IF all THEN on = {} ELSE off = {}
       /\ rules = [all |-> all, off |-> off, on |-> on]
  /\ s_logFile = ""
  /\ s_consoleEnabled \in BOOLEAN
  /\ s_logManagerInstance = TRUE
  /\ dialog = Fresh

isCategoryEnabled(m, c) == IF m.masterEnabled THEN c \notin m.disabled ELSE c \in m.enabled

EnabledIn(m) == {c \in Categories : isCategoryEnabled(m, c)}

(* What a category's debug messages meet in QLoggingCategory.              *)
Passes(c) == c \notin rules.off

(* daqsterMessageHandler: nobody listens after shutdown, so that nothing   *)
(* but a fatal message gets as far as the fallback to standard error.      *)
HasConsumer(level) == level = Fatal \/ s_logFile # "" \/ s_consoleEnabled \/ s_logManagerInstance

(* Where a message of a category goes, one that QLoggingCategory lets      *)
(* through.                                                                *)
Sinks(c, level) ==
  {sink \in {"file", "console", "stderr"} :
     /\ level = 0 => Passes(c)
     /\ HasConsumer(level)
     /\ CASE sink = "file"    -> s_logFile # ""
          [] sink = "console" ->
               s_consoleEnabled /\ level >= IF s_logManagerInstance THEN manager.logLevel ELSE Warning
          [] sink = "stderr"  -> ~s_consoleEnabled /\ ~s_logManagerInstance /\ level >= Warning}
-----------------------------------------------------------------------------
enableCategory(m, c) ==
  IF m.masterEnabled THEN [m EXCEPT !.disabled = @ \ {c}] ELSE [m EXCEPT !.enabled = @ \cup {c}]

disableCategory(m, c) ==
  IF m.masterEnabled THEN [m EXCEPT !.disabled = @ \cup {c}] ELSE [m EXCEPT !.enabled = @ \ {c}]

enableAll(m) == [m EXCEPT !.masterEnabled = TRUE, !.enabled = Categories, !.disabled = {}]

disableAll(m) == [m EXCEPT !.masterEnabled = FALSE, !.enabled = {}, !.disabled = {}]

(* setLogFile: the file of before is closed in any case; the path is kept  *)
(* when the new one cannot be opened.                                      *)
setLogFile(path, opens) ==
  /\ s_logFile' = IF opens THEN path ELSE ""
  /\ manager' = [manager EXCEPT !.logFilePath = IF path = "" \/ opens THEN path ELSE @]
-----------------------------------------------------------------------------
(* onEnableAllToggled                                                      *)
AllToggled(d, checked) == [d EXCEPT !.all = checked, !.boxes = IF checked THEN Categories ELSE {}]

(* onCategoryToggled: the box "all" follows, without its slot.             *)
BoxesTurned(d, boxes) == [d EXCEPT !.boxes = boxes, !.all = boxes = Categories]

(* loadCurrentState: setting "all" runs onEnableAllToggled if it changes,  *)
(* which turns categories that were enabled one by one into a master       *)
(* switch; setting a category runs onCategoryToggled if it changes, which  *)
(* gives the manager what it has.                                          *)
Loaded(m, console, d) ==
  LET all     == EnabledIn(m) = Categories
      after   == IF d.all = all THEN m ELSE IF all THEN enableAll(m) ELSE disableAll(m)
      toggled == IF d.all = all THEN d ELSE AllToggled(d, all)
      shown   == IF toggled.boxes = EnabledIn(after) THEN toggled ELSE BoxesTurned(toggled, EnabledIn(after))
      touched == d.all # all \/ toggled.boxes # EnabledIn(after)
  IN  [manager |-> after, touched |-> touched,
       dialog |-> [shown EXCEPT !.open = TRUE, !.console = console, !.level = after.logLevel,
                                !.file = after.logFilePath # "", !.path = after.logFilePath,
                                !.fileEnabled = after.logFilePath # ""]]

OpenDialog ==
  /\ s_logManagerInstance /\ ~dialog.open
  /\ UNCHANGED <<s_logFile, s_consoleEnabled, s_logManagerInstance>>
  /\ LET loaded == Loaded(manager, s_consoleEnabled, Fresh)
     IN  /\ manager' = loaded.manager
         /\ rules' = IF loaded.touched THEN filterRules(loaded.manager) ELSE rules
         /\ dialog' = loaded.dialog

IsOpen == s_logManagerInstance /\ dialog.open

CloseDialog ==
  /\ IsOpen
  /\ dialog' = Fresh
  /\ UNCHANGED <<manager, rules, s_logFile, s_consoleEnabled, s_logManagerInstance>>

(* With the rules of before.                                               *)
ChangedMut(m) == manager' = m /\ rules' = filterRules(manager)

Changed(m) == manager' = m /\ rules' = filterRules(m)

onEnableAllToggled ==
  /\ IsOpen
  /\ dialog' = AllToggled(dialog, ~dialog.all)
  /\ Changed(IF dialog.all THEN disableAll(manager) ELSE enableAll(manager))
  /\ UNCHANGED <<s_logFile, s_consoleEnabled, s_logManagerInstance>>

onCategoryToggled(c) ==
  /\ IsOpen
  /\ IF c \in dialog.boxes
     THEN Changed(disableCategory(manager, c)) /\ dialog' = BoxesTurned(dialog, dialog.boxes \ {c})
     ELSE Changed(enableCategory(manager, c)) /\ dialog' = BoxesTurned(dialog, dialog.boxes \cup {c})
  /\ UNCHANGED <<s_logFile, s_consoleEnabled, s_logManagerInstance>>

onConsoleToggled ==
  /\ IsOpen
  /\ s_consoleEnabled' = ~dialog.console
  /\ dialog' = [dialog EXCEPT !.console = ~@]
  /\ UNCHANGED <<manager, rules, s_logFile, s_logManagerInstance>>

onLevelChanged(level) ==
  /\ IsOpen /\ dialog.console /\ level # dialog.level
  /\ manager' = [manager EXCEPT !.logLevel = level]
  /\ dialog' = [dialog EXCEPT !.level = level]
  /\ UNCHANGED <<rules, s_logFile, s_consoleEnabled, s_logManagerInstance>>

(* onFileToggled: a path that is typed while the box is checked is used    *)
(* when the box is checked the next time.                                  *)
onFileToggled(opens) ==
  /\ IsOpen
  /\ dialog' = [dialog EXCEPT !.file = ~@, !.fileEnabled = ~dialog.file]
  /\ IF dialog.file THEN ~opens /\ setLogFile("", opens)
     ELSE IF dialog.path = "" THEN ~opens /\ UNCHANGED <<s_logFile, manager>>
     ELSE setLogFile(dialog.path, opens)
  /\ UNCHANGED <<rules, s_consoleEnabled, s_logManagerInstance>>

TypePath(path) ==
  /\ IsOpen /\ dialog.fileEnabled
  /\ dialog' = [dialog EXCEPT !.path = path]
  /\ UNCHANGED <<manager, rules, s_logFile, s_consoleEnabled, s_logManagerInstance>>

onBrowseClicked(path, opens) ==
  /\ IsOpen /\ dialog.fileEnabled
  /\ dialog' = [dialog EXCEPT !.path = path]
  /\ setLogFile(path, opens)
  /\ UNCHANGED <<rules, s_consoleEnabled, s_logManagerInstance>>

onResetClicked ==
  LET loaded == Loaded(LogDefaults, FALSE, dialog)
  IN  /\ IsOpen
      /\ s_logFile' = "" /\ s_consoleEnabled' = FALSE
      /\ Changed(loaded.manager)
      /\ dialog' = loaded.dialog
      /\ UNCHANGED s_logManagerInstance

(* At the end of main; the message handler stays.                          *)
shutdown ==
  /\ s_logManagerInstance
  /\ s_logFile' = "" /\ s_consoleEnabled' = FALSE
  /\ s_logManagerInstance' = FALSE
  /\ UNCHANGED <<manager, rules, dialog>>

LogNext ==
  \/ OpenDialog
  \/ CloseDialog
  \/ onEnableAllToggled
  \/ \E c \in Categories : onCategoryToggled(c)
  \/ onConsoleToggled
  \/ \E level \in Levels : onLevelChanged(level)
  \/ \E opens \in BOOLEAN :
       onFileToggled(opens) \/ \E path \in LogFiles : onBrowseClicked(path, opens)
  \/ \E path \in LogFiles \cup {""} : TypePath(path)
  \/ onResetClicked
  \/ shutdown

LogSpec == LogInit /\ [][LogNext]_logVars
-----------------------------------------------------------------------------
(* The type invariant.                                                     *)
LogTypeOK ==
  /\ manager \in [masterEnabled : BOOLEAN, enabled : SUBSET Categories, disabled : SUBSET Categories,
                  logFilePath : LogFiles \cup {""}, logLevel : Levels]
  /\ rules \in [all : BOOLEAN, off : SUBSET Categories, on : SUBSET Categories]
  /\ s_logFile \in LogFiles \cup {""}
  /\ s_consoleEnabled \in BOOLEAN /\ s_logManagerInstance \in BOOLEAN
  /\ dialog \in [open : BOOLEAN, all : BOOLEAN, boxes : SUBSET Categories, console : BOOLEAN, level : Levels,
                 file : BOOLEAN, path : LogFiles \cup {""}, fileEnabled : BOOLEAN]

(* What the open dialog shows is what the manager does, whichever slots    *)
(* ran one inside the other: the boxes of the categories, the box "all"    *)
(* when they are all on, the console and its level.                        *)
DialogShowsManager ==
  IsOpen =>
    /\ dialog.boxes = EnabledIn(manager)
    /\ dialog.all = (EnabledIn(manager) = Categories)
    /\ dialog.console = s_consoleEnabled
    /\ dialog.level = manager.logLevel

(* What is chosen in the open dialog is what is heard, no more and no      *)
(* less: a message goes to the console from its level on and to the open   *)
(* file.  A box says something of debug messages only, and only under the  *)
(* master switch does an unchecked one silence them: without it they are   *)
(* heard as if it were checked, but for the rules a process was started    *)
(* with and has not replaced.  Once the manager is gone only a fatal       *)
(* message is heard.                                                       *)
Chosen(level) ==
  {sink \in {"file", "console"} :
     IF sink = "file" THEN s_logFile # "" ELSE dialog.console /\ level >= dialog.level}

WhatIsChosenIsHeard ==
  \A c \in Categories, level \in Levels :
    /\ IsOpen =>
         /\ Sinks(c, level) \subseteq Chosen(level)
         /\ level > 0 \/ c \in dialog.boxes => Sinks(c, level) = Chosen(level)
         /\ c \notin dialog.boxes /\ manager.masterEnabled => Sinks(c, 0) = {}
         /\ ~manager.masterEnabled /\ rules = filterRules(manager) => Sinks(c, level) = Chosen(level)
    /\ ~s_logManagerInstance => Sinks(c, level) = IF level = Fatal THEN {"stderr"} ELSE {}

(* The file that is written is the one that logFilePath names, through     *)
(* failed opens, typed paths and resets.                                   *)
OpenFileIsNamed ==
  s_logFile # "" => manager.logFilePath = s_logFile

(* What the dialog shows, what is heard and the file that is written agree *)
(* with the manager.                                                       *)
ConsoleIsTrue == DialogShowsManager /\ WhatIsChosenIsHeard /\ OpenFileIsNamed
=============================================================================
