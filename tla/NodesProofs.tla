----------------------------- MODULE NodesProofs -----------------------------
(***************************************************************************)
(* Theorems about what lives in a graph by itself, as MCNodes checks it:   *)
(* the debug console, the video sources, the shader node, the chat nodes,  *)
(* the frame sampler and the profiler, one part after the other, each for  *)
(* any values of its constants; and in the end about all of them together, *)
(* the display of the video output included.                               *)
(***************************************************************************)
EXTENDS MCNodes, VideoOutputProofs, FiniteSetTheorems, WellFoundedInduction, SequenceTheorems, TLAPS

-----------------------------------------------------------------------------
(***************************************************************************)
(* Theorems about LogManager, for any categories, log files and rules that *)
(* a process is started with.                                              *)
(*                                                                         *)
(* What is heard depends on the rules in force, which are written only by  *)
(* some of the slots.  RulesFollow says when they are those of the         *)
(* manager: always, but for the rules of the parent process, which stay    *)
(* until the first change, and hide nothing that the dialog shows as on.   *)
(***************************************************************************)

Managers ==
  [masterEnabled : BOOLEAN, enabled : SUBSET Categories, disabled : SUBSET Categories,
   logFilePath : LogFiles \cup {""}, logLevel : Levels]

Dialogs ==
  [open : BOOLEAN, all : BOOLEAN, boxes : SUBSET Categories, console : BOOLEAN, level : Levels,
   file : BOOLEAN, path : LogFiles \cup {""}, fileEnabled : BOOLEAN]

RulesFollow ==
  \/ rules = filterRules(manager)
  \/ ~manager.masterEnabled /\ manager.enabled = {}

LogInv == LogTypeOK /\ RulesFollow /\ DialogShowsManager /\ OpenFileIsNamed

QuietAtTheEnd == ~s_logManagerInstance => s_logFile = "" /\ ~s_consoleEnabled

-----------------------------------------------------------------------------
(* Rules that follow the manager let through exactly what the boxes of an  *)
(* open dialog promise.                                                    *)
LEMMA Heard == LogInv /\ QuietAtTheEnd => WhatIsChosenIsHeard
<1> SUFFICES ASSUME LogInv, QuietAtTheEnd, NEW c \in Categories, NEW level \in Levels
             PROVE  /\ IsOpen =>
                         /\ Sinks(c, level) \subseteq Chosen(level)
                         /\ level > 0 \/ c \in dialog.boxes => Sinks(c, level) = Chosen(level)
                         /\ c \notin dialog.boxes /\ manager.masterEnabled => Sinks(c, 0) = {}
                         /\ ~manager.masterEnabled /\ rules = filterRules(manager)
                              => Sinks(c, level) = Chosen(level)
                    /\ ~s_logManagerInstance => Sinks(c, level) = IF level = Fatal THEN {"stderr"} ELSE {}
  BY DEF WhatIsChosenIsHeard
<1>1. ASSUME IsOpen
      PROVE  /\ Sinks(c, level) \subseteq Chosen(level)
             /\ level > 0 \/ c \in dialog.boxes => Sinks(c, level) = Chosen(level)
             /\ c \notin dialog.boxes /\ manager.masterEnabled => Sinks(c, 0) = {}
             /\ ~manager.masterEnabled /\ rules = filterRules(manager) => Sinks(c, level) = Chosen(level)
  <2>1. dialog.console = s_consoleEnabled /\ dialog.level = manager.logLevel
        /\ dialog.boxes = EnabledIn(manager) /\ s_logManagerInstance
    BY <1>1 DEF LogInv, DialogShowsManager, IsOpen
  <2>2. c \in dialog.boxes => Passes(c)
    BY <2>1 DEF LogInv, RulesFollow, filterRules, NoRules, EnabledIn, isCategoryEnabled, Passes
  <2>3. c \notin dialog.boxes /\ manager.masterEnabled => ~Passes(c)
    BY <2>1 DEF LogInv, RulesFollow, filterRules, NoRules, EnabledIn, isCategoryEnabled, Passes
  <2>4. ~manager.masterEnabled /\ rules = filterRules(manager) => Passes(c)
    BY DEF filterRules, NoRules, Passes
  <2>5. HasConsumer(level)
    BY <2>1 DEF HasConsumer
  <2>6. Sinks(c, level) = {sink \in Chosen(level) : level = 0 => Passes(c)}
    BY <2>1, <2>5 DEF Sinks, Chosen
  <2>7. c \notin dialog.boxes /\ manager.masterEnabled => Sinks(c, 0) = {}
    BY <2>3 DEF Sinks
  <2> HIDE DEF Sinks
  <2> QED BY <2>2, <2>4, <2>6, <2>7 DEF Levels
<1>2. ASSUME ~s_logManagerInstance
      PROVE  Sinks(c, level) = IF level = Fatal THEN {"stderr"} ELSE {}
  <2>1. s_logFile = "" /\ ~s_consoleEnabled
    BY <1>2 DEF QuietAtTheEnd
  <2>2. CASE level = Fatal
    <3>1. level # 0 /\ level >= Warning /\ HasConsumer(level)
      BY <2>2 DEF HasConsumer, Fatal, Warning
    <3>2. "file" \notin Sinks(c, level) /\ "console" \notin Sinks(c, level)
      BY <2>1 DEF Sinks
    <3>3. "stderr" \in Sinks(c, level)
      BY <1>2, <2>1, <3>1 DEF Sinks
    <3>4. Sinks(c, level) \subseteq {"file", "console", "stderr"}
      BY DEF Sinks
    <3> QED BY <2>2, <3>2, <3>3, <3>4
  <2>3. CASE level # Fatal
    BY <1>2, <2>1, <2>3 DEF Sinks, HasConsumer
  <2> QED BY <2>2, <2>3
<1> QED BY <1>1, <1>2

(* Every slot needs the manager; shutdown leaves neither file nor console. *)
LEMMA EndIsQuiet == QuietAtTheEnd /\ [LogNext]_logVars => QuietAtTheEnd'
<1> SUFFICES ASSUME QuietAtTheEnd, [LogNext]_logVars, ~s_logManagerInstance'
             PROVE  s_logFile' = "" /\ ~s_consoleEnabled'
  BY DEF QuietAtTheEnd
<1>1. CASE shutdown
  BY <1>1 DEF shutdown
<1>2. CASE ~s_logManagerInstance /\ UNCHANGED logVars
  BY <1>2 DEF QuietAtTheEnd, logVars
<1>3. CASE s_logManagerInstance /\ s_logManagerInstance' = s_logManagerInstance
  BY <1>3
<1> QED
  BY <1>1, <1>2, <1>3
     DEF LogNext, logVars, IsOpen, OpenDialog, CloseDialog, onEnableAllToggled, onCategoryToggled, onConsoleToggled,
         onLevelChanged, onFileToggled, onBrowseClicked, TypePath, onResetClicked, shutdown

(* What the dialog reads from the manager, whichever of its own slots run  *)
(* while it reads.                                                         *)
LEMMA LoadedShows ==
  ASSUME NEW m \in Managers, NEW console \in BOOLEAN, NEW d \in Dialogs
  PROVE  LET loaded == Loaded(m, console, d)
         IN  /\ loaded.manager \in Managers /\ loaded.dialog \in Dialogs
             /\ loaded.manager.logFilePath = m.logFilePath
             /\ loaded.dialog.boxes = EnabledIn(loaded.manager)
             /\ loaded.dialog.all = (EnabledIn(loaded.manager) = Categories)
             /\ loaded.dialog.console = console
             /\ loaded.dialog.level = loaded.manager.logLevel
             /\ ~loaded.touched => loaded.manager = m
<1> DEFINE all     == EnabledIn(m) = Categories
           after   == IF d.all = all THEN m ELSE IF all THEN enableAll(m) ELSE disableAll(m)
           toggled == IF d.all = all THEN d ELSE AllToggled(d, all)
           shown   == IF toggled.boxes = EnabledIn(after) THEN toggled
                      ELSE BoxesTurned(toggled, EnabledIn(after))
           touched == d.all # all \/ toggled.boxes # EnabledIn(after)
           named   == after.logFilePath # ""
           final   == [shown EXCEPT !.open = TRUE, !.console = console, !.level = after.logLevel,
                                    !.file = named, !.path = after.logFilePath, !.fileEnabled = named]
<1>1. after \in Managers /\ after.logFilePath = m.logFilePath
  BY DEF Managers, enableAll, disableAll
<1>2. toggled \in Dialogs
  BY DEF Dialogs, AllToggled
<1>3. EnabledIn(after) \subseteq Categories
  BY DEF EnabledIn
<1>4. d.all # all => toggled.all = (EnabledIn(after) = Categories)
  <2>1. CASE all
    BY <2>1 DEF EnabledIn, isCategoryEnabled, enableAll, AllToggled, Managers, Dialogs
  <2>2. CASE ~all
    BY <2>2, LogAssumption DEF EnabledIn, isCategoryEnabled, disableAll, AllToggled, Managers, Dialogs
  <2> QED BY <2>1, <2>2
<1>5. d.all = all => toggled.all = (EnabledIn(after) = Categories)
  OBVIOUS
<1>6. toggled.all = (EnabledIn(after) = Categories)
  BY <1>4, <1>5
<1> HIDE DEF after, toggled
<1>7. /\ shown \in Dialogs
      /\ shown.boxes = EnabledIn(after)
      /\ shown.all = (EnabledIn(after) = Categories)
  BY <1>2, <1>3, <1>6 DEF BoxesTurned, Dialogs
<1>8. ~touched => after = m
  BY DEF after
<1> HIDE DEF all, touched, shown
<1>9. /\ final \in Dialogs /\ final.boxes = shown.boxes /\ final.all = shown.all
      /\ final.console = console /\ final.level = after.logLevel
  <2>1. after.logLevel \in Levels /\ after.logFilePath \in LogFiles \cup {""}
    BY <1>1 DEF Managers
  <2>2. named \in BOOLEAN
    OBVIOUS
  <2> HIDE DEF named
  <2>3. final.boxes = shown.boxes /\ final.all = shown.all
    BY <1>7 DEF Dialogs
  <2>4. final.console = console /\ final.level = after.logLevel
    BY <1>7 DEF Dialogs
  <2>5. final \in Dialogs
    BY <1>7, <2>1, <2>2 DEF Dialogs
  <2> QED BY <2>3, <2>4, <2>5
<1> HIDE DEF final
<1>10. Loaded(m, console, d) = [manager |-> after, touched |-> touched, dialog |-> final]
  BY DEF Loaded, all, after, toggled, shown, touched, named, final
<1> QED BY <1>1, <1>7, <1>8, <1>9, <1>10

(* A slot that changes the manager installs its rules.                     *)
LEMMA ChangedFollows ==
  ASSUME NEW m \in Managers, Changed(m)
  PROVE  RulesFollow' /\ manager' = m
         /\ rules' \in [all : BOOLEAN, off : SUBSET Categories, on : SUBSET Categories]
  BY DEF Changed, RulesFollow, filterRules, NoRules, Managers
-----------------------------------------------------------------------------
LEMMA TypesByName ==
  LogTypeOK' <=> /\ manager' \in Managers /\ dialog' \in Dialogs
                 /\ rules' \in [all : BOOLEAN, off : SUBSET Categories, on : SUBSET Categories]
                 /\ s_logFile' \in LogFiles \cup {""}
                 /\ s_consoleEnabled' \in BOOLEAN /\ s_logManagerInstance' \in BOOLEAN
  BY DEF LogTypeOK, Managers, Dialogs

LEMMA FreshTyped == Fresh \in Dialogs /\ ~Fresh.open
  BY DEF Fresh, Dialogs, Levels, Warning

LEMMA InitLogInv == LogInit => LogInv
<1> SUFFICES ASSUME LogInit PROVE LogInv
  OBVIOUS
<1>1. manager \in Managers /\ ~manager.masterEnabled /\ manager.enabled = {}
  BY DEF LogInit, LogDefaults, Managers
<1>2. rules \in [all : BOOLEAN, off : SUBSET Categories, on : SUBSET Categories]
  <2>1. PICK off \in SUBSET Categories, on \in SUBSET Categories, all \in BOOLEAN :
          rules = [all |-> all, off |-> off, on |-> on]
    BY Zenon DEF LogInit
  <2> QED BY <2>1
<1>3. dialog \in Dialogs /\ ~dialog.open
  <2>1. dialog = Fresh
    BY DEF LogInit
  <2> QED BY <2>1, FreshTyped
<1> QED BY <1>1, <1>2, <1>3
        DEF LogInit, LogInv, LogTypeOK, RulesFollow, DialogShowsManager, OpenFileIsNamed, IsOpen,
            Managers, Dialogs

LEMMA OpenDialogKeeps == ASSUME LogInv, OpenDialog PROVE LogInv'
<1> DEFINE loaded == Loaded(manager, s_consoleEnabled, Fresh)
<1>1. manager \in Managers /\ s_consoleEnabled \in BOOLEAN
  BY DEF LogInv, LogTypeOK, Managers
<1>2. Fresh \in Dialogs
  BY FreshTyped
<1>3. /\ loaded.manager \in Managers /\ loaded.dialog \in Dialogs
      /\ loaded.manager.logFilePath = manager.logFilePath
      /\ loaded.dialog.boxes = EnabledIn(loaded.manager)
      /\ loaded.dialog.all = (EnabledIn(loaded.manager) = Categories)
      /\ loaded.dialog.console = s_consoleEnabled
      /\ loaded.dialog.level = loaded.manager.logLevel
      /\ ~loaded.touched => loaded.manager = manager
  BY <1>1, <1>2, LoadedShows
<1> HIDE DEF loaded
<1>4. /\ manager' = loaded.manager /\ dialog' = loaded.dialog
      /\ rules' = IF loaded.touched THEN filterRules(loaded.manager) ELSE rules
      /\ UNCHANGED <<s_logFile, s_consoleEnabled, s_logManagerInstance>>
  BY DEF OpenDialog, loaded
<1>5. RulesFollow' /\ rules' \in [all : BOOLEAN, off : SUBSET Categories, on : SUBSET Categories]
  BY <1>3, <1>4 DEF LogInv, LogTypeOK, RulesFollow, filterRules, NoRules, Managers
<1>6. LogTypeOK'
  BY <1>3, <1>4, <1>5, TypesByName DEF LogInv, LogTypeOK
<1>7. DialogShowsManager' /\ OpenFileIsNamed'
  BY <1>3, <1>4 DEF LogInv, DialogShowsManager, OpenFileIsNamed, IsOpen, EnabledIn, isCategoryEnabled
<1> QED BY <1>5, <1>6, <1>7 DEF LogInv

LEMMA ResetKeeps == ASSUME LogInv, onResetClicked PROVE LogInv'
<1> DEFINE loaded == Loaded(LogDefaults, FALSE, dialog)
<1>1. LogDefaults \in Managers /\ LogDefaults.logFilePath = ""
  BY DEF LogDefaults, Managers, Levels, Warning
<1>2. dialog \in Dialogs
  BY DEF LogInv, LogTypeOK, Dialogs
<1>3. /\ loaded.manager \in Managers /\ loaded.dialog \in Dialogs
      /\ loaded.dialog.boxes = EnabledIn(loaded.manager)
      /\ loaded.dialog.all = (EnabledIn(loaded.manager) = Categories)
      /\ loaded.dialog.console = FALSE
      /\ loaded.dialog.level = loaded.manager.logLevel
  BY <1>1, <1>2, LoadedShows
<1> HIDE DEF loaded
<1>4. /\ Changed(loaded.manager) /\ dialog' = loaded.dialog
      /\ s_logFile' = "" /\ s_consoleEnabled' = FALSE /\ UNCHANGED s_logManagerInstance
  BY DEF onResetClicked, loaded
<1>5. RulesFollow' /\ manager' = loaded.manager
      /\ rules' \in [all : BOOLEAN, off : SUBSET Categories, on : SUBSET Categories]
  BY <1>3, <1>4, ChangedFollows
<1>6. LogTypeOK'
  BY <1>3, <1>4, <1>5, TypesByName DEF LogInv, LogTypeOK
<1>7. DialogShowsManager' /\ OpenFileIsNamed'
  BY <1>3, <1>4, <1>5 DEF DialogShowsManager, OpenFileIsNamed, IsOpen, EnabledIn, isCategoryEnabled
<1> QED BY <1>5, <1>6, <1>7 DEF LogInv

(* The box "all" and the boxes of single categories.                       *)
LEMMA EnableAllKeeps == ASSUME LogInv, onEnableAllToggled PROVE LogInv'
<1> DEFINE m == IF dialog.all THEN disableAll(manager) ELSE enableAll(manager)
<1>1. manager \in Managers /\ dialog \in Dialogs
  BY DEF LogInv, LogTypeOK, Managers, Dialogs
<1>2. m \in Managers /\ m.logFilePath = manager.logFilePath /\ m.logLevel = manager.logLevel
  BY <1>1 DEF Managers, disableAll, enableAll
<1>3. EnabledIn(m) = IF dialog.all THEN {} ELSE Categories
  BY <1>1 DEF EnabledIn, isCategoryEnabled, disableAll, enableAll, Managers
<1>4. AllToggled(dialog, ~dialog.all) \in Dialogs
  BY <1>1 DEF AllToggled, Dialogs
<1>5. /\ dialog'.boxes = (IF dialog.all THEN {} ELSE Categories) /\ dialog'.all = ~dialog.all
      /\ dialog'.console = dialog.console /\ dialog'.level = dialog.level
      /\ dialog' \in Dialogs
  BY <1>1, <1>4 DEF onEnableAllToggled, AllToggled, Dialogs
<1> HIDE DEF m
<1>6. RulesFollow' /\ manager' = m
      /\ rules' \in [all : BOOLEAN, off : SUBSET Categories, on : SUBSET Categories]
  BY <1>2, ChangedFollows DEF onEnableAllToggled, m
<1>7. UNCHANGED <<s_logFile, s_consoleEnabled, s_logManagerInstance>> /\ IsOpen
  BY DEF onEnableAllToggled
<1>8. LogTypeOK'
  BY <1>2, <1>5, <1>6, <1>7 DEF LogInv, LogTypeOK, Managers, Dialogs
<1>9. EnabledIn(manager)' = EnabledIn(m)
  BY <1>6 DEF EnabledIn, isCategoryEnabled
<1>10. dialog.all \in BOOLEAN
  BY <1>1 DEF Dialogs
<1>11. DialogShowsManager'
  BY <1>2, <1>3, <1>5, <1>6, <1>7, <1>9, <1>10, LogAssumption DEF LogInv, DialogShowsManager, IsOpen
<1>12. OpenFileIsNamed'
  BY <1>2, <1>6, <1>7 DEF LogInv, OpenFileIsNamed
<1> QED BY <1>6, <1>8, <1>11, <1>12 DEF LogInv

LEMMA CategoryKeeps == ASSUME LogInv, NEW c \in Categories, onCategoryToggled(c) PROVE LogInv'
<1> DEFINE m == IF c \in dialog.boxes THEN disableCategory(manager, c) ELSE enableCategory(manager, c)
           boxes == IF c \in dialog.boxes THEN dialog.boxes \ {c} ELSE dialog.boxes \cup {c}
<1>1. manager \in Managers /\ dialog \in Dialogs
  BY DEF LogInv, LogTypeOK, Managers, Dialogs
<1>2. m \in Managers /\ m.logFilePath = manager.logFilePath /\ m.logLevel = manager.logLevel
  BY <1>1 DEF Managers, disableCategory, enableCategory
<1>3. EnabledIn(m) = IF c \in dialog.boxes THEN EnabledIn(manager) \ {c} ELSE EnabledIn(manager) \cup {c}
  BY <1>1 DEF EnabledIn, isCategoryEnabled, disableCategory, enableCategory, Managers
<1>4. IsOpen /\ dialog.boxes = EnabledIn(manager) /\ dialog.console = s_consoleEnabled
      /\ dialog.level = manager.logLevel
  BY DEF LogInv, DialogShowsManager, onCategoryToggled
<1>5. Changed(m) /\ dialog' = BoxesTurned(dialog, boxes)
      /\ UNCHANGED <<s_logFile, s_consoleEnabled, s_logManagerInstance>>
  BY DEF onCategoryToggled
<1>6. boxes = EnabledIn(m) /\ boxes \in SUBSET Categories
  BY <1>1, <1>3, <1>4 DEF Dialogs
<1> HIDE DEF m, boxes
<1>7. /\ dialog' \in Dialogs /\ dialog'.boxes = boxes /\ dialog'.all = (boxes = Categories)
      /\ dialog'.console = dialog.console /\ dialog'.level = dialog.level
  BY <1>1, <1>5, <1>6 DEF BoxesTurned, Dialogs
<1>8. RulesFollow' /\ manager' = m
      /\ rules' \in [all : BOOLEAN, off : SUBSET Categories, on : SUBSET Categories]
  BY <1>2, <1>5, ChangedFollows
<1>9. LogTypeOK'
  BY <1>2, <1>5, <1>7, <1>8 DEF LogInv, LogTypeOK, Managers, Dialogs
<1>10. EnabledIn(manager)' = EnabledIn(m)
  BY <1>8 DEF EnabledIn, isCategoryEnabled
<1>11. DialogShowsManager'
  BY <1>2, <1>4, <1>5, <1>6, <1>7, <1>8, <1>10 DEF DialogShowsManager
<1>12. OpenFileIsNamed'
  BY <1>2, <1>5, <1>8 DEF LogInv, OpenFileIsNamed
<1> QED BY <1>8, <1>9, <1>11, <1>12 DEF LogInv

(* The console, its level and the log file.                                *)
LEMMA ConsoleKeeps ==
  ASSUME LogInv, onConsoleToggled \/ \E level \in Levels : onLevelChanged(level)
  PROVE  LogInv'
<1>1. manager \in Managers /\ dialog \in Dialogs
  BY DEF LogInv, LogTypeOK, Managers, Dialogs
<1>2. CASE onConsoleToggled
  <2>1. dialog' \in Dialogs /\ dialog'.boxes = dialog.boxes /\ dialog'.all = dialog.all
        /\ dialog'.console = s_consoleEnabled' /\ dialog'.level = dialog.level
        /\ s_consoleEnabled' \in BOOLEAN
    BY <1>1, <1>2 DEF onConsoleToggled, Dialogs
  <2>2. UNCHANGED <<manager, rules, s_logFile, s_logManagerInstance>> /\ IsOpen
    BY <1>2 DEF onConsoleToggled
  <2>3. LogTypeOK'
    BY <2>1, <2>2 DEF LogInv, LogTypeOK, Dialogs
  <2>4. RulesFollow' /\ OpenFileIsNamed'
    BY <2>2 DEF LogInv, RulesFollow, OpenFileIsNamed, filterRules
  <2>5. DialogShowsManager'
    <3>1. EnabledIn(manager)' = EnabledIn(manager) /\ manager' = manager
      BY <2>2 DEF EnabledIn, isCategoryEnabled
    <3> QED BY <2>1, <2>2, <3>1 DEF LogInv, DialogShowsManager
  <2> QED BY <2>3, <2>4, <2>5 DEF LogInv
<1>3. ASSUME NEW level \in Levels, onLevelChanged(level) PROVE LogInv'
  <2>1. manager' = [manager EXCEPT !.logLevel = level] /\ manager' \in Managers
    BY <1>1, <1>3 DEF onLevelChanged, Managers
  <2>2. dialog' \in Dialogs /\ dialog'.boxes = dialog.boxes /\ dialog'.all = dialog.all
        /\ dialog'.console = dialog.console /\ dialog'.level = level
    BY <1>1, <1>3 DEF onLevelChanged, Dialogs
  <2>3. UNCHANGED <<rules, s_logFile, s_consoleEnabled, s_logManagerInstance>> /\ IsOpen
    BY <1>3 DEF onLevelChanged
  <2>4. /\ manager'.masterEnabled = manager.masterEnabled /\ manager'.enabled = manager.enabled
        /\ manager'.disabled = manager.disabled /\ manager'.logFilePath = manager.logFilePath
        /\ manager'.logLevel = level
    BY <1>1, <2>1 DEF Managers
  <2>5. LogTypeOK'
    BY <2>1, <2>2, <2>3 DEF LogInv, LogTypeOK, Managers, Dialogs
  <2>6. EnabledIn(manager)' = EnabledIn(manager) /\ filterRules(manager)' = filterRules(manager)
    BY <2>4 DEF EnabledIn, isCategoryEnabled, filterRules, NoRules
  <2> QED BY <2>2, <2>3, <2>4, <2>5, <2>6
          DEF LogInv, RulesFollow, DialogShowsManager, OpenFileIsNamed
<1> QED BY <1>2, <1>3

(* The slots of the log file: the file that is open, if any, is the one    *)
(* that the manager names.                                                 *)
LEMMA FileKeeps ==
  ASSUME LogInv, NEW opens \in BOOLEAN,
         onFileToggled(opens) \/ \E path \in LogFiles : onBrowseClicked(path, opens)
  PROVE  LogInv'
<1>1. manager \in Managers /\ dialog \in Dialogs
  BY DEF LogInv, LogTypeOK, Managers, Dialogs
<1>2. /\ dialog' \in Dialogs /\ dialog'.boxes = dialog.boxes /\ dialog'.all = dialog.all
      /\ dialog'.console = dialog.console /\ dialog'.level = dialog.level
      /\ UNCHANGED <<rules, s_consoleEnabled, s_logManagerInstance>> /\ IsOpen
  BY <1>1 DEF onFileToggled, onBrowseClicked, Dialogs
<1>3. /\ s_logFile' \in LogFiles \cup {""} /\ manager' \in Managers
      /\ manager'.masterEnabled = manager.masterEnabled /\ manager'.enabled = manager.enabled
      /\ manager'.disabled = manager.disabled /\ manager'.logLevel = manager.logLevel
      /\ OpenFileIsNamed'
  <2>1. ASSUME NEW path \in LogFiles \cup {""}, setLogFile(path, opens), path = "" => ~opens
        PROVE  <1>3!:
    BY <1>1, <2>1 DEF setLogFile, Managers, OpenFileIsNamed
  <2>2. ASSUME UNCHANGED <<s_logFile, manager>> PROVE <1>3!:
    BY <1>1, <2>2 DEF LogInv, LogTypeOK, Managers, OpenFileIsNamed
  <2>3. dialog.path \in LogFiles \cup {""}
    BY <1>1 DEF Dialogs
  <2>4. CASE onFileToggled(opens)
    BY <2>1, <2>2, <2>3, <2>4 DEF onFileToggled
  <2>5. CASE \E path \in LogFiles : onBrowseClicked(path, opens)
    BY <2>1, <2>5, LogAssumption DEF onBrowseClicked
  <2> QED BY <2>4, <2>5
<1>4. LogTypeOK'
  BY <1>2, <1>3 DEF LogInv, LogTypeOK, Managers, Dialogs
<1>5. EnabledIn(manager)' = EnabledIn(manager) /\ filterRules(manager)' = filterRules(manager)
  BY <1>3 DEF EnabledIn, isCategoryEnabled, filterRules, NoRules
<1> QED BY <1>2, <1>3, <1>4, <1>5 DEF LogInv, RulesFollow, DialogShowsManager

LEMMA NextLogInv == LogInv /\ [LogNext]_logVars => LogInv'
<1> SUFFICES ASSUME LogInv, [LogNext]_logVars PROVE LogInv'
  OBVIOUS
<1>1. CASE CloseDialog
  <2>1. dialog' = Fresh /\ UNCHANGED <<manager, rules, s_logFile, s_consoleEnabled, s_logManagerInstance>>
    BY <1>1 DEF CloseDialog
  <2>2. dialog' \in Dialogs /\ ~dialog'.open
    BY <2>1, FreshTyped DEF Dialogs, Levels
  <2>3. LogTypeOK'
    BY <2>1, <2>2 DEF LogInv, LogTypeOK, Dialogs
  <2>4. RulesFollow'
    BY <2>1 DEF LogInv, RulesFollow
  <2> QED BY <2>1, <2>2, <2>3, <2>4 DEF LogInv, DialogShowsManager, OpenFileIsNamed, IsOpen
<1>2. ASSUME NEW path \in LogFiles \cup {""}, TypePath(path) PROVE LogInv'
  <2>1. dialog' \in Dialogs /\ dialog'.boxes = dialog.boxes /\ dialog'.all = dialog.all
        /\ dialog'.console = dialog.console /\ dialog'.level = dialog.level
    BY <1>2 DEF TypePath, LogInv, LogTypeOK, Dialogs
  <2>2. UNCHANGED <<manager, rules, s_logFile, s_consoleEnabled, s_logManagerInstance>> /\ IsOpen
    BY <1>2 DEF TypePath
  <2>3. LogTypeOK'
    BY <2>1, <2>2 DEF LogInv, LogTypeOK, Dialogs
  <2>4. RulesFollow' /\ OpenFileIsNamed'
    BY <2>2 DEF LogInv, RulesFollow, OpenFileIsNamed, filterRules
  <2>5. DialogShowsManager'
    <3>1. EnabledIn(manager)' = EnabledIn(manager) /\ manager' = manager
      BY <2>2 DEF EnabledIn, isCategoryEnabled
    <3> QED BY <2>1, <2>2, <3>1 DEF LogInv, DialogShowsManager
  <2> QED BY <2>3, <2>4, <2>5 DEF LogInv
<1>3. CASE shutdown
  <2>1. UNCHANGED <<manager, rules, dialog>> /\ s_logFile' = "" /\ s_consoleEnabled' = FALSE
        /\ s_logManagerInstance' = FALSE
    BY <1>3 DEF shutdown
  <2>2. LogTypeOK'
    BY <2>1 DEF LogInv, LogTypeOK
  <2>3. ~IsOpen'
    BY <2>1 DEF IsOpen
  <2> QED BY <2>1, <2>2, <2>3 DEF LogInv, RulesFollow, DialogShowsManager, OpenFileIsNamed, IsOpen, filterRules
<1>4. CASE UNCHANGED logVars
  <2> USE <1>4 DEF logVars
  <2>1. LogTypeOK' /\ OpenFileIsNamed'
    <3>1. manager' = manager /\ rules' = rules /\ s_logFile' = s_logFile /\ dialog' = dialog
      OBVIOUS
    <3>2. s_consoleEnabled' \in BOOLEAN /\ s_logManagerInstance' \in BOOLEAN
      BY Zenon DEF LogInv, LogTypeOK
    <3> QED BY <3>1, <3>2 DEF LogInv, LogTypeOK, OpenFileIsNamed
  <2>2. RulesFollow'
    BY DEF LogInv, RulesFollow
  <2>3. DialogShowsManager'
    BY DEF LogInv, DialogShowsManager, IsOpen, EnabledIn, isCategoryEnabled
  <2> QED BY <2>1, <2>2, <2>3 DEF LogInv
<1> QED BY <1>1, <1>2, <1>3, <1>4, OpenDialogKeeps, ResetKeeps, EnableAllKeeps, CategoryKeeps,
           ConsoleKeeps, FileKeeps
        DEF LogNext
-----------------------------------------------------------------------------
(* Rules, check boxes and file follow the manager through every slot of    *)
(* the dialog (DebugConsoleWidget), whatever the process started with.     *)
THEOREM LogInvariant == LogSpec => []LogInv
  BY InitLogInv, NextLogInv, PTL DEF LogSpec

(* The manager, the rules and the dialog have their types.                 *)
THEOREM LogTypes == LogSpec => []LogTypeOK
<1>1. LogInv => LogTypeOK
  BY DEF LogInv
<1> QED BY <1>1, LogInvariant, PTL

(* The open dialog, the rules in force and the open file agree with the    *)
(* manager, for any categories and whatever rules the process came with.   *)
THEOREM ConsoleStaysTrue == LogSpec => []ConsoleIsTrue
<1>1. LogInv /\ QuietAtTheEnd => ConsoleIsTrue
  BY Heard DEF LogInv, ConsoleIsTrue
<1>2. LogInit => QuietAtTheEnd
  BY DEF LogInit, QuietAtTheEnd
<1>3. LogSpec => []QuietAtTheEnd
  BY <1>2, EndIsQuiet, PTL DEF LogSpec
<1> QED BY <1>1, <1>3, LogInvariant, PTL
-----------------------------------------------------------------------------
(***************************************************************************)
(* Theorems about VideoSources, for any media, cameras and consumers.      *)
(*                                                                         *)
(* The invariant has one part for each of the three machines behind a      *)
(* source: the player, the camera and the audio port, whose count of wires *)
(* decides whether anything is sent at all, so that it must be the number  *)
(* of consumers that are wired.                                            *)
(***************************************************************************)

MediaStates == [field : Media \cup {""}, loaded : Media \cup {""}, isPlaying : BOOLEAN, stoppable : BOOLEAN]

Players == [source : Media \cup {""}, state : {"stopped", "starting", "playing", "paused"}, begun : BOOLEAN]

CameraObjects == [device : Cameras \cup {"none"}, attached : BOOLEAN]

CameraStates ==
  [chosen : Cameras \cup {"default"}, m_camera : CameraObjects, running : BOOLEAN,
   objects : SUBSET CameraObjects]

(* What the port can be when the consumers of D are wired to it.           *)
Port(D, block) == [count |-> Cardinality(D), out |-> block, held |-> [c \in D |-> block]]

PlayerInv ==
  /\ media \in MediaStates /\ player \in Players
  /\ player.state # "stopped" => player.source \in Media
  /\ PauseMeansPlaying

CameraInv ==
  /\ camera \in CameraStates
  /\ camera.running => camera.m_camera.device \in Cameras
  /\ NoCameraLeaks /\ RunsTheChosenCamera

AudioInv ==
  \E D \in SUBSET Consumers, block \in Blocks \cup {0} : IsFiniteSet(D) /\ audio = Port(D, block)

KindInv == kind \in {"file", "stream", "camera"} /\ qt5 \in BOOLEAN /\ queued \subseteq Media \cup Cameras

SourceInv == KindInv /\ PlayerInv /\ CameraInv /\ AudioInv

-----------------------------------------------------------------------------
LEMMA InitSourceInv == SourceInit => SourceInv
<1> SUFFICES ASSUME SourceInit PROVE SourceInv
  OBVIOUS
<1>1. KindInv
  BY DEF SourceInit, KindInv
<1>2. PlayerInv
  BY DEF SourceInit, PlayerInv, MediaStates, Players, PauseMeansPlaying
<1>3. CameraInv
  BY DEF SourceInit, CameraInv, CameraStates, CameraObjects, NoCamera, NoCameraLeaks, RunsTheChosenCamera
<1>4. AudioInv
  <2>1. audio = Port({}, 0)
    BY FS_EmptySet DEF SourceInit, Port
  <2> QED BY <2>1, FS_EmptySet DEF AudioInv
<1> QED BY <1>1, <1>2, <1>3, <1>4 DEF SourceInv

-----------------------------------------------------------------------------
(* The text field, the buttons and the player's own steps.                 *)
PlayerStep ==
  \/ \E m \in Media \cup {""} : SetField(m)
  \/ onPlayPauseClicked \/ onStopClicked \/ onSeekClicked \/ onConnectStreamClicked
  \/ PlayerStarts \/ MediaEnds \/ MediaIsInvalid \/ onPlayerError

LEMMA PlayerKeeps ==
  ASSUME PlayerInv, PlayerStep
  PROVE  PlayerInv' /\ UNCHANGED <<kind, qt5, camera, audio, frame, queued>>
<1> USE VideoSourcesAssumption
        DEF PlayerInv, MediaStates, Players, PauseMeansPlaying, PlayerGoes, onPlaybackStateChanged, Stop
<1>1. ASSUME NEW m \in Media \cup {""}, SetField(m)
      PROVE  PlayerInv' /\ UNCHANGED <<kind, qt5, camera, audio, frame, queued>>
  BY <1>1 DEF SetField
<1>2. CASE onPlayPauseClicked
  <2>1. CASE media.isPlaying
    BY <1>2, <2>1 DEF onPlayPauseClicked
  <2>2. CASE ~media.isPlaying
    <3> DEFINE now == Reloaded(media.field)
    <3>1. now.p \in Players /\ now.path \in Media \cup {""}
          /\ (now.p.state # "stopped" => now.p.source \in Media)
      BY DEF Reloaded, setMediaSource
    <3> HIDE DEF now
    <3>2. player' = Play(now.p) /\ media' = [media EXCEPT !.loaded = now.path, !.stoppable = TRUE]
      BY <1>2, <2>2 DEF onPlayPauseClicked, now
    <3>3. player' \in Players /\ (player'.state # "stopped" => player'.source \in Media)
      BY <3>1, <3>2 DEF Play
    <3>4. media' \in MediaStates /\ ~media'.isPlaying
      BY <2>2, <3>1, <3>2
    <3> QED BY <1>2, <3>3, <3>4 DEF onPlayPauseClicked
  <2> QED BY <2>1, <2>2
<1>3. CASE onStopClicked
  BY <1>3 DEF onStopClicked, Cleared
<1>4. CASE onSeekClicked
  BY <1>4 DEF onSeekClicked
<1>5. CASE onConnectStreamClicked
  <2>1. CASE media.isPlaying
    BY <1>5, <2>1 DEF onConnectStreamClicked
  <2>2. CASE ~media.isPlaying
    <3> DEFINE loaded == setMediaSource(player, media.field)
    <3>1. loaded \in Players /\ loaded.source \in Media /\ loaded.state = "stopped"
      BY <1>5, <2>2 DEF onConnectStreamClicked, setMediaSource
    <3> HIDE DEF loaded
    <3>2. player' = Play(loaded) /\ media' = media
      BY <1>5, <2>2 DEF onConnectStreamClicked, loaded
    <3>3. player' \in Players /\ (player'.state # "stopped" => player'.source \in Media)
      BY <3>1, <3>2 DEF Play
    <3> QED BY <1>5, <2>2, <3>2, <3>3 DEF onConnectStreamClicked
  <2> QED BY <2>1, <2>2
<1>6. CASE PlayerStarts
  BY <1>6 DEF PlayerStarts
<1>7. CASE MediaEnds
  BY <1>7 DEF MediaEnds, Cleared
<1>8. CASE MediaIsInvalid
  BY <1>8 DEF MediaIsInvalid
<1>9. CASE onPlayerError
  BY <1>9 DEF onPlayerError
<1> QED BY <1>1, <1>2, <1>3, <1>4, <1>5, <1>6, <1>7, <1>8, <1>9 DEF PlayerStep

-----------------------------------------------------------------------------
(* A camera that starts is one of the list, and the only object; one that  *)
(* fails to start leaves none.                                             *)
StartedFrom(c, device, attached) ==
  LET d == startCamera(c, device, attached)
  IN  /\ d \in CameraStates /\ d.chosen = c.chosen
      /\ d.running => d.m_camera.device = device /\ device \in Cameras /\ d.m_camera.attached
      /\ d.objects = IF d.running THEN {d.m_camera} ELSE {}

LEMMA StartedCamera ==
  ASSUME NEW c \in CameraStates, c.objects = {}, ~c.running,
         NEW device \in Cameras \cup {"none"}, NEW attached \in BOOLEAN,
         c.chosen # "default" => device = c.chosen
  PROVE  StartedFrom(c, device, attached)
<1> USE DEF StartedFrom
<1> DEFINE new == [device |-> device, attached |-> attached]
           with == [c EXCEPT !.m_camera = new, !.objects = @ \cup {new}]
<1>1. new \in CameraObjects /\ NoCamera \in CameraObjects
  BY DEF CameraObjects, NoCamera
<1>2. with \in CameraStates /\ with.chosen = c.chosen /\ with.m_camera = new /\ with.objects = {new}
      /\ ~with.running
  BY <1>1 DEF CameraStates
<1>3. CASE device = "none"
  BY <1>3 DEF startCamera
<1>4. CASE device # "none" /\ attached
  <2> DEFINE d == [with EXCEPT !.running = TRUE]
  <2>1. startCamera(c, device, attached) = d
    BY <1>4 DEF startCamera
  <2> HIDE DEF with
  <2>2. d \in CameraStates /\ d.chosen = c.chosen /\ d.running /\ d.m_camera = new /\ d.objects = {new}
    BY <1>2 DEF CameraStates
  <2>3. d.m_camera.device = device /\ d.m_camera.attached /\ device \in Cameras
    BY <1>4, <2>2
  <2> QED BY <2>1, <2>2, <2>3
<1>5. CASE device # "none" /\ ~attached
  <2> DEFINE d == stopCamera(with)
  <2>1. startCamera(c, device, attached) = d
    BY <1>5 DEF startCamera
  <2> HIDE DEF with
  <2>2. d \in CameraStates /\ d.chosen = c.chosen /\ ~d.running /\ d.objects = {}
    BY <1>1, <1>2 DEF CameraStates, stopCamera
  <2> QED BY <1>5, <2>1, <2>2
<1> QED BY <1>3, <1>4, <1>5

LEMMA StoppedCamera ==
  ASSUME NEW c \in CameraStates, c.running, c.objects = {c.m_camera}
  PROVE  /\ stopCamera(c) \in CameraStates /\ stopCamera(c).chosen = c.chosen
         /\ ~stopCamera(c).running /\ stopCamera(c).objects = {}
  BY DEF stopCamera, CameraStates, CameraObjects, NoCamera

LEMMA CameraKeeps ==
  ASSUME KindInv, CameraInv,
         onStartStopClicked \/ \E device \in Cameras \cup {"default"} : Choose(device)
  PROVE  CameraInv' /\ UNCHANGED <<kind, qt5, media, player, audio, frame, queued>>
<1>1. Attaches \subseteq BOOLEAN
  BY DEF Attaches
<1>2. camera \in CameraStates /\ camera.objects = (IF camera.running THEN {camera.m_camera} ELSE {})
  BY DEF CameraInv, NoCameraLeaks
<1>3. CASE onStartStopClicked
  <2>1. PICK default \in Cameras \cup {"none"}, attached \in BOOLEAN :
          camera' = IF camera.running THEN stopCamera(camera)
                    ELSE startCamera(camera, selectedDevice(default), attached)
    BY <1>1, <1>3 DEF onStartStopClicked
  <2>2. selectedDevice(default) \in Cameras \cup {"none"}
        /\ (camera.chosen # "default" => selectedDevice(default) = camera.chosen)
    BY <1>2 DEF selectedDevice, CameraStates
  <2>3. CASE camera.running
    BY <1>2, <1>3, <2>1, <2>3, StoppedCamera
    DEF onStartStopClicked, CameraInv, NoCameraLeaks, RunsTheChosenCamera
  <2>4. CASE ~camera.running
    <3> DEFINE device == selectedDevice(default)
    <3>1. camera' = startCamera(camera, device, attached)
      BY <2>1, <2>4
    <3> HIDE DEF device
    <3>2. StartedFrom(camera, device, attached)
      BY <1>2, <2>2, <2>4, StartedCamera DEF device
    <3>3. camera'.running /\ camera'.chosen # "default" => camera'.m_camera.device = camera'.chosen
      BY <1>2, <2>2, <3>1, <3>2 DEF StartedFrom, device
    <3> QED BY <1>3, <3>1, <3>2, <3>3
        DEF StartedFrom, onStartStopClicked, CameraInv, NoCameraLeaks, RunsTheChosenCamera
  <2> QED BY <2>3, <2>4
<1>4. ASSUME NEW device \in Cameras \cup {"default"}, Choose(device)
      PROVE  CameraInv' /\ UNCHANGED <<kind, qt5, media, player, audio, frame, queued>>
  <2> DEFINE c == [camera EXCEPT !.chosen = device]
  <2>1. c \in CameraStates /\ c.chosen = device /\ c.running = camera.running
        /\ c.objects = camera.objects /\ c.m_camera = camera.m_camera
    BY <1>2 DEF CameraStates
  <2>2. PICK default \in Cameras \cup {"none"}, attached \in BOOLEAN :
          camera' = onDeviceChanged(c, IF device = "default" THEN default ELSE device, attached)
    BY <1>1, <1>4 DEF Choose
  <2> HIDE DEF c
  <2>3. CASE camera.running
    <3>1. /\ stopCamera(c) \in CameraStates /\ stopCamera(c).chosen = device
          /\ ~stopCamera(c).running /\ stopCamera(c).objects = {}
      BY <1>2, <2>1, <2>3, StoppedCamera
    <3>2. camera' = startCamera(stopCamera(c), IF device = "default" THEN default ELSE device, attached)
      BY <2>1, <2>2, <2>3 DEF onDeviceChanged
    <3> DEFINE e == stopCamera(c)
               device2 == IF device = "default" THEN default ELSE device
    <3>3. device2 \in Cameras \cup {"none"} /\ (device # "default" => device2 = device)
      OBVIOUS
    <3>4. e \in CameraStates /\ e.chosen = device /\ ~e.running /\ e.objects = {} /\ camera' = startCamera(e, device2, attached)
      BY <3>1, <3>2
    <3> HIDE DEF e, device2
    <3>5. StartedFrom(e, device2, attached)
      BY <3>3, <3>4, StartedCamera
    <3>6. camera'.running /\ camera'.chosen # "default" => camera'.m_camera.device = camera'.chosen
      BY <3>3, <3>4, <3>5 DEF StartedFrom
    <3> QED BY <1>4, <3>4, <3>5, <3>6
        DEF StartedFrom, Choose, CameraInv, NoCameraLeaks, RunsTheChosenCamera
  <2>4. CASE ~camera.running
    <3>1. camera' = c
      BY <2>1, <2>2, <2>4 DEF onDeviceChanged
    <3> QED BY <1>2, <1>4, <2>1, <2>4, <3>1 DEF Choose, CameraInv, NoCameraLeaks, RunsTheChosenCamera
  <2> QED BY <2>3, <2>4
<1> QED BY <1>3, <1>4

-----------------------------------------------------------------------------
(* The audio port.                                                         *)
LEMMA BlockKeeps ==
  ASSUME AudioInv, onAudioBufferReceived
  PROVE  AudioInv' /\ UNCHANGED <<kind, qt5, media, player, camera, frame, queued>>
<1>1. PICK D \in SUBSET Consumers, o \in Blocks \cup {0} : IsFiniteSet(D) /\ audio = Port(D, o)
  BY DEF AudioInv
<1> DEFINE block == (audio.out % 3) + 1
<1>2. block \in Blocks
  BY <1>1 DEF Port, Blocks
<1> HIDE DEF block
<1>3. Cardinality(D) \in Nat /\ (Cardinality(D) = 0 => D = {})
  BY <1>1, FS_CardinalityType, FS_EmptySet
<1>4. CASE D = {}
  <2>1. audio' = [audio EXCEPT !.out = block, !.held = audio.held]
    BY <1>1, <1>4, FS_EmptySet DEF onAudioBufferReceived, Port, block
  <2>2. [c \in D |-> o] = [c \in D |-> block]
    BY <1>4
  <2>3. audio' = Port(D, block)
    BY <1>1, <2>1, <2>2 DEF Port
  <2> QED BY <1>1, <1>2, <2>3 DEF AudioInv, onAudioBufferReceived
<1>5. CASE D # {}
  <2>1. audio.count > 0
    BY <1>1, <1>3, <1>5 DEF Port
  <2>2. audio' = [audio EXCEPT !.out = block, !.held = [c \in DOMAIN audio.held |-> block]]
    BY <2>1 DEF onAudioBufferReceived, block
  <2>3. audio' = Port(D, block)
    BY <1>1, <2>2 DEF Port
  <2> QED BY <1>1, <1>2, <2>3 DEF AudioInv, onAudioBufferReceived
<1> QED BY <1>4, <1>5

LEMMA ConnectKeeps ==
  ASSUME AudioInv, NEW c \in Consumers, outputConnectionCreated(c)
  PROVE  AudioInv' /\ UNCHANGED <<kind, qt5, media, player, camera, frame, queued>>
<1>1. PICK D \in SUBSET Consumers, o \in Blocks \cup {0} : IsFiniteSet(D) /\ audio = Port(D, o)
  BY DEF AudioInv
<1>2. c \notin D
  BY <1>1 DEF outputConnectionCreated, Port
<1>3. IsFiniteSet(D \cup {c}) /\ Cardinality(D \cup {c}) = Cardinality(D) + 1
  BY <1>1, <1>2, FS_AddElement
<1>4. audio' = Port(D \cup {c}, o)
  BY <1>1, <1>3 DEF outputConnectionCreated, Port
<1> QED BY <1>1, <1>3, <1>4 DEF AudioInv, outputConnectionCreated

LEMMA DisconnectKeeps ==
  ASSUME AudioInv, NEW c \in Consumers, outputConnectionDeleted(c)
  PROVE  AudioInv' /\ UNCHANGED <<kind, qt5, media, player, camera, frame, queued>>
<1>1. PICK D \in SUBSET Consumers, o \in Blocks \cup {0} : IsFiniteSet(D) /\ audio = Port(D, o)
  BY DEF AudioInv
<1>2. c \in D
  BY <1>1 DEF outputConnectionDeleted, Port
<1>3. IsFiniteSet(D \ {c}) /\ Cardinality(D \ {c}) = Cardinality(D) - 1
  BY <1>1, <1>2, FS_RemoveElement
<1>4. Cardinality(D) \in Nat /\ Cardinality(D) > 0
  BY <1>1, <1>2, FS_CardinalityType, FS_EmptySet
<1>5. audio' = Port(D \ {c}, o)
  BY <1>1, <1>3, <1>4 DEF outputConnectionDeleted, Port
<1> QED BY <1>1, <1>3, <1>5 DEF AudioInv, outputConnectionDeleted

-----------------------------------------------------------------------------
(* A part that none of its variables changes stays.                        *)
LEMMA PartsStay ==
  /\ KindInv /\ UNCHANGED <<kind, qt5, queued>> => KindInv'
  /\ PlayerInv /\ UNCHANGED <<media, player>> => PlayerInv'
  /\ CameraInv /\ UNCHANGED camera => CameraInv'
  /\ AudioInv /\ UNCHANGED audio => AudioInv'
<1>1. KindInv /\ UNCHANGED <<kind, qt5, queued>> => KindInv'
  BY Zenon DEF KindInv
<1>2. PlayerInv /\ UNCHANGED <<media, player>> => PlayerInv'
  BY DEF PlayerInv, PauseMeansPlaying
<1>3. CameraInv /\ UNCHANGED camera => CameraInv'
  BY DEF CameraInv, NoCameraLeaks, RunsTheChosenCamera
<1>4. AudioInv /\ UNCHANGED audio => AudioInv'
  BY DEF AudioInv
<1> QED BY <1>1, <1>2, <1>3, <1>4

LEMMA NextSourceInv == SourceInv /\ [SourceNext]_sourceVars => SourceInv'
<1> SUFFICES ASSUME SourceInv, [SourceNext]_sourceVars PROVE SourceInv'
  OBVIOUS
<1>1. CASE PlayerStep
  BY <1>1, PlayerKeeps, PartsStay DEF SourceInv
<1>2. CASE onStartStopClicked \/ \E device \in Cameras \cup {"default"} : Choose(device)
  BY <1>2, CameraKeeps, PartsStay DEF SourceInv
<1>3. CASE onAudioBufferReceived
  BY <1>3, BlockKeeps, PartsStay DEF SourceInv
<1>4. CASE \E c \in Consumers : outputConnectionCreated(c) \/ outputConnectionDeleted(c)
  BY <1>4, ConnectKeeps, DisconnectKeeps, PartsStay DEF SourceInv
<1>5. CASE Decode
  <2>1. Running \subseteq Media \cup Cameras
    BY DEF Running, SourceInv, PlayerInv, CameraInv
  <2>2. KindInv'
    BY <1>5, <2>1 DEF Decode, SourceInv, KindInv
  <2> QED BY <1>5, <2>2, PartsStay DEF Decode, SourceInv
<1>6. CASE onFrameAvailable
  <2>1. KindInv'
    BY <1>6 DEF onFrameAvailable, SourceInv, KindInv
  <2> QED BY <1>6, <2>1, PartsStay DEF onFrameAvailable, SourceInv
<1>7. CASE UNCHANGED sourceVars
  BY <1>7, PartsStay DEF sourceVars, SourceInv
<1> QED BY <1>1, <1>2, <1>3, <1>4, <1>5, <1>6, <1>7 DEF SourceNext, PlayerStep

-----------------------------------------------------------------------------
(* Player, camera, widgets and audio port agree in all three kinds of      *)
(* source: what the theorems about them rest on.                           *)
THEOREM SourceInvariant == SourceSpec => []SourceInv
  BY InitSourceInv, NextSourceInv, PTL DEF SourceSpec

(* The widgets, the player, the camera and the wires have their types.     *)
THEOREM SourceTypes == SourceSpec => []SourceTypeOK
<1>1. AudioInv => audio.count \in Nat /\ audio.out \in Blocks \cup {0}
  BY FS_CardinalityType DEF AudioInv, Port
<1>2. SourceInv => SourceTypeOK
  BY <1>1 DEF SourceInv, KindInv, PlayerInv, CameraInv, SourceTypeOK, MediaStates, Players,
         CameraStates
<1> QED BY <1>2, SourceInvariant, PTL

(* A source is what its widgets say, and every consumer holds the newest   *)
(* block, for any number of media, cameras and consumers.                  *)
THEOREM SourcesAreSound == SourceSpec => []SourceIsSound
<1>1. AudioInv => ConsumersAreCurrent
  BY DEF AudioInv, Port, ConsumersAreCurrent
<1>2. SourceInv => SourceIsSound
  BY <1>1 DEF SourceInv, PlayerInv, CameraInv, SourceIsSound
<1> QED BY <1>2, SourceInvariant, PTL
-----------------------------------------------------------------------------
(* The path that the file node was last given is what its player holds.    *)
LoadedIsSource ==
  media.loaded # "" => kind = "file" /\ player.source = media.loaded

(* The steps that leave the player and its node alone.                     *)
OtherStep ==
  \/ onStartStopClicked \/ \E device \in Cameras \cup {"default"} : Choose(device)
  \/ Decode \/ onFrameAvailable \/ onAudioBufferReceived
  \/ \E c \in Consumers : outputConnectionCreated(c) \/ outputConnectionDeleted(c)
  \/ UNCHANGED sourceVars

LEMMA OthersLeaveThePlayer == OtherStep => UNCHANGED <<kind, media, player>>
  BY DEF OtherStep, onStartStopClicked, Choose, Decode, onFrameAvailable, onAudioBufferReceived,
         outputConnectionCreated, outputConnectionDeleted, sourceVars

LEMMA NextSteps == [SourceNext]_sourceVars => PlayerStep \/ OtherStep
  BY DEF SourceNext, PlayerStep, OtherStep

NamedStep ==
  player'.state = "starting" /\ (player.state # "starting" \/ player'.source # player.source)
    => player'.source = media.field /\ (player'.begun => player.source = media.field)

LEMMA PlayPauseNames ==
  ASSUME PlayerInv, LoadedIsSource, onPlayPauseClicked
  PROVE  NamedStep /\ LoadedIsSource'
<1> USE DEF PlayerInv, MediaStates, Players
<1>1. CASE media.isPlaying
  BY <1>1 DEF onPlayPauseClicked, NamedStep, LoadedIsSource, PlayerGoes, onPlaybackStateChanged
<1>2. CASE ~media.isPlaying
  <2> DEFINE now == Reloaded(media.field)
  <2>1. /\ now.p \in Players /\ now.path = media.field
        /\ now.p.source = media.field /\ (now.p.begun => player.source = media.field)
    <3>1. CASE media.field # media.loaded
      BY <3>1 DEF Reloaded, setMediaSource, Stop
    <3>2. CASE media.field = media.loaded
      BY <1>2, <3>2 DEF Reloaded, LoadedIsSource, onPlayPauseClicked
    <3> QED BY <3>1, <3>2
  <2> HIDE DEF now
  <2>2. kind' = kind /\ kind = "file" /\ player' = Play(now.p)
        /\ media' = [media EXCEPT !.loaded = now.path, !.stoppable = TRUE]
    BY <1>2 DEF onPlayPauseClicked, now
  <2>3. player'.source = now.p.source /\ player'.begun = now.p.begun
    BY <2>1, <2>2 DEF Play
  <2>4. media'.loaded = media.field
    BY <2>1, <2>2
  <2> QED BY <2>1, <2>2, <2>3, <2>4 DEF NamedStep, LoadedIsSource
<1> QED BY <1>1, <1>2

LEMMA ConnectStreamNames ==
  ASSUME PlayerInv, LoadedIsSource, onConnectStreamClicked
  PROVE  NamedStep /\ LoadedIsSource'
<1> USE DEF PlayerInv, MediaStates, Players
<1>1. media.loaded = "" /\ kind' = kind
  BY DEF onConnectStreamClicked, LoadedIsSource
<1>2. CASE media.isPlaying
  BY <1>1, <1>2 DEF onConnectStreamClicked, NamedStep, LoadedIsSource, PlayerGoes, Stop,
                    onPlaybackStateChanged
<1>3. CASE ~media.isPlaying
  <2> DEFINE p == setMediaSource(player, media.field)
  <2>1. p \in Players /\ p.source = media.field /\ ~p.begun
    BY <1>3, VideoSourcesAssumption DEF onConnectStreamClicked, setMediaSource, Stop
  <2> HIDE DEF p
  <2>2. player' = Play(p) /\ media' = media
    BY <1>3 DEF onConnectStreamClicked, p
  <2> QED BY <1>1, <2>1, <2>2 DEF Play, NamedStep, LoadedIsSource
<1> QED BY <1>2, <1>3

LEMMA PlayerNames ==
  ASSUME PlayerInv, LoadedIsSource, PlayerStep
  PROVE  NamedStep /\ LoadedIsSource'
<1> USE DEF PlayerInv, MediaStates, Players, NamedStep, LoadedIsSource
<1>1. CASE \E m \in Media \cup {""} : SetField(m)
  BY <1>1 DEF SetField
<1>2. CASE onStopClicked
  BY <1>2 DEF onStopClicked, Cleared, Stop
<1>3. CASE onSeekClicked
  BY <1>3 DEF onSeekClicked
<1>4. CASE PlayerStarts
  BY <1>4 DEF PlayerStarts, PlayerGoes, onPlaybackStateChanged
<1>5. CASE MediaEnds
  BY <1>5 DEF MediaEnds, Cleared, Stop
<1>6. CASE MediaIsInvalid
  <2>1. player' = Stop(player) /\ media'.loaded = media.loaded /\ kind' = kind
    BY <1>6 DEF MediaIsInvalid, onPlaybackStateChanged
  <2> QED BY <2>1 DEF Stop
<1>7. CASE onPlayerError
  BY <1>7 DEF onPlayerError, Stop
<1> QED BY <1>1, <1>2, <1>3, <1>4, <1>5, <1>6, <1>7, PlayPauseNames, ConnectStreamNames DEF PlayerStep

(* A click plays what the text field names, never what was there before,   *)
(* nor from a place in it (VideoFileSourceNode.cpp, onPlayPauseClicked),   *)
(* for any media.                                                          *)
THEOREM ClicksPlayWhatIsNamed == SourceSpec => PlaysWhatIsNamed
<1>1. SourceInit => LoadedIsSource
  <2> SUFFICES ASSUME SourceInit PROVE LoadedIsSource
    OBVIOUS
  <2>1. media.loaded = ""
    BY DEF SourceInit
  <2> QED BY <2>1 DEF LoadedIsSource
<1>2. SourceInv /\ LoadedIsSource /\ [SourceNext]_sourceVars => LoadedIsSource' /\ NamedStep
  <2> SUFFICES ASSUME SourceInv, LoadedIsSource, [SourceNext]_sourceVars
               PROVE  LoadedIsSource' /\ NamedStep
    OBVIOUS
  <2>1. CASE PlayerStep
    BY <2>1, PlayerNames DEF SourceInv
  <2>2. CASE OtherStep
    BY <2>2, OthersLeaveThePlayer DEF LoadedIsSource, NamedStep
  <2> QED BY <2>1, <2>2, NextSteps
<1>3. NamedStep => [NamedStep]_sourceVars
  OBVIOUS
<1> QED BY <1>1, <1>2, SourceInvariant, PTL DEF SourceSpec, PlaysWhatIsNamed, NamedStep
-----------------------------------------------------------------------------
(***************************************************************************)
(* Theorems about ShaderNode, for any texts of the editor.                 *)
(*                                                                         *)
(* The argument is about a pool and the set of the textures that somebody  *)
(* holds.  At most one texture is held when a rendering starts, since the  *)
(* node and the display never hold two different ones, and a rendering     *)
(* takes at most two more: so three are enough.                            *)
(***************************************************************************)

Pools == [made : Nat, free : SUBSET Nat]

Frames == {NoOutput} \cup [tex : Nat \ {0}, by : Shaders \cup {"undefined"}]

(* What each texture of the pool is: free, or one of those that are held.  *)
Sound(p, held) ==
  /\ p \in Pools /\ p.made <= 3
  /\ 0 \notin held /\ 1 .. p.made = p.free \cup held /\ p.free \cap held = {}

Held(some) == {shown.tex : shown \in some} \ {0}

(* A program is what was compiled from the source of its key.              *)
ProgramOK(program) ==
  /\ program = [key |-> program.key, compiled |-> program.compiled]
  /\ program.compiled \in {"none", program.key}

ProgramsOK(progs) ==
  /\ progs = [custom |-> progs.custom, yuv |-> progs.yuv]
  /\ ProgramOK(progs.custom) /\ ProgramOK(progs.yuv)

Fbos == {"none", "valid", "invalid"}

NodeOK ==
  /\ hardware \in BOOLEAN /\ shader \in Shaders /\ lastInput \in FrameKinds \cup {"none"}
  /\ fbo \in Fbos /\ wired \in BOOLEAN /\ ProgramsOK(programs)

FramesOK ==
  /\ rendered \in Frames /\ drawn \in Frames
  /\ rendered # NoOutput /\ drawn # NoOutput => rendered = drawn
  /\ ~wired => drawn = NoOutput

ShaderInv == NodeOK /\ FramesOK /\ Sound(pool, Held({rendered, drawn}))

-----------------------------------------------------------------------------
(* The two operations of the pool.                                         *)
LEMMA AcquiredSound ==
  ASSUME NEW p, NEW held, Sound(p, held), NEW x, NEW y, held \subseteq {x, y}
  PROVE  LET new == Acquired(p)
         IN  /\ Sound(new.pool, held \cup {new.tex})
             /\ new.tex \in Nat \ {0} /\ new.tex \notin held
             /\ new.pool.made >= p.made
<1>1. CASE p.free = {}
  <2> DEFINE q == [p EXCEPT !.made = @ + 1]
  <2>1. p.made <= 2
    <3>1. p.made \in Nat /\ p.made <= 3 /\ 1 .. p.made = held
      BY <1>1 DEF Sound, Pools
    <3>2. p.made = 3 => {1, 2, 3} \subseteq held
      BY <3>1
    <3>3. p.made # 3
      BY <3>2
    <3> QED BY <3>1, <3>3
  <2>2. q \in Pools /\ q.made = p.made + 1 /\ q.free = {}
    BY <1>1 DEF Sound, Pools
  <2>3. Acquired(p) = [tex |-> p.made + 1, pool |-> q]
    BY <1>1 DEF Acquired
  <2> HIDE DEF q
  <2>4. p.made \in Nat /\ held = 1 .. p.made
    BY <1>1 DEF Sound, Pools
  <2>5. Sound(q, held \cup {p.made + 1})
    BY <2>1, <2>2, <2>4 DEF Sound
  <2> QED BY <2>2, <2>3, <2>4, <2>5
<1>2. CASE p.free # {}
  <2> DEFINE tex == CHOOSE tex \in p.free : TRUE
             q == [p EXCEPT !.free = @ \ {tex}]
  <2>1. tex \in p.free
    BY <1>2
  <2>2. Acquired(p) = [tex |-> tex, pool |-> q]
    BY <1>2 DEF Acquired
  <2> HIDE DEF tex
  <2>3. q \in Pools /\ q.made = p.made /\ q.free = p.free \ {tex}
    BY DEF Sound, Pools
  <2> HIDE DEF q
  <2>4. tex \in Nat \ {0} /\ tex \notin held
    BY <2>1 DEF Sound, Pools
  <2>5. Sound(q, held \cup {tex})
    BY <2>1, <2>3, <2>4 DEF Sound
  <2>6. q.made >= p.made
    BY <2>3 DEF Sound, Pools
  <2> QED BY <2>2, <2>4, <2>5, <2>6
<1> QED BY <1>1, <1>2

(* Returning a texture that is free already changes nothing.               *)
LEMMA ReturnedSound ==
  ASSUME NEW p, NEW held, Sound(p, held), NEW S, S \subseteq 0 .. p.made
  PROVE  Sound(Returned(p, S), held \ S) /\ Returned(p, S).made = p.made
<1> DEFINE q == Returned(p, S)
<1>1. q \in Pools /\ q.made = p.made /\ q.free = p.free \cup (S \ {0})
  BY DEF Sound, Pools, Returned
<1> HIDE DEF q
<1>2. Sound(q, held \ S)
  BY <1>1 DEF Sound, Pools
<1> QED BY <1>1, <1>2 DEF q

-----------------------------------------------------------------------------
(* What a rendering may leave.                                             *)
DoneOK(done, text, held, made) ==
  /\ done.out \in Frames /\ done.out.tex \notin held
  /\ done.out # NoOutput => done.out.by \in {text, "undefined"}
  /\ ProgramsOK(done.programs) /\ done.fbo \in Fbos
  /\ Sound(done.pool, held \cup Held({done.out})) /\ done.pool.made >= made

LEMMA FailureOK ==
  ASSUME NEW text, NEW held, NEW progs, ProgramsOK(progs), NEW f \in Fbos, NEW p, Sound(p, held),
         NEW made, p.made >= made
  PROVE  DoneOK(Failure(progs, f, p), text, held, made)
<1>1. Held({NoOutput}) = {}
  BY DEF Held, NoOutput
<1>2. held \cup {} = held
  OBVIOUS
<1>3. NoOutput \in Frames /\ NoOutput.tex \notin held
  BY DEF Frames, NoOutput, Sound
<1> QED BY <1>1, <1>2, <1>3 DEF DoneOK, Failure

LEMMA EnsuredProgram ==
  ASSUME NEW program, ProgramOK(program), NEW source, source # "none", NEW links
  PROVE  /\ ProgramOK(ensureProgram(program, source, links))
         /\ ensureProgram(program, source, links).compiled \in {"none", source}
  BY DEF ProgramOK, ensureProgram

LEMMA RenderOK ==
  ASSUME NEW text \in Shaders, NEW target, target.fbo \in Fbos,
         NEW progs, ProgramsOK(progs), NEW temporary \in Nat, NEW p, NEW held, NEW x,
         held \subseteq {x}, temporary \notin held, Sound(p, held \cup ({temporary} \ {0})),
         NEW before \in Nat, p.made >= before
  PROVE  DoneOK(Render(text, target, progs, temporary, p), text, held, before)
<1> DEFINE custom == [progs EXCEPT !.custom = ensureProgram(@, text, text \in Compiling)]
           new == Acquired(p)
           by == IF target.fbo = "invalid" THEN "undefined" ELSE custom.custom.compiled
           taken == held \cup ({temporary} \ {0})
<1>1. ProgramsOK(custom) /\ custom.custom.compiled \in {"none", text}
  <2>1. text # "none" /\ ProgramOK(progs.custom)
    BY ShaderNodeAssumption DEF ProgramsOK
  <2> DEFINE e == ensureProgram(progs.custom, text, text \in Compiling)
  <2>2. ProgramOK(e) /\ e.compiled \in {"none", text}
    BY <2>1, EnsuredProgram
  <2> HIDE DEF e
  <2>3. [progs EXCEPT !.custom = e] = [custom |-> e, yuv |-> progs.yuv]
    BY DEF ProgramsOK
  <2>4. custom = [custom |-> e, yuv |-> progs.yuv]
    BY <2>3 DEF e
  <2> QED BY <2>2, <2>4 DEF ProgramsOK
<1>2. /\ Sound(new.pool, taken \cup {new.tex})
      /\ new.tex \in Nat \ {0} /\ new.tex \notin taken
      /\ new.pool.made \in Nat /\ new.pool.made >= before
  <2>1. taken \subseteq {x, temporary} /\ Sound(p, taken)
    OBVIOUS
  <2> HIDE DEF taken
  <2>2. /\ Sound(new.pool, taken \cup {new.tex})
        /\ new.tex \in Nat \ {0} /\ new.tex \notin taken /\ new.pool.made >= p.made
    BY <2>1, AcquiredSound
  <2> HIDE DEF new
  <2>3. new.pool.made \in Nat /\ p.made \in Nat
    BY <2>1, <2>2 DEF Sound, Pools
  <2> QED BY <2>2, <2>3
<1>3. temporary \in 0 .. p.made /\ temporary \in 0 .. new.pool.made
  BY <1>2 DEF Sound, Pools
<1> HIDE DEF custom, new
<1>4. CASE custom.custom.compiled = "none"
  <2>1. Sound(Returned(p, {temporary}), taken \ {temporary}) /\ Returned(p, {temporary}).made = p.made
    BY <1>3, ReturnedSound
  <2>2. taken \ {temporary} = held
    OBVIOUS
  <2>3. Render(text, target, progs, temporary, p) = Failure(custom, target.fbo, Returned(p, {temporary}))
    BY <1>4 DEF Render, custom
  <2> QED BY <1>1, <2>1, <2>2, <2>3, FailureOK
<1>5. CASE custom.custom.compiled # "none" /\ target.fault = "output"
  <2> DEFINE back == {new.tex, temporary}
  <2>1. back \subseteq 0 .. new.pool.made
    BY <1>2, <1>3 DEF Sound, Pools
  <2>2. Sound(Returned(new.pool, back), (taken \cup {new.tex}) \ back)
        /\ Returned(new.pool, back).made = new.pool.made
    BY <1>2, <2>1, ReturnedSound
  <2>3. (taken \cup {new.tex}) \ back = held
    BY <1>2
  <2>4. Render(text, target, progs, temporary, p) = Failure(custom, target.fbo, Returned(new.pool, back))
    BY <1>5 DEF Render, custom, new
  <2> QED BY <1>1, <1>2, <2>2, <2>3, <2>4, FailureOK
<1>6. CASE custom.custom.compiled # "none" /\ target.fault # "output"
  <2> DEFINE given == [tex |-> new.tex, by |-> by]
             done == [out |-> given, programs |-> custom, fbo |-> target.fbo,
                      pool |-> Returned(new.pool, {temporary})]
  <2>1. Sound(Returned(new.pool, {temporary}), (taken \cup {new.tex}) \ {temporary})
        /\ Returned(new.pool, {temporary}).made = new.pool.made
    BY <1>2, <1>3, ReturnedSound
  <2>2. (taken \cup {new.tex}) \ {temporary} = held \cup {new.tex} /\ new.tex \notin held
    BY <1>2
  <2>3. by \in {text, "undefined"}
    BY <1>1, <1>6
  <2> HIDE DEF by
  <2>4. given \in Frames /\ Held({given}) = {new.tex}
    BY <1>2, <2>3 DEF Frames, Held
  <2>5. DoneOK(done, text, held, before)
    BY <1>1, <1>2, <2>1, <2>2, <2>3, <2>4 DEF DoneOK
  <2>6. Render(text, target, progs, temporary, p) = done
    BY <1>6 DEF Render, custom, new, by
  <2> QED BY <2>5, <2>6
<1> QED BY <1>4, <1>5, <1>6

LEMMA ProcessOK ==
  ASSUME NodeOK, NEW input \in FrameKinds, NEW text \in Shaders, NEW fault, NEW p, NEW held, NEW x,
         held \subseteq {x}, Sound(p, held)
  PROVE  DoneOK(processTexture(input, text, p, fault), text, held, p.made)
<1> DEFINE made == IF fbo # "none" THEN fbo ELSE IF fault = "fbo" THEN "invalid" ELSE "valid"
           target == [fbo |-> made, fault |-> fault]
           yuv == [programs EXCEPT !.yuv = ensureProgram(@, input, fault # "yuv")]
           pre == Acquired(p)
           done == processTexture(input, text, p, fault)
<1>0. p.made \in Nat /\ p.made >= p.made
  BY DEF Sound, Pools
<1>1. made \in Fbos /\ target.fbo = made /\ fbo \in Fbos /\ ProgramsOK(programs)
  BY DEF NodeOK, Fbos
<1>2. ProgramsOK(yuv)
  <2>1. input # "none" /\ ProgramOK(programs.yuv)
    BY <1>1 DEF ProgramsOK, FrameKinds, Yuv
  <2> DEFINE e == ensureProgram(programs.yuv, input, fault # "yuv")
  <2>2. ProgramOK(e)
    BY <2>1, EnsuredProgram
  <2> HIDE DEF e
  <2>3. [programs EXCEPT !.yuv = e] = [custom |-> programs.custom, yuv |-> e]
    BY <1>1 DEF ProgramsOK
  <2>4. yuv = [custom |-> programs.custom, yuv |-> e]
    BY <2>3 DEF e
  <2> QED BY <1>1, <2>2, <2>4 DEF ProgramsOK
<1>3. /\ Sound(pre.pool, held \cup {pre.tex}) /\ pre.tex \in Nat \ {0} /\ pre.tex \notin held
      /\ pre.pool.made >= p.made
  <2>1. held \subseteq {x, x}
    OBVIOUS
  <2> QED BY <2>1, AcquiredSound
<1> HIDE DEF made, yuv, pre
<1>4. CASE text = "" \/ fault = "context"
  <2>1. done = Failure(programs, fbo, p)
    BY <1>4 DEF processTexture
  <2> QED BY <1>1, <2>1, <1>0, FailureOK
<1> DEFINE past == ~(text = "" \/ fault = "context")
<1>5. CASE past /\ fbo = "none" /\ fault = "fbo"
  <2>1. done = Failure(programs, made, p)
    BY <1>5 DEF processTexture, made
  <2> QED BY <1>1, <2>1, <1>0, FailureOK
<1> DEFINE bound == past /\ ~(fbo = "none" /\ fault = "fbo")
<1>6. CASE bound /\ input \notin Yuv
  <2>1. done = Render(text, target, programs, 0, p)
    BY <1>6 DEF processTexture, made
  <2>2. held \cup ({0} \ {0}) = held /\ 0 \notin held /\ 0 \in Nat
    BY DEF Sound
  <2> HIDE DEF target
  <2>3. Sound(p, held \cup ({0} \ {0}))
    BY <2>2
  <2>4. DoneOK(Render(text, target, programs, 0, p), text, held, p.made)
    BY <1>1, <1>0, <2>2, <2>3, RenderOK
  <2> QED BY <2>1, <2>4
<1>7. CASE bound /\ input \in Yuv /\ yuv.yuv.compiled = "none"
  <2>1. done = Failure(yuv, made, p)
    BY <1>7 DEF processTexture, made, yuv
  <2> QED BY <1>1, <1>2, <2>1, <1>0, FailureOK
<1> DEFINE linked == bound /\ input \in Yuv /\ yuv.yuv.compiled # "none"
<1>8. CASE linked /\ fault = "prepass"
  <2>1. done = Failure(yuv, made, Returned(pre.pool, {pre.tex}))
    BY <1>8 DEF processTexture, made, yuv, pre
  <2>2. {pre.tex} \subseteq 0 .. pre.pool.made
    BY <1>3 DEF Sound, Pools
  <2>3. Sound(Returned(pre.pool, {pre.tex}), (held \cup {pre.tex}) \ {pre.tex})
        /\ Returned(pre.pool, {pre.tex}).made = pre.pool.made
    BY <1>3, <2>2, ReturnedSound
  <2>4. (held \cup {pre.tex}) \ {pre.tex} = held
    BY <1>3
  <2> QED BY <1>1, <1>2, <1>3, <2>1, <2>3, <2>4, FailureOK, SMTT(20)
<1>9. CASE linked /\ fault # "prepass"
  <2>1. done = Render(text, target, yuv, pre.tex, pre.pool)
    BY <1>9 DEF processTexture, made, yuv, pre
  <2>2. held \cup ({pre.tex} \ {0}) = held \cup {pre.tex}
    BY <1>3
  <2> HIDE DEF target
  <2>3. Sound(pre.pool, held \cup ({pre.tex} \ {0}))
    BY <1>3, <2>2
  <2> QED BY <1>1, <1>2, <1>3, <2>1, <2>3, <1>0, RenderOK
<1> QED BY <1>4, <1>5, <1>6, <1>7, <1>8, <1>9 DEF past, bound, linked

-----------------------------------------------------------------------------
(* The output is replaced, and what neither holds any more goes back.      *)
LEMMA EmitKeeps ==
  ASSUME FramesOK, NEW given \in Frames, NEW updated \in BOOLEAN, NEW p, NEW held,
         updated \/ given \in {NoOutput, rendered}, updated => given # NoOutput,
         drawn # NoOutput => drawn.tex \in held,
         held \subseteq Held({rendered, drawn, given}), rendered.tex \in 0 .. p.made,
         Sound(p, held \cup Held({given})), Emit(given, updated, p)
  PROVE  FramesOK' /\ Sound(pool', Held({rendered, drawn})')
<1> DEFINE keeps == IF updated /\ wired THEN given ELSE drawn
           back == {rendered.tex, drawn.tex} \ {given.tex, keeps.tex}
           all == held \cup Held({given})
<1>1. rendered' = given /\ drawn' = keeps /\ wired' = wired /\ pool' = Returned(p, back)
  BY DEF Emit
<1>2. \A f \in Frames : f.tex \in Nat /\ (f.tex = 0 <=> f = NoOutput)
  BY DEF Frames, NoOutput
<1>3. rendered \in Frames /\ drawn \in Frames /\ keeps \in Frames
  BY DEF FramesOK
<1>4. FramesOK'
  BY <1>1, <1>3 DEF FramesOK
<1>5. drawn.tex \in 0 .. p.made
  <2>1. CASE drawn = NoOutput
    BY <2>1 DEF NoOutput, Sound, Pools
  <2>2. CASE drawn # NoOutput
    BY <2>2 DEF Sound, Pools
  <2> QED BY <2>1, <2>2
<1>6. Sound(Returned(p, back), all \ back)
  <2>1. back \subseteq 0 .. p.made
    BY <1>5
  <2> HIDE DEF back
  <2> QED BY <2>1, ReturnedSound
<1>7. all \ back = Held({given, keeps})
  <2>1. Held({given, keeps}) = {given.tex, keeps.tex} \ {0} /\ Held({given}) = {given.tex} \ {0}
        /\ Held({rendered, drawn, given}) = {rendered.tex, drawn.tex, given.tex} \ {0}
    BY DEF Held
  <2>2. keeps.tex # 0 => keeps.tex \in all
    BY <1>2, <1>3, <2>1
  <2> HIDE DEF keeps
  <2> QED BY <2>1, <2>2
<1>8. Held({rendered, drawn})' = Held({given, keeps})
  BY <1>1 DEF Held
<1> QED BY <1>1, <1>4, <1>6, <1>7, <1>8

LEMMA ReprocessKeeps ==
  ASSUME ShaderInv, NEW input \in FrameKinds, NEW text \in Shaders, NEW fault,
         NEW current \in {NoOutput, rendered}, Reprocess(input, text, current, fault)
  PROVE  /\ FramesOK' /\ Sound(pool', Held({rendered, drawn})')
         /\ ProgramsOK(programs') /\ fbo' \in Fbos /\ wired' = wired
         /\ rendered' # rendered /\ rendered' # NoOutput => rendered'.by \in {text, "undefined"}
<1> DEFINE p == IF current = rendered THEN pool ELSE Returned(pool, {rendered.tex} \ {drawn.tex})
           done == processTexture(input, text, p, fault)
           held == Held({current, drawn})
<1>1. NodeOK /\ FramesOK /\ Sound(pool, Held({rendered, drawn}))
  BY DEF ShaderInv
<1>2. rendered \in Frames /\ drawn \in Frames /\ current \in Frames
      /\ (\A f \in Frames : f.tex \in Nat /\ (f.tex = 0 <=> f = NoOutput))
  BY <1>1 DEF FramesOK, Frames, NoOutput
<1>3. Held({rendered, drawn}) = {rendered.tex, drawn.tex} \ {0}
      /\ held = {current.tex, drawn.tex} \ {0}
  BY DEF Held
<1>4. rendered.tex \in 0 .. pool.made
  <2>1. pool.made \in Nat /\ Held({rendered, drawn}) \subseteq 0 .. pool.made
    BY <1>1 DEF Sound, Pools
  <2>2. rendered.tex \in Nat /\ (rendered.tex # 0 => rendered.tex \in Held({rendered, drawn}))
    BY <1>2, <1>3
  <2> QED BY <2>1, <2>2
<1>5. Sound(p, held) /\ p.made = pool.made
  <2>1. CASE current = rendered
    BY <1>1, <2>1
  <2>2. CASE current # rendered
    <3> DEFINE back == {rendered.tex} \ {drawn.tex}
    <3>1. back \subseteq 0 .. pool.made
      BY <1>4
    <3>2. Held({rendered, drawn}) \ back = held
      BY <1>2, <1>3, <2>2 DEF NoOutput
    <3> HIDE DEF back
    <3>3. Sound(Returned(pool, back), Held({rendered, drawn}) \ back) /\ Returned(pool, back).made = pool.made
      BY <1>1, <3>1, ReturnedSound
    <3> QED BY <2>2, <3>2, <3>3 DEF back
  <2> QED BY <2>1, <2>2
<1>6. drawn # NoOutput => drawn.tex \in held
  BY <1>2, <1>3
<1>7. \A given : held \subseteq Held({rendered, drawn, given})
  BY <1>2, <1>3 DEF Held, NoOutput
<1> HIDE DEF p
<1>8. CASE input = "rgb" \/ (input \in Yuv /\ fault = "upload")
  <2>1. Emit(current, FALSE, p) /\ UNCHANGED <<programs, fbo>>
    BY <1>8 DEF Reprocess, p
  <2>2. held \cup Held({current}) = held
    BY <1>3 DEF Held
  <2>3. FramesOK' /\ Sound(pool', Held({rendered, drawn})')
    BY <1>1, <1>2, <1>4, <1>5, <1>6, <1>7, <2>1, <2>2, EmitKeeps
  <2>4. rendered' = current /\ wired' = wired
    BY <2>1 DEF Emit
  <2> QED BY <1>1, <2>1, <2>3, <2>4 DEF NodeOK
<1>9. CASE ~(input = "rgb" \/ (input \in Yuv /\ fault = "upload"))
  <2>1. programs' = done.programs /\ fbo' = done.fbo /\ Emit(done.out, done.out # NoOutput, done.pool)
    BY <1>9 DEF Reprocess, p
  <2>2. PICK x : held \subseteq {x}
    <3>1. CASE current = NoOutput
      BY <1>3, <3>1 DEF NoOutput
    <3>2. CASE current # NoOutput
      <4>1. held \subseteq {rendered.tex}
        BY <1>1, <1>2, <1>3, <3>2 DEF FramesOK
      <4> QED BY <4>1
    <3> QED BY <3>1, <3>2
  <2>3. DoneOK(done, text, held, p.made)
    <3> HIDE DEF held
    <3> QED BY <1>1, <1>5, <2>2, ProcessOK
  <2> HIDE DEF done, held
  <2>4. rendered.tex \in 0 .. done.pool.made
    <3>1. CASE rendered.tex = 0
      BY <2>3, <3>1 DEF DoneOK, Sound, Pools
    <3>2. CASE rendered.tex # 0
      <4>1. done.pool.made \in Nat /\ done.pool.made >= pool.made /\ pool.made \in Nat
        BY <1>1, <1>5, <2>3 DEF DoneOK, Sound, Pools
      <4> QED BY <1>4, <4>1
    <3> QED BY <3>1, <3>2
  <2>5. FramesOK' /\ Sound(pool', Held({rendered, drawn})')
    <3> DEFINE updated == done.out # NoOutput
    <3>1. updated \in BOOLEAN /\ (updated \/ done.out \in {NoOutput, rendered}) /\ (updated => done.out # NoOutput)
      OBVIOUS
    <3> HIDE DEF updated
    <3>2. Emit(done.out, updated, done.pool)
      BY <2>1 DEF updated
    <3> QED BY <1>1, <1>6, <1>7, <2>3, <2>4, <3>1, <3>2, EmitKeeps DEF DoneOK
  <2>6. rendered' = done.out /\ wired' = wired
    BY <2>1 DEF Emit
  <2> QED BY <2>1, <2>3, <2>5, <2>6 DEF DoneOK
<1> QED BY <1>8, <1>9

-----------------------------------------------------------------------------
LEMMA InitShaderInv == ShaderInit => ShaderInv
<1> SUFFICES ASSUME ShaderInit PROVE ShaderInv
  OBVIOUS
<1>1. NodeOK
  BY ShaderNodeAssumption DEF ShaderInit, NodeOK, ProgramsOK, ProgramOK, NoProgram, Fbos
<1>2. FramesOK
  BY DEF ShaderInit, FramesOK, Frames
<1>3. Held({rendered, drawn}) = {}
  BY DEF ShaderInit, Held, NoOutput
<1>4. Sound(pool, {})
  BY DEF ShaderInit, Sound, Pools
<1> QED BY <1>1, <1>2, <1>3, <1>4 DEF ShaderInv

(* A step that drops the frame of the node.                                *)
LEMMA DropKeeps ==
  ASSUME ShaderInv, Emit(NoOutput, FALSE, pool)
  PROVE  FramesOK' /\ Sound(pool', Held({rendered, drawn})') /\ wired' = wired
<1> DEFINE held == Held({rendered, drawn})
<1>1. FramesOK /\ Sound(pool, held) /\ NoOutput \in Frames
  BY DEF ShaderInv, Frames
<1>2. held = {rendered.tex, drawn.tex} \ {0} /\ Held({NoOutput}) = {}
  BY DEF Held, NoOutput
<1>3. \A f \in Frames : f.tex \in Nat /\ (f.tex = 0 <=> f = NoOutput)
  BY DEF Frames, NoOutput
<1>4. rendered.tex \in 0 .. pool.made /\ (drawn # NoOutput => drawn.tex \in held)
  <2>1. rendered.tex \in Nat /\ drawn.tex \in Nat /\ (drawn.tex = 0 <=> drawn = NoOutput)
    BY <1>1, <1>3 DEF FramesOK
  <2>2. rendered.tex # 0 => rendered.tex \in 1 .. pool.made
    BY <1>1, <1>2, <2>1 DEF Sound, Pools
  <2>3. pool.made \in Nat
    BY <1>1 DEF Sound, Pools
  <2> QED BY <1>2, <2>1, <2>2, <2>3
<1>5. held \subseteq Held({rendered, drawn, NoOutput}) /\ held \cup {} = held
  BY DEF Held
<1> HIDE DEF held
<1>6. FramesOK' /\ Sound(pool', Held({rendered, drawn})')
  BY <1>1, <1>2, <1>4, <1>5, EmitKeeps
<1> QED BY <1>6 DEF Emit

LEMMA RewiredKeeps ==
  ASSUME ShaderInv, Rewired
  PROVE  FramesOK' /\ Sound(pool', Held({rendered, drawn})')
<1> DEFINE held == Held({rendered, drawn})
           back == {drawn.tex} \ {rendered.tex}
<1>1. FramesOK /\ Sound(pool, held)
  BY DEF ShaderInv
<1>2. held = {rendered.tex, drawn.tex} \ {0}
  BY DEF Held
<1>3. rendered \in Frames /\ drawn \in Frames
      /\ (\A f \in Frames : f.tex \in Nat /\ (f.tex = 0 <=> f = NoOutput))
  BY <1>1 DEF FramesOK, Frames, NoOutput
<1>4. wired' = ~wired /\ drawn' = (IF wired THEN NoOutput ELSE rendered)
      /\ rendered' = rendered /\ pool' = Returned(pool, back)
  BY DEF Rewired
<1>5. FramesOK'
  <2>1. CASE wired
    BY <1>1, <1>4, <2>1 DEF FramesOK, Frames
  <2>2. CASE ~wired
    <3>1. wired'
      BY <1>4, <2>2
    <3> QED BY <1>1, <1>4, <2>2, <3>1 DEF FramesOK
  <2> QED BY <2>1, <2>2
<1>6. back \subseteq 0 .. pool.made
  BY <1>1, <1>2, <1>3 DEF Sound, Pools
<1>7. Held({rendered, drawn})' = {rendered.tex} \ {0}
  BY <1>3, <1>4 DEF Held, NoOutput
<1>8. held \ back = {rendered.tex} \ {0}
  BY <1>2
<1> HIDE DEF held, back
<1>9. Sound(Returned(pool, back), held \ back)
  BY <1>1, <1>6, ReturnedSound
<1> QED BY <1>4, <1>5, <1>7, <1>8, <1>9

-----------------------------------------------------------------------------
LEMMA NextShaderInv ==
  ASSUME ShaderInv, [ShaderNext]_shaderVars
  PROVE  ShaderInv'
<1> USE DEF NodeOK
<1>1. NodeOK /\ FramesOK
  BY DEF ShaderInv
<1>2. ASSUME NEW input \in FrameKinds, NEW fault \in Faults, FrameArrives(input, fault)
      PROVE  ShaderInv'
  BY <1>1, <1>2, ReprocessKeeps DEF FrameArrives, ShaderInv
<1>3. ASSUME NEW input \in FrameKinds, WithoutHardware(input) \/ Replaced(input)
      PROVE  ShaderInv'
  <2>1. CASE WithoutHardware(input)
    BY <1>1, <2>1, DropKeeps DEF WithoutHardware, ShaderInv
  <2>2. CASE Replaced(input)
    BY <1>1, <2>2 DEF Replaced, ShaderInv, FramesOK, Held
  <2> QED BY <1>3, <2>1, <2>2
<1>4. CASE NoFrameArrives
  BY <1>1, <1>4, DropKeeps DEF NoFrameArrives, ShaderInv
<1>5. ASSUME NEW text \in Shaders, Edit(text)
      PROVE  ShaderInv'
  BY <1>1, <1>5 DEF Edit, ShaderInv, FramesOK, Held
<1>6. ASSUME NEW text \in Shaders, NEW fault \in Faults, Recompile(text, fault)
      PROVE  ShaderInv'
  <2>1. lastInput \in FrameKinds
    BY <1>1, <1>6 DEF Recompile
  <2> QED BY <1>1, <1>6, <2>1, ReprocessKeeps DEF Recompile, ShaderInv
<1>7. CASE Rewired
  BY <1>1, <1>7, RewiredKeeps DEF Rewired, ShaderInv
<1>8. CASE UNCHANGED shaderVars
  BY <1>1, <1>8 DEF shaderVars, ShaderInv, FramesOK, Held
<1> QED BY <1>2, <1>3, <1>4, <1>5, <1>6, <1>7, <1>8 DEF ShaderNext

-----------------------------------------------------------------------------
(* Before each rendering the node holds one texture at most and the        *)
(* display one, whatever failed before (CustomShaderGLProcessor).          *)
THEOREM ShaderInvariant == ShaderSpec => []ShaderInv
<1>1. ShaderInv /\ [ShaderNext]_shaderVars => ShaderInv'
  BY NextShaderInv
<1> QED BY <1>1, InitShaderInv, PTL DEF ShaderSpec

(* The node, its pool and the display have their types.                    *)
THEOREM ShaderTypes == ShaderSpec => []ShaderTypeOK
<1>1. ShaderInv => ShaderTypeOK
  <2> SUFFICES ASSUME ShaderInv PROVE ShaderTypeOK
    OBVIOUS
  <2>1. Held({rendered, drawn}) = {rendered.tex, drawn.tex} \ {0}
    BY DEF Held
  <2>2. {rendered.tex, drawn.tex} \subseteq 0 .. pool.made
    BY <2>1 DEF ShaderInv, FramesOK, Frames, NoOutput, Sound, Pools
  <2> QED BY <2>2 DEF ShaderInv, ShaderTypeOK, NodeOK, Fbos, Sound, Pools
<1> QED BY <1>1, ShaderInvariant, PTL

(* Every texture of the pool is free or shown, on whatever step renderings *)
(* fail, and there are never more than three, for any texts of the editor. *)
THEOREM TexturesReturn == ShaderSpec => []EveryTextureReturns
<1>1. ShaderInv => EveryTextureReturns
  <2> SUFFICES ASSUME ShaderInv PROVE EveryTextureReturns
    OBVIOUS
  <2>1. Held({rendered, drawn}) = {rendered.tex, drawn.tex} \ {0}
    BY DEF Held
  <2> QED BY <2>1 DEF ShaderInv, EveryTextureReturns, Sound, Pools
<1> QED BY <1>1, ShaderInvariant, PTL

(* What the node puts out was drawn by the text that is in the editor, for *)
(* any texts.                                                              *)
THEOREM EditedShaderRuns == ShaderSpec => RunsTheEditedShader
<1> DEFINE Right == rendered' # rendered /\ rendered' # NoOutput => rendered'.by \in {shader', "undefined"}
<1>1. ShaderInv /\ [ShaderNext]_shaderVars => [Right]_shaderVars
  <2> SUFFICES ASSUME ShaderInv, ShaderNext PROVE Right
    OBVIOUS
  <2>1. NodeOK
    BY DEF ShaderInv
  <2>2. ASSUME NEW input \in FrameKinds, NEW fault \in Faults, FrameArrives(input, fault)
        PROVE  Right
    BY <2>1, <2>2, ReprocessKeeps DEF FrameArrives, NodeOK
  <2>3. ASSUME NEW text \in Shaders, NEW fault \in Faults, Recompile(text, fault)
        PROVE  Right
    BY <2>1, <2>3, ReprocessKeeps DEF Recompile, NodeOK
  <2>4. ASSUME NEW input \in FrameKinds, WithoutHardware(input) \/ Replaced(input)
        PROVE  Right
    BY <2>4 DEF WithoutHardware, Replaced, Emit
  <2>5. CASE NoFrameArrives
    BY <2>5 DEF NoFrameArrives, Emit
  <2>6. ASSUME NEW text \in Shaders, Edit(text)
        PROVE  Right
    BY <2>6 DEF Edit
  <2>7. CASE Rewired
    BY <2>7 DEF Rewired
  <2> QED BY <2>2, <2>3, <2>4, <2>5, <2>6, <2>7 DEF ShaderNext
<1> QED BY <1>1, ShaderInvariant, PTL DEF ShaderSpec, RunsTheEditedShader
-----------------------------------------------------------------------------
(***************************************************************************)
(* Recursion.                                                              *)
(*                                                                         *)
(* Functions that are defined by recursion over the numbers up to N, in the *)
(* model as in the program's loops, exist and can be reasoned about: the   *)
(* induction is one over finite sets.                                      *)
(***************************************************************************)

(* A set of numbers has a least one, as strict inclusion of finite sets is *)
(* well founded; so what holds of 0 and of each next number holds of all.  *)
LEMMA LeastNumber ==
  ASSUME NEW T \in SUBSET Nat, T # {}
  PROVE  \E n \in T : \A m \in T : n <= m
  <1> DEFINE Below == {0 .. n - 1 : n \in T}
             R == StrictSubsetOrdering(Nat)
  <1>1. Below \subseteq FiniteSubsetsOf(Nat) /\ Below # {}
    <2>1. ASSUME NEW n \in T PROVE 0 .. n - 1 \in FiniteSubsetsOf(Nat)
      <3>1. IsFiniteSet(0 .. n - 1)
        BY FS_Interval
      <3> QED BY <3>1 DEF FiniteSubsetsOf
    <2> QED BY <2>1
  <1>2. IsWellFoundedOn(R, FiniteSubsetsOf(Nat))
    BY FS_StrictSubsetOrderingWellFounded
  <1>3. PICK B \in Below : \A C \in Below : ~(<<C, B>> \in R)
    <2> HIDE DEF Below, R
    <2> QED BY <1>1, <1>2, WFMin
  <1>4. PICK n \in T : B = 0 .. n - 1
    OBVIOUS
  <1>5. ASSUME NEW m \in T, m < n PROVE FALSE
    <2>1. 0 .. m - 1 \subseteq B /\ 0 .. m - 1 # B
      BY <1>4, <1>5
    <2>2. <<0 .. m - 1, B>> \in R
      <3>1. PICK C : C = 0 .. m - 1
        OBVIOUS
      <3>2. C \in SUBSET Nat /\ B \in SUBSET Nat /\ C \subseteq B /\ C # B
        BY <1>4, <2>1, <3>1
      <3>3. <<C, B>> \in R
        BY <3>2 DEF StrictSubsetOrdering
      <3> QED BY <3>1, <3>3
    <2> QED BY <1>3, <2>2
  <1> QED BY <1>5

LEMMA SetInduction ==
  ASSUME NEW N \in Nat, NEW T, 0 \in T, \A n \in 0 .. N - 1 : n \in T => n + 1 \in T
  PROVE  \A n \in 0 .. N : n \in T
  <1> DEFINE Out == {n \in 0 .. N : n \notin T}
  <1> SUFFICES ASSUME Out # {} PROVE FALSE
    OBVIOUS
  <1>1. Out \in SUBSET Nat
    OBVIOUS
  <1>2. PICK n \in Out : \A m \in Out : n <= m
    <2> HIDE DEF Out
    <2> QED BY <1>1, LeastNumber
  <1>3. n \in 0 .. N /\ n \notin T /\ n # 0
    BY <1>2
  <1>4. n - 1 \in 0 .. N - 1 /\ n - 1 + 1 = n
    BY <1>3
  <1>5. n - 1 \notin Out
    BY <1>2, <1>3
  <1> QED BY <1>3, <1>4, <1>5

(* A recursion over the numbers up to N defines a function.                *)
Recurses(f, N, S, base, step) ==
  f \in [0 .. N -> S] /\ f[0] = base /\ \A n \in 1 .. N : f[n] = step[n][f[n - 1]]

LEMMA Recursion ==
  ASSUME NEW N \in Nat, NEW S, NEW base \in S, NEW step \in [1 .. N -> [S -> S]]
  PROVE  \E f : Recurses(f, N, S, base, step)
  <1> DEFINE Good(g, n) == /\ g \in [0 .. N -> S] /\ g[0] = base
                           /\ \A k \in 1 .. n : g[k] = step[k][g[k - 1]]
             T == {n \in 0 .. N : \E g \in [0 .. N -> S] : Good(g, n)}
  <1>1. 0 \in T
    <2>1. PICK g : g = [n \in 0 .. N |-> base]
      OBVIOUS
    <2>2. Good(g, 0)
      BY <2>1
    <2> QED BY <2>2
  <1>2. ASSUME NEW n \in 0 .. N - 1, n \in T PROVE n + 1 \in T
    <2>1. PICK g \in [0 .. N -> S] : Good(g, n)
      BY <1>2
    <2>2. n + 1 \in 1 .. N /\ n \in 0 .. N
      OBVIOUS
    <2>3. PICK x \in S : x = step[n + 1][g[n]]
      BY <2>1, <2>2
    <2>4. PICK h : h = [g EXCEPT ![n + 1] = x]
      OBVIOUS
    <2>5. h \in [0 .. N -> S] /\ \A k \in 0 .. N : h[k] = IF k = n + 1 THEN x ELSE g[k]
      BY <2>1, <2>2, <2>4
    <2>6. ASSUME NEW k \in 1 .. n + 1 PROVE h[k] = step[k][h[k - 1]]
      <3>1. k \in 0 .. N /\ k - 1 \in 0 .. N /\ k - 1 # n + 1
        BY <2>2
      <3>2. CASE k = n + 1
        BY <2>3, <2>5, <3>1, <3>2
      <3>3. CASE k # n + 1
        <4>1. k \in 1 .. n
          BY <3>3
        <4> QED BY <2>1, <2>5, <3>1, <3>3, <4>1
      <3> QED BY <3>2, <3>3
    <2>7. h[0] = base
      BY <2>1, <2>5
    <2> QED BY <2>2, <2>5, <2>6, <2>7
  <1> HIDE DEF T
  <1>3. \A n \in 0 .. N : n \in T
    BY <1>1, <1>2, SetInduction
  <1>4. N \in T
    BY <1>3
  <1> QED BY <1>4 DEF T, Recurses
-----------------------------------------------------------------------------
(***************************************************************************)
(* Theorems about ChatNodes, for any sessions, texts and prompts.          *)
(*                                                                         *)
(* Shows(w) says of one chat that what the user sees is what is stored. Every *)
(* slot ends by rebuilding the list, so it is enough that each leaves a store *)
(* in which the active session is one, and only one: Kept(w). What is sent is *)
(* then whole because what is said holds no prompt: DialogueIs.            *)
(***************************************************************************)

(* What is said: messages of the user and of the model.                    *)
Spoken == {m \in Message : m.role # "system"}

LEMMA DialogueIs ==
  ASSUME NEW messages \in Seq(Message)
  PROVE  Dialogue(messages) \in Seq(Spoken)
  <1>0. PICK N \in Nat : N = Len(messages)
    BY LenProperties
  <1>1. \A n \in 1 .. N : messages[n] \in Message
    BY <1>0, ElementOfSeq
  <1>2. PICK S, base : S = Seq(Spoken) /\ base = <<>>
    OBVIOUS
  <1>3. base \in S
    BY <1>2, EmptySeq
  <1>4. PICK step : step = [n \in 1 .. N |-> [x \in S |->
                        IF messages[n].role = "system" THEN x ELSE Append(x, messages[n])]]
    OBVIOUS
  <1>5. step \in [1 .. N -> [S -> S]]
    <2>1. ASSUME NEW n \in 1 .. N, NEW x \in S
          PROVE  (IF messages[n].role = "system" THEN x ELSE Append(x, messages[n])) \in S
      <3>1. CASE messages[n].role = "system"
        BY <3>1
      <3>2. CASE messages[n].role # "system"
        <4>1. messages[n] \in Spoken
          BY <1>1, <3>2 DEF Spoken
        <4> QED BY <1>2, <3>2, <4>1, AppendProperties
      <3> QED BY <3>1, <3>2
    <2>2. ASSUME NEW n \in 1 .. N
          PROVE  [x \in S |-> IF messages[n].role = "system" THEN x ELSE Append(x, messages[n])] \in [S -> S]
      BY <2>1
    <2> QED BY <1>4, <2>2
  <1>6. PICK f : Recurses(f, N, S, base, step)
    BY <1>3, <1>5, Recursion
  <1>7. f \in [0 .. N -> S] /\ f[0] = base /\ \A n \in 1 .. N : f[n] = step[n][f[n - 1]]
    BY <1>6 DEF Recurses
  <1>8. ASSUME NEW n \in 1 .. N
        PROVE  /\ f[n] = IF messages[n].role = "system" THEN f[n - 1] ELSE Append(f[n - 1], messages[n])
               /\ n - 1 \in 0 .. N
    <2>1. n - 1 \in 0 .. N
      OBVIOUS
    <2>2. f[n - 1] \in S
      BY <1>7, <2>1
    <2> QED BY <1>4, <1>7, <2>1, <2>2
  <1> DEFINE said == CHOOSE g : g = [i \in 0 .. Len(messages) |->
                       IF i = 0 THEN <<>>
                       ELSE IF messages[i].role = "system" THEN g[i - 1] ELSE Append(g[i - 1], messages[i])]
  <1>9. f = [i \in 0 .. N |->
               IF i = 0 THEN <<>>
               ELSE IF messages[i].role = "system" THEN f[i - 1] ELSE Append(f[i - 1], messages[i])]
    <2>1. \A n \in 0 .. N : n # 0 => n \in 1 .. N
      OBVIOUS
    <2> QED BY <1>2, <1>7, <1>8, <2>1
  <1>10. said = [i \in 0 .. N |->
                   IF i = 0 THEN <<>>
                   ELSE IF messages[i].role = "system" THEN said[i - 1] ELSE Append(said[i - 1], messages[i])]
    BY <1>0, <1>9
  <1>11. Dialogue(messages) = said[N]
    BY <1>0 DEF Dialogue
  <1> HIDE DEF said
  <1>12. \A n \in 0 .. N : said[n] = f[n]
    <2> DEFINE T == {n \in 0 .. N : said[n] = f[n]}
    <2>1. 0 \in T
      BY <1>2, <1>7, <1>10
    <2>2. ASSUME NEW n \in 0 .. N - 1, n \in T PROVE n + 1 \in T
      <3>1. n + 1 \in 1 .. N /\ n + 1 \in 0 .. N /\ n + 1 - 1 = n
        OBVIOUS
      <3>2. said[n] = f[n]
        BY <2>2
      <3>3. said[n + 1] = IF messages[n + 1].role = "system" THEN said[n] ELSE Append(said[n], messages[n + 1])
        <4>1. PICK k \in 0 .. N : k = n + 1 /\ k # 0 /\ k - 1 = n
          BY <3>1
        <4>2. said[k] = IF k = 0 THEN <<>>
                        ELSE IF messages[k].role = "system" THEN said[k - 1] ELSE Append(said[k - 1], messages[k])
          BY <1>10
        <4> QED BY <4>1, <4>2
      <3>4. f[n + 1] = IF messages[n + 1].role = "system" THEN f[n] ELSE Append(f[n], messages[n + 1])
        BY <1>8, <3>1
      <3> QED BY <3>1, <3>2, <3>3, <3>4
    <2> HIDE DEF T
    <2>3. \A n \in 0 .. N : n \in T
      BY <2>1, <2>2, SetInduction
    <2> QED BY <2>3 DEF T
  <1> QED BY <1>2, <1>7, <1>11, <1>12

Talk == Seq(Message)

LEMMA DialogueIsTalk ==
  ASSUME NEW messages \in Talk
  PROVE  Dialogue(messages) \in Talk
  <1>1. Spoken \subseteq Message
    BY DEF Spoken
  <1>2. Dialogue(messages) \in Seq(Spoken)
    BY DialogueIs DEF Talk
  <1> QED BY <1>1, <1>2 DEF Talk
-----------------------------------------------------------------------------
(* A widget that has the session that is active, under an identifier of    *)
(* its own: what every slot leaves for rebuildSessionList to show.         *)
Kept(w) ==
  /\ w \in Widget
  /\ \A i, j \in DOMAIN w.sessions : w.sessions[i].id = w.sessions[j].id => i = j
  /\ ActiveRows(w) # {}

Agrees(w) == ActiveRows(w) = {w.row} /\ w.shown = Dialogue(getActiveMessages(w))

Shows(w) == Kept(w) /\ Agrees(w)

LEMMA ActiveIs ==
  ASSUME NEW w, Kept(w)
  PROVE  \E r \in 1 .. Len(w.sessions) :
           /\ ActiveRows(w) = {r} /\ w.sessions[r].id = w.active
           /\ getActiveMessages(w) = w.sessions[r].messages /\ getActiveMessages(w) \in Talk
           /\ w.sessions[r] \in Session
  <1>1. w.sessions \in Seq(Session) /\ DOMAIN w.sessions = 1 .. Len(w.sessions)
    <2>1. w.sessions \in Seq(Session)
      BY DEF Kept, Widget
    <2> QED BY <2>1, LenProperties
  <1>2. PICK r \in 1 .. Len(w.sessions) : w.sessions[r].id = w.active
    BY <1>1 DEF Kept, ActiveRows
  <1>3. ActiveRows(w) = {r}
    BY <1>1, <1>2 DEF Kept, ActiveRows
  <1>4. w.sessions[r] \in Session
    BY <1>1, ElementOfSeq
  <1>5. getActiveMessages(w) = w.sessions[r].messages
    BY <1>3 DEF getActiveMessages
  <1>6. w.sessions[r].messages \in Talk
    BY <1>4 DEF Session, Talk
  <1> QED BY <1>2, <1>3, <1>4, <1>5, <1>6

(* Another row, another dialogue: the store is what it was.                *)
LEMMA SameStore ==
  ASSUME NEW w, Kept(w), NEW v, v \in Widget, v.sessions = w.sessions, v.active = w.active
  PROVE  Kept(v) /\ ActiveRows(v) = ActiveRows(w) /\ getActiveMessages(v) = getActiveMessages(w)
  <1>1. ActiveRows(v) = ActiveRows(w)
    BY DEF ActiveRows
  <1> QED BY <1>1 DEF Kept, getActiveMessages

LEMMA LoadShows ==
  ASSUME NEW w, Kept(w), ActiveRows(w) = {w.row}
  PROVE  Shows(loadChatDisplayFromSession(w))
  <1>1. PICK d : d = Dialogue(getActiveMessages(w))
    OBVIOUS
  <1>2. d \in Seq(Message)
    BY <1>1, ActiveIs, DialogueIsTalk DEF Talk
  <1>3. PICK v : v = [w EXCEPT !.shown = d]
    OBVIOUS
  <1>4. /\ v \in Widget /\ v.sessions = w.sessions /\ v.active = w.active
        /\ v.row = w.row /\ v.shown = d
    BY <1>2, <1>3 DEF Kept, Widget
  <1>5. Kept(v) /\ ActiveRows(v) = ActiveRows(w) /\ getActiveMessages(v) = getActiveMessages(w)
    BY <1>4, SameStore
  <1>6. Shows(v)
    BY <1>1, <1>4, <1>5 DEF Shows, Agrees
  <1> QED BY <1>1, <1>3, <1>6 DEF loadChatDisplayFromSession

LEMMA RebuildShows ==
  ASSUME NEW w, Kept(w)
  PROVE  Shows(rebuildSessionList(w))
  <1>1. PICK r \in 1 .. Len(w.sessions) : ActiveRows(w) = {r}
    BY ActiveIs
  <1>2. PICK v : v = [w EXCEPT !.row = r]
    OBVIOUS
  <1>3. r \in Nat
    BY <1>1
  <1>4. v \in Widget /\ v.sessions = w.sessions /\ v.active = w.active /\ v.row = r
    BY <1>2, <1>3 DEF Kept, Widget
  <1>5. Kept(v) /\ ActiveRows(v) = {v.row}
    BY <1>1, <1>4, SameStore
  <1>6. Shows(loadChatDisplayFromSession(v))
    BY <1>5, LoadShows
  <1>7. rebuildSessionList(w) = loadChatDisplayFromSession(v)
    BY <1>1, <1>2 DEF rebuildSessionList
  <1> QED BY <1>6, <1>7
-----------------------------------------------------------------------------
(* A conversation stored: the store of a session is that one's alone.      *)
LEMMA StoreKeeps ==
  ASSUME NEW w, Kept(w), NEW messages \in Talk
  PROVE  /\ Kept(setActiveSessionMessages(w, messages))
         /\ getActiveMessages(setActiveSessionMessages(w, messages)) = messages
  <1>1. PICK r \in 1 .. Len(w.sessions) :
          /\ ActiveRows(w) = {r} /\ w.sessions[r].id = w.active /\ w.sessions[r] \in Session
    BY ActiveIs
  <1>2. PICK n \in Nat : n = Len(w.sessions)
    BY LenProperties DEF Kept, Widget
  <1>3. w.sessions \in Seq(Session) /\ DOMAIN w.sessions = 1 .. n /\ \A i \in 1 .. n : w.sessions[i] \in Session
    <2>1. w.sessions \in Seq(Session)
      BY DEF Kept, Widget
    <2> QED BY <1>2, <2>1, LenProperties, ElementOfSeq
  <1>4. PICK changed : changed = [w.sessions[r] EXCEPT !.messages = messages]
    OBVIOUS
  <1>5. changed \in Session /\ changed.id = w.sessions[r].id /\ changed.messages = messages
    BY <1>1, <1>4 DEF Session, Talk
  <1>6. PICK s : s = [i \in 1 .. n |-> IF i = r THEN changed ELSE w.sessions[i]]
    OBVIOUS
  <1>7. s \in Seq(Session) /\ DOMAIN s = 1 .. n /\ Len(s) = n
    BY <1>3, <1>5, <1>6
  <1>8. \A i \in 1 .. n : s[i].id = w.sessions[i].id
    BY <1>5, <1>6
  <1>9. PICK v : v = [w EXCEPT !.sessions = s]
    OBVIOUS
  <1>10. v \in Widget /\ v.sessions = s /\ v.active = w.active
    BY <1>7, <1>9 DEF Kept, Widget
  <1>11. ActiveRows(v) = {r}
    BY <1>1, <1>3, <1>7, <1>8, <1>10 DEF ActiveRows
  <1>12. Kept(v)
    BY <1>3, <1>7, <1>8, <1>10, <1>11 DEF Kept
  <1>13. getActiveMessages(v) = messages
    BY <1>2, <1>1, <1>5, <1>6, <1>10, <1>11 DEF getActiveMessages
  <1>14. s = [i \in DOMAIN w.sessions |->
                IF i \in ActiveRows(w) THEN [w.sessions[i] EXCEPT !.messages = messages] ELSE w.sessions[i]]
    BY <1>1, <1>3, <1>4, <1>6
  <1>15. v = setActiveSessionMessages(w, messages)
    BY <1>9, <1>14 DEF setActiveSessionMessages, Kept, Widget
  <1> QED BY <1>12, <1>13, <1>15

LEMMA StoredShows ==
  ASSUME NEW w, Kept(w), NEW messages \in Talk
  PROVE  Shows(rebuildSessionList(setActiveSessionMessages(w, messages)))
  BY StoreKeeps, RebuildShows

(* What is sent: the prompt, what was said, and the question.              *)
LEMMA ConversationIs ==
  ASSUME NEW w, Kept(w), NEW text \in Texts
  PROVE  Conversation(w, text) \in Talk /\ Whole(Conversation(w, text))
  <1>1. PICK d : d = Dialogue(getActiveMessages(w)) /\ d \in Seq(Spoken)
    BY ActiveIs, DialogueIs DEF Talk
  <1>2. PICK n \in Nat : n = Len(d)
    BY <1>1, LenProperties
  <1>3. d \in Seq(Message) /\ \A i \in 1 .. n : d[i] \in Message /\ d[i].role # "system"
    BY <1>1, <1>2, ElementOfSeq DEF Spoken
  <1>4. PICK system : system = SystemMessage(w) /\ system \in Message /\ system.role = "system"
    <2>1. w.prompt \in Prompts
      BY DEF Kept, Widget
    <2>2. SystemMessage(w) \in Message /\ SystemMessage(w).role = "system"
      BY <2>1 DEF SystemMessage, Message
    <2> QED BY <2>2
  <1>5. PICK user : user = [role |-> "user", text |-> text] /\ user \in Message /\ user.role = "user"
    <2>1. [role |-> "user", text |-> text] \in Message /\ [role |-> "user", text |-> text].role = "user"
      BY DEF Message
    <2> QED BY <2>1
  <1>6. PICK first : first = <<system>>
    OBVIOUS
  <1>7. first \in Seq(Message) /\ Len(first) = 1 /\ first[1] = system
    BY <1>4, <1>6
  <1>8. PICK s : s = first \o d
    OBVIOUS
  <1>9. s \in Seq(Message) /\ Len(s) = n + 1 /\ \A i \in 1 .. n + 1 : s[i] = IF i <= 1 THEN first[i] ELSE d[i - 1]
    <2>1. /\ first \o d \in Seq(Message) /\ Len(first \o d) = Len(first) + Len(d)
          /\ \A i \in 1 .. Len(first) + Len(d) :
               (first \o d)[i] = IF i <= Len(first) THEN first[i] ELSE d[i - Len(first)]
      BY <1>3, <1>7, ConcatProperties
    <2>2. Len(first) + Len(d) = n + 1
      BY <1>2, <1>7
    <2> QED BY <1>7, <1>8, <2>1, <2>2
  <1>10. PICK c : c = Append(s, user)
    OBVIOUS
  <1>11. c \in Seq(Message) /\ Len(c) = n + 2 /\ c[n + 2] = user /\ \A i \in 1 .. n + 1 : c[i] = s[i]
    BY <1>5, <1>9, <1>10, AppendProperties
  <1>12. \A i \in 1 .. n + 2 : c[i].role = "system" <=> i = 1
    <2>1. ASSUME NEW i \in 1 .. n + 2 PROVE c[i].role = "system" <=> i = 1
      <3>1. CASE i = 1
        BY <1>4, <1>7, <1>9, <1>11, <3>1
      <3>2. CASE i = n + 2
        BY <1>5, <1>11, <3>2
      <3>3. CASE i # 1 /\ i # n + 2
        <4>1. i \in 1 .. n + 1 /\ i - 1 \in 1 .. n /\ ~(i <= 1)
          BY <3>3
        <4>2. c[i] = d[i - 1]
          BY <1>9, <1>11, <4>1
        <4> QED BY <1>3, <3>3, <4>1, <4>2
      <3> QED BY <3>1, <3>2, <3>3
    <2> QED BY <2>1
  <1>13. DOMAIN c = 1 .. n + 2
    BY <1>11, LenProperties
  <1>14. Whole(c)
    BY <1>5, <1>11, <1>12, <1>13 DEF Whole
  <1>15. c = Conversation(w, text)
    BY <1>1, <1>4, <1>5, <1>6, <1>8, <1>10 DEF Conversation, ensureSystemMessage
  <1> QED BY <1>11, <1>14, <1>15 DEF Talk
-----------------------------------------------------------------------------
LEMMA SendShows ==
  ASSUME NEW w, Shows(w), NEW text \in Texts
  PROVE  Shows(onSendClicked(w, text))
  BY ConversationIs, StoredShows DEF Shows, onSendClicked

LEMMA AnswerShows ==
  ASSUME NEW w, Shows(w), NEW content \in Texts
  PROVE  Shows(addResponse(w, content))
  <1>1. getActiveMessages(w) \in Talk
    BY ActiveIs DEF Shows
  <1>2. [role |-> "assistant", text |-> content] \in Message
    BY DEF Message
  <1>3. Append(getActiveMessages(w), [role |-> "assistant", text |-> content]) \in Talk
    BY <1>1, <1>2, AppendProperties DEF Talk
  <1> QED BY <1>3, StoredShows DEF Shows, addResponse

LEMMA ClearShows ==
  ASSUME NEW w, Shows(w)
  PROVE  Shows(onClearHistoryClicked(w))
  <1>1. <<>> \in Talk
    BY EmptySeq DEF Talk
  <1> QED BY <1>1, StoredShows DEF Shows, onClearHistoryClicked

LEMMA NewShows ==
  ASSUME NEW w, Shows(w), NEW id \in SessionIds \ Ids(w)
  PROVE  Shows(onNewSessionClicked(w, id))
  <1>1. PICK n \in Nat : n = Len(w.sessions)
    BY LenProperties DEF Shows, Kept, Widget
  <1>2. w.sessions \in Seq(Session) /\ DOMAIN w.sessions = 1 .. n
    BY <1>1, LenProperties DEF Shows, Kept, Widget
  <1>3. PICK new : new = NewSession(id) /\ new \in Session /\ new.id = id
    <2>1. NewSession(id) \in Session /\ NewSession(id).id = id
      BY EmptySeq DEF NewSession, Session
    <2> QED BY <2>1
  <1>4. PICK s : s = Append(w.sessions, new)
    OBVIOUS
  <1>5. s \in Seq(Session) /\ Len(s) = n + 1 /\ s[n + 1] = new /\ \A i \in 1 .. n : s[i] = w.sessions[i]
    BY <1>1, <1>2, <1>3, <1>4, AppendProperties
  <1>6. DOMAIN s = 1 .. n + 1
    BY <1>5, LenProperties
  <1>7. PICK v : v = [w EXCEPT !.sessions = s, !.active = id]
    OBVIOUS
  <1>8. v \in Widget /\ v.sessions = s /\ v.active = id
    BY <1>5, <1>7 DEF Shows, Kept, Widget
  <1>9. \A i \in 1 .. n : s[i].id # id
    BY <1>2, <1>5 DEF Ids
  <1>10. \A i, j \in 1 .. n + 1 : s[i].id = s[j].id => i = j
    <2>1. ASSUME NEW i \in 1 .. n + 1, NEW j \in 1 .. n + 1, s[i].id = s[j].id PROVE i = j
      <3>1. CASE i = n + 1 /\ j = n + 1
        BY <3>1
      <3>2. CASE i = n + 1 /\ j # n + 1
        <4>1. j \in 1 .. n
          BY <3>2
        <4> QED BY <1>3, <1>5, <1>9, <2>1, <3>2, <4>1
      <3>3. CASE i # n + 1 /\ j = n + 1
        <4>1. i \in 1 .. n
          BY <3>3
        <4> QED BY <1>3, <1>5, <1>9, <2>1, <3>3, <4>1
      <3>4. CASE i # n + 1 /\ j # n + 1
        <4>1. i \in 1 .. n /\ j \in 1 .. n
          BY <3>4
        <4> QED BY <1>2, <1>5, <2>1, <4>1 DEF Shows, Kept
      <3> QED BY <3>1, <3>2, <3>3, <3>4
    <2> QED BY <2>1
  <1>11. n + 1 \in ActiveRows(v)
    BY <1>3, <1>5, <1>6, <1>8 DEF ActiveRows
  <1>12. Kept(v)
    BY <1>6, <1>8, <1>10, <1>11 DEF Kept
  <1>13. onNewSessionClicked(w, id) = rebuildSessionList(v)
    BY <1>3, <1>4, <1>7 DEF onNewSessionClicked
  <1> QED BY <1>12, <1>13, RebuildShows

LEMMA ChangeShows ==
  ASSUME NEW w, Shows(w), NEW row \in DOMAIN w.sessions
  PROVE  Shows(onSessionChanged(w, row))
  <1>1. w \in Widget /\ w.sessions \in Seq(Session) /\ DOMAIN w.sessions = 1 .. Len(w.sessions) /\ Len(w.sessions) \in Nat
    BY LenProperties DEF Shows, Kept, Widget
  <1>2. w.sessions[row] \in Session /\ row \in Nat
    BY <1>1, ElementOfSeq
  <1>3. PICK id \in SessionIds : id = w.sessions[row].id
    BY <1>2 DEF Session
  <1>4. PICK v : v = [w EXCEPT !.row = row, !.active = id]
    OBVIOUS
  <1>5. v \in Widget /\ v.sessions = w.sessions /\ v.active = id /\ v.row = row
    BY <1>1, <1>2, <1>4 DEF Widget
  <1>6. ActiveRows(v) = {row}
    BY <1>3, <1>5 DEF ActiveRows, Shows, Kept
  <1>7. Kept(v)
    BY <1>5, <1>6 DEF Shows, Kept
  <1>8. Shows(loadChatDisplayFromSession(v))
    BY <1>5, <1>6, <1>7, LoadShows
  <1> QED BY <1>3, <1>4, <1>8 DEF onSessionChanged

LEMMA DeleteShows ==
  ASSUME NEW w, Shows(w)
  PROVE  Shows(onDeleteSessionClicked(w))
  <1>1. CASE Len(w.sessions) <= 1 \/ w.row = 0
    BY <1>1 DEF onDeleteSessionClicked
  <1>2. CASE ~(Len(w.sessions) <= 1 \/ w.row = 0)
    <2>1. PICK n \in Nat : n = Len(w.sessions)
      BY LenProperties DEF Shows, Kept, Widget
    <2>2. w.sessions \in Seq(Session) /\ DOMAIN w.sessions = 1 .. n /\ \A i \in 1 .. n : w.sessions[i] \in Session
      BY <2>1, LenProperties, ElementOfSeq DEF Shows, Kept, Widget
    <2>3. PICK r \in 1 .. n : r = w.row /\ w.sessions[r].id = w.active
      BY <2>1, ActiveIs DEF Shows, Agrees
    <2>4. PICK left : left = [i \in 1 .. n - 1 |-> IF i < r THEN w.sessions[i] ELSE w.sessions[i + 1]]
      OBVIOUS
    <2>5. PICK m \in Nat \ {0} : m = n - 1
      BY <1>2, <2>1
    <2>6. \A i \in 1 .. m : i \in 1 .. n /\ i + 1 \in 1 .. n
      BY <2>5
    <2>7. left \in Seq(Session) /\ DOMAIN left = 1 .. m /\ Len(left) = m
      <3>1. left = [i \in 1 .. m |-> IF i < r THEN w.sessions[i] ELSE w.sessions[i + 1]]
        BY <2>4, <2>5
      <3>2. \A i \in 1 .. m : left[i] \in Session
        BY <2>2, <2>6, <3>1
      <3> QED BY <3>1, <3>2
    <2>8. \A i, j \in 1 .. m : left[i].id = left[j].id => i = j
      <3>1. ASSUME NEW i \in 1 .. m, NEW j \in 1 .. m, left[i].id = left[j].id PROVE i = j
        <4>1. PICK k \in 1 .. n : k = (IF i < r THEN i ELSE i + 1) /\ left[i] = w.sessions[k]
          BY <2>4, <2>5, <2>6
        <4>2. PICK l \in 1 .. n : l = (IF j < r THEN j ELSE j + 1) /\ left[j] = w.sessions[l]
          BY <2>4, <2>5, <2>6
        <4>3. k = l
          BY <2>2, <3>1, <4>1, <4>2 DEF Shows, Kept
        <4> QED BY <4>1, <4>2, <4>3
      <3> QED BY <3>1
    <2>9. PICK newRow \in 1 .. m : newRow = IF r > m THEN m ELSE r
      OBVIOUS
    <2>10. PICK id \in SessionIds : id = left[newRow].id
      <3>1. left[newRow] \in Session
        BY <2>7, ElementOfSeq
      <3> QED BY <3>1 DEF Session
    <2>11. PICK v : v = [w EXCEPT !.sessions = left, !.active = id]
      OBVIOUS
    <2>12. v \in Widget /\ v.sessions = left /\ v.active = id
      BY <2>7, <2>10, <2>11 DEF Shows, Kept, Widget
    <2>13. newRow \in ActiveRows(v)
      BY <2>7, <2>10, <2>12 DEF ActiveRows
    <2>14. Kept(v)
      BY <2>7, <2>8, <2>12, <2>13 DEF Kept
    <2>15. left = Without(w.sessions, w.row)
      BY <2>1, <2>3, <2>4 DEF Without
    <2>16. onDeleteSessionClicked(w) = rebuildSessionList(v)
      BY <1>2, <2>3, <2>7, <2>9, <2>10, <2>11, <2>15 DEF onDeleteSessionClicked
    <2> QED BY <2>14, <2>16, RebuildShows
  <1> QED BY <1>1, <1>2

LEMMA PromptShows ==
  ASSUME NEW w, Shows(w), NEW prompt \in Prompts
  PROVE  Shows([w EXCEPT !.prompt = prompt])
  <1>1. PICK v : v = [w EXCEPT !.prompt = prompt]
    OBVIOUS
  <1>2. /\ v \in Widget /\ v.sessions = w.sessions /\ v.active = w.active
        /\ v.row = w.row /\ v.shown = w.shown
    BY <1>1 DEF Shows, Kept, Widget
  <1>3. Kept(v) /\ ActiveRows(v) = ActiveRows(w) /\ getActiveMessages(v) = getActiveMessages(w)
    BY <1>2, SameStore DEF Shows
  <1> QED BY <1>1, <1>2, <1>3 DEF Shows, Agrees

LEMMA LoadConfigShows ==
  ASSUME NEW w, Shows(w)
  PROVE  Shows(loadConfig(w))
  <1>1. PICK v : v = [sessions |-> w.sessions, active |-> w.active, row |-> 0,
                      prompt |-> w.prompt, shown |-> <<>>]
    OBVIOUS
  <1>2. <<>> \in Seq(Message)
    BY EmptySeq
  <1>3. v \in Widget /\ v.sessions = w.sessions /\ v.active = w.active
    BY <1>1, <1>2 DEF Shows, Kept, Widget
  <1>4. Kept(v)
    BY <1>3, SameStore DEF Shows
  <1> QED BY <1>1, <1>4, RebuildShows DEF loadConfig

LEMMA FirstShows ==
  ASSUME NEW id \in SessionIds, NEW prompt \in Prompts
  PROVE  Shows(ChatBaseWidget(id, prompt))
  <1>1. PICK new : new = NewSession(id) /\ new \in Session /\ new.id = id
    <2>1. NewSession(id) \in Session /\ NewSession(id).id = id
      BY EmptySeq DEF NewSession, Session
    <2> QED BY <2>1
  <1>2. PICK s : s = <<new>>
    OBVIOUS
  <1>3. s \in Seq(Session) /\ DOMAIN s = {1} /\ s[1] = new
    BY <1>1, <1>2
  <1>4. PICK v : v = [sessions |-> s, active |-> id, row |-> 0, prompt |-> prompt, shown |-> <<>>]
    OBVIOUS
  <1>5. <<>> \in Seq(Message)
    BY EmptySeq
  <1>6. v \in Widget /\ v.sessions = s /\ v.active = id
    BY <1>3, <1>4, <1>5 DEF Widget
  <1>7. 1 \in ActiveRows(v)
    BY <1>1, <1>3, <1>6 DEF ActiveRows
  <1>8. Kept(v)
    BY <1>3, <1>6, <1>7 DEF Kept
  <1> QED BY <1>1, <1>2, <1>4, <1>8, RebuildShows DEF ChatBaseWidget
-----------------------------------------------------------------------------
Questions == {messages \in Talk : Whole(messages)}

Request == [messages : Questions, from : {"chat", "input"}, based : BOOLEAN, overtaken : BOOLEAN]

ChatsAgree == chat \in [Nodes -> Widget] /\ \A n \in Nodes : Shows(chat[n])

PortsHold ==
  /\ out["llama"] \in {None} \cup {<<text>> : text \in Texts}
  /\ out["console"] \in {None} \cup {<<messages>> : messages \in Questions}
  /\ out = [n \in Nodes |-> out[n]]

RequestsStand == requests \in Seq(Request) /\ m_processingInput \in BOOLEAN /\ BusyUntilTheFirstReply

ChatInv == ChatTypeOK /\ ChatsAgree /\ PortsHold /\ RequestsStand /\ CaptionsFollow

LEMMA ChatInvSuffices ==
  ChatInv => ChatTypeOK /\ DisplayIsActive /\ RequestsAreSound
  <1> SUFFICES ASSUME ChatInv PROVE ChatTypeOK /\ DisplayIsActive /\ RequestsAreSound
    OBVIOUS
  <1>1. DisplayIsActive
    BY DEF ChatInv, ChatsAgree, Shows, Agrees, DisplayIsActive
  <1>2. requests \in Seq(Request) /\ DOMAIN requests = 1 .. Len(requests)
    BY LenProperties DEF ChatInv, RequestsStand
  <1>3. RequestsAreWhole
    <2>1. ASSUME NEW i \in DOMAIN requests PROVE Whole(requests[i].messages)
      <3>1. requests[i] \in Request
        BY <1>2, ElementOfSeq
      <3> QED BY <3>1 DEF Request, Questions
    <2> QED BY <2>1 DEF RequestsAreWhole
  <1> QED BY <1>1, <1>3 DEF ChatInv, RequestsStand, RequestsAreSound

LEMMA ChatSet ==
  ASSUME ChatsAgree, NEW n \in Nodes, NEW w, Shows(w), chat' = [chat EXCEPT ![n] = w]
  PROVE  ChatsAgree'
  <1>1. w \in Widget
    BY DEF Shows, Kept
  <1>2. chat' \in [Nodes -> Widget] /\ \A m \in Nodes : chat'[m] = IF m = n THEN w ELSE chat[m]
    BY <1>1 DEF ChatsAgree
  <1>3. \A m \in Nodes : Shows(chat'[m])
    BY <1>2 DEF ChatsAgree
  <1> QED BY <1>2, <1>3 DEF ChatsAgree

LEMMA ChatsSet ==
  ASSUME NEW f, chat' = [n \in Nodes |-> f[n]], \A n \in Nodes : Shows(f[n])
  PROVE  ChatsAgree'
  <1>1. \A n \in Nodes : chat'[n] = f[n]
    OBVIOUS
  <1>2. \A n \in Nodes : f[n] \in Widget
    BY DEF Shows, Kept
  <1> QED BY <1>1, <1>2 DEF ChatsAgree

LEMMA NothingUnderWay == DOMAIN <<>> = {}
  <1>1. <<>> \in Seq(Request) /\ Len(<<>>) = 0
    BY EmptySeq
  <1>2. DOMAIN <<>> = 1 .. 0
    BY <1>1, LenProperties
  <1> QED BY <1>2

(* A request that is sent raises the flag, and no reply has overtaken it.  *)
LEMMA SendStands ==
  ASSUME RequestsStand, link.based \in BOOLEAN, NEW messages \in Questions,
         NEW from \in {"chat", "input"}, sendToModel(messages, from)
  PROVE  RequestsStand'
  <1>1. CASE link.connected
    <2>1. PICK r : r = [messages |-> messages, from |-> from, based |-> link.based, overtaken |-> FALSE]
      OBVIOUS
    <2>2. r \in Request /\ ~r.overtaken
      BY <2>1 DEF Request
    <2>3. requests' = Append(requests, r) /\ m_processingInput' = TRUE
      BY <1>1, <2>1 DEF sendToModel
    <2>4. PICK n \in Nat : n = Len(requests)
      BY LenProperties DEF RequestsStand
    <2>5. requests' \in Seq(Request) /\ Len(requests') = n + 1 /\ requests'[n + 1] = r
      BY <2>2, <2>3, <2>4, AppendProperties DEF RequestsStand
    <2>6. n + 1 \in DOMAIN requests'
      BY <2>4, <2>5, LenProperties
    <2> QED BY <2>2, <2>3, <2>5, <2>6 DEF RequestsStand, BusyUntilTheFirstReply
  <1>2. CASE ~link.connected
    BY <1>2 DEF sendToModel, RequestsStand, BusyUntilTheFirstReply
  <1> QED BY <1>1, <1>2

LEMMA InputStands ==
  ASSUME RequestsStand, link.based \in BOOLEAN, NEW data,
         data \in {None} \cup {<<messages>> : messages \in Questions}, setInData(data)
  PROVE  RequestsStand'
  <1>1. CASE data = None \/ m_processingInput
    BY <1>1 DEF setInData, RequestsStand, BusyUntilTheFirstReply
  <1>2. CASE ~(data = None \/ m_processingInput)
    <2>1. data[1] \in Questions
      BY <1>2
    <2>2. sendToModel(data[1], "input")
      BY <1>2 DEF setInData
    <2> QED BY <2>1, <2>2, SendStands
  <1> QED BY <1>1, <1>2

LEMMA AnsweredStands ==
  ASSUME RequestsStand, NEW i \in DOMAIN requests, requests' = Answered(i), m_processingInput' = FALSE
  PROVE  RequestsStand'
  <1>1. PICK n \in Nat : n = Len(requests)
    BY LenProperties DEF RequestsStand
  <1>2. DOMAIN requests = 1 .. n /\ \A j \in 1 .. n : requests[j] \in Request
    BY <1>1, LenProperties, ElementOfSeq DEF RequestsStand
  <1>3. i \in 1 .. n /\ n - 1 \in Nat
    BY <1>2
  <1>4. \A j \in 1 .. n - 1 : j \in 1 .. n /\ j + 1 \in 1 .. n
    BY <1>3
  <1>5. PICK late : late = [j \in 1 .. n |-> [requests[j] EXCEPT !.overtaken = TRUE]]
    OBVIOUS
  <1>6. \A j \in 1 .. n : late[j] \in Request /\ late[j].overtaken
    BY <1>2, <1>5 DEF Request
  <1>7. requests' = [j \in 1 .. n - 1 |-> IF j < i THEN late[j] ELSE late[j + 1]]
    BY <1>1, <1>4, <1>5 DEF Answered, Overtaken
  <1>8. \A j \in 1 .. n - 1 : requests'[j] \in Request /\ requests'[j].overtaken
    BY <1>4, <1>6, <1>7
  <1>9. requests' \in Seq(Request) /\ DOMAIN requests' = 1 .. n - 1
    BY <1>3, <1>7, <1>8
  <1> QED BY <1>8, <1>9 DEF RequestsStand, BusyUntilTheFirstReply

LEMMA InitChatInv == ChatInit => ChatInv
  <1> SUFFICES ASSUME ChatInit PROVE ChatInv
    OBVIOUS
  <1>1. PICK id \in SessionIds, prompt \in Prompts : chat = [n \in Nodes |-> ChatBaseWidget(id, prompt)]
    BY DEF ChatInit
  <1>2. Shows(ChatBaseWidget(id, prompt))
    BY FirstShows
  <1>3. ChatsAgree
    <2>1. ChatBaseWidget(id, prompt) \in Widget
      BY <1>2 DEF Shows, Kept
    <2> QED BY <1>1, <1>2, <2>1 DEF ChatsAgree
  <1>4. PortsHold
    BY DEF ChatInit, PortsHold, Nodes
  <1>5. RequestsStand
    BY EmptySeq, NothingUnderWay DEF ChatInit, RequestsStand, BusyUntilTheFirstReply
  <1>6. CaptionsFollow
    BY DEF ChatInit, CaptionsFollow, Disconnected, NoServer
  <1>7. ChatTypeOK
    BY <1>3 DEF ChatInit, ChatTypeOK, ChatsAgree, Disconnected, NoServer
  <1> QED BY <1>3, <1>4, <1>5, <1>6, <1>7 DEF ChatInv

(* Connection and server, which the chats and the requests know nothing of.*)
LinkTypeOK ==
  /\ health \in BOOLEAN
  /\ link \in [connected : BOOLEAN, based : BOOLEAN, caption : {"connect", "disconnect"}, enabled : BOOLEAN]
  /\ server \in [process : Live \cup {"none", "over"}, caption : {"start", "stop"}]

LEMMA LinkSteps ==
  ASSUME LinkTypeOK, CaptionsFollow,
         \/ onConnectClicked \/ \E ok \in BOOLEAN : checkHealth(ok)
         \/ StartServer \/ StopServer \/ ServerStarts \/ FailsToStart
         \/ \E stream \in {"stdout", "stderr"} : ServerSpeaks(stream)
         \/ ServerFinished
  PROVE  /\ LinkTypeOK' /\ CaptionsFollow'
         /\ UNCHANGED <<chat, out, wires, requests, m_processingInput>>
  <1> USE DEF LinkTypeOK, CaptionsFollow, Live, Offline, Online
  <1>1. CASE onConnectClicked
    BY <1>1 DEF onConnectClicked
  <1>2. ASSUME NEW ok \in BOOLEAN, checkHealth(ok)
        PROVE  /\ LinkTypeOK' /\ CaptionsFollow'
               /\ UNCHANGED <<chat, out, wires, requests, m_processingInput>>
    BY <1>2 DEF checkHealth
  <1>3. CASE StartServer
    BY <1>3 DEF StartServer
  <1>4. CASE StopServer
    BY <1>4 DEF StopServer
  <1>5. CASE ServerStarts
    BY <1>5 DEF ServerStarts
  <1>6. CASE FailsToStart
    BY <1>6 DEF FailsToStart
  <1>7. ASSUME NEW stream \in {"stdout", "stderr"}, ServerSpeaks(stream)
        PROVE  /\ LinkTypeOK' /\ CaptionsFollow'
               /\ UNCHANGED <<chat, out, wires, requests, m_processingInput>>
    BY <1>7 DEF ServerSpeaks
  <1>8. CASE ServerFinished
    BY <1>8 DEF ServerFinished, Ended
  <1> QED BY <1>1, <1>2, <1>3, <1>4, <1>5, <1>6, <1>7, <1>8

LEMMA NextChatInv == ChatInv /\ [ChatNext]_chatVars => ChatInv'
  <1> SUFFICES ASSUME ChatInv, [ChatNext]_chatVars PROVE ChatInv'
    OBVIOUS
  <1>0. /\ ChatTypeOK /\ ChatsAgree /\ PortsHold /\ RequestsStand /\ CaptionsFollow
        /\ LinkTypeOK /\ link.based \in BOOLEAN /\ wires \subseteq {"toModel", "toConsole"}
    BY DEF ChatInv, ChatTypeOK, LinkTypeOK
  <1>1. ASSUME ChatsAgree', PortsHold', RequestsStand', wires' \subseteq {"toModel", "toConsole"},
               UNCHANGED <<link, health, server>>
        PROVE  ChatInv'
    <2>1. CaptionsFollow'
      BY <1>0, <1>1 DEF CaptionsFollow
    <2>2. LinkTypeOK'
      BY <1>0, <1>1 DEF LinkTypeOK
    <2>3. ChatTypeOK'
      BY <1>1, <2>2 DEF ChatTypeOK, ChatsAgree, RequestsStand, LinkTypeOK
    <2> QED BY <1>1, <2>1, <2>3 DEF ChatInv
  <1>2. ASSUME UNCHANGED <<chat, out, wires, requests, m_processingInput>>
        PROVE  ChatsAgree' /\ PortsHold' /\ RequestsStand' /\ wires' \subseteq {"toModel", "toConsole"}
    BY <1>0, <1>2 DEF ChatsAgree, PortsHold, RequestsStand, BusyUntilTheFirstReply
  <1>3. CASE UNCHANGED chatVars
    BY <1>1, <1>2, <1>3 DEF chatVars
  <1>4. ASSUME NEW text \in Texts, onLocalChatSend(text)
        PROVE  ChatInv'
    <2>1. Shows(chat["llama"]) /\ "llama" \in Nodes
      BY <1>0 DEF ChatsAgree, Nodes
    <2>2. PICK w : w = onSendClicked(chat["llama"], text) /\ Shows(w)
      BY <2>1, SendShows
    <2>3. chat' = [chat EXCEPT !["llama"] = w]
      BY <1>4, <2>2 DEF onLocalChatSend
    <2>4. ChatsAgree'
      BY <1>0, <2>1, <2>2, <2>3, ChatSet
    <2>5. Conversation(chat["llama"], text) \in Questions
      BY <2>1, ConversationIs DEF Shows, Questions
    <2>6. sendToModel(Conversation(chat["llama"], text), "chat")
      BY <1>4 DEF onLocalChatSend
    <2>7. RequestsStand'
      BY <1>0, <2>5, <2>6, SendStands
    <2> QED BY <1>0, <1>1, <1>4, <2>4, <2>7 DEF onLocalChatSend, PortsHold
  <1>5. ASSUME NEW text \in Texts, onConsoleSend(text)
        PROVE  ChatInv'
    <2>1. Shows(chat["console"]) /\ "console" \in Nodes
      BY <1>0 DEF ChatsAgree, Nodes
    <2>2. PICK w : w = onSendClicked(chat["console"], text) /\ Shows(w)
      BY <2>1, SendShows
    <2>3. chat' = [chat EXCEPT !["console"] = w]
      BY <1>5, <2>2 DEF onConsoleSend
    <2>4. ChatsAgree'
      BY <1>0, <2>1, <2>2, <2>3, ChatSet
    <2>5. PICK data : data = <<Conversation(chat["console"], text)>>
      OBVIOUS
    <2>6. Conversation(chat["console"], text) \in Questions
      BY <2>1, ConversationIs DEF Shows, Questions
    <2>7. PICK given : given = IF "toModel" \in wires THEN data ELSE None
      OBVIOUS
    <2>8. setInData(given) /\ out' = [out EXCEPT !["console"] = data]
      BY <1>5, <2>5, <2>7 DEF onConsoleSend
    <2>9. given \in {None} \cup {<<messages>> : messages \in Questions}
      BY <2>5, <2>6, <2>7
    <2>10. RequestsStand'
      BY <1>0, <2>8, <2>9, InputStands
    <2>11. PortsHold'
      BY <1>0, <2>5, <2>6, <2>8 DEF PortsHold, Nodes
    <2> QED BY <1>0, <1>1, <1>5, <2>4, <2>10, <2>11 DEF onConsoleSend
  <1>6. ASSUME NEW i \in DOMAIN requests, NEW content \in Texts, ReplyWith(i, content)
        PROVE  ChatInv'
    <2>1. PICK f : f = [n \in Nodes |->
             IF n = "console" THEN Received(chat[n], IF "toConsole" \in wires THEN <<content>> ELSE None)
             ELSE IF requests[i].from = "chat" THEN addResponse(chat[n], content) ELSE chat[n]]
      OBVIOUS
    <2>2. ASSUME NEW n \in Nodes PROVE Shows(f[n])
      <3>1. Shows(chat[n])
        BY <1>0 DEF ChatsAgree
      <3>2. Shows(addResponse(chat[n], content))
        BY <3>1, AnswerShows
      <3>3. CASE n = "console" /\ "toConsole" \in wires
        BY <2>1, <3>2, <3>3 DEF Received, None
      <3>4. CASE n = "console" /\ "toConsole" \notin wires
        BY <2>1, <3>1, <3>4 DEF Received
      <3>5. CASE n # "console"
        BY <2>1, <3>1, <3>2, <3>5
      <3> QED BY <3>3, <3>4, <3>5
    <2>3. chat' = f /\ f = [n \in Nodes |-> f[n]]
      BY <1>6, <2>1 DEF ReplyWith
    <2>4. ChatsAgree'
      BY <2>2, <2>3, ChatsSet
    <2>5. requests' = Answered(i) /\ m_processingInput' = FALSE /\ out' = [out EXCEPT !["llama"] = <<content>>]
      BY <1>6 DEF ReplyWith
    <2>6. RequestsStand'
      BY <1>0, <2>5, AnsweredStands
    <2>7. PortsHold'
      BY <1>0, <2>5 DEF PortsHold, Nodes
    <2> QED BY <1>0, <1>1, <1>6, <2>4, <2>6, <2>7 DEF ReplyWith
  <1>7. ASSUME NEW i \in DOMAIN requests, ReplyWithout(i)
        PROVE  ChatInv'
    <2>1. RequestsStand'
      BY <1>0, <1>7, AnsweredStands DEF ReplyWithout
    <2> QED BY <1>0, <1>1, <1>7, <2>1 DEF ReplyWithout, ChatsAgree, PortsHold
  <1>8. CASE WireToModel
    <2>1. setInData(out["console"])
      BY <1>8 DEF WireToModel
    <2>2. RequestsStand'
      BY <1>0, <2>1, InputStands DEF PortsHold
    <2> QED BY <1>0, <1>1, <1>8, <2>2 DEF WireToModel, ChatsAgree, PortsHold
  <1>9. CASE WireToConsole
    <2>1. Shows(chat["console"]) /\ "console" \in Nodes
      BY <1>0 DEF ChatsAgree, Nodes
    <2>2. PICK data : data = out["llama"] /\ data \in {None} \cup {<<text>> : text \in Texts}
      BY <1>0 DEF PortsHold
    <2>3. PICK w : w = Received(chat["console"], data) /\ Shows(w)
      <3>1. CASE data = None
        BY <2>1, <3>1 DEF Received
      <3>2. CASE data # None
        <4>1. data[1] \in Texts
          BY <2>2, <3>2
        <4> QED BY <2>1, <3>2, <4>1, AnswerShows DEF Received
      <3> QED BY <3>1, <3>2
    <2>4. chat' = [chat EXCEPT !["console"] = w]
      BY <1>9, <2>2, <2>3 DEF WireToConsole
    <2>5. ChatsAgree'
      BY <1>0, <2>1, <2>3, <2>4, ChatSet
    <2> QED BY <1>0, <1>1, <1>9, <2>5 DEF WireToConsole, PortsHold, RequestsStand, BusyUntilTheFirstReply
  <1>10. ASSUME NEW wire \in wires, Unwire(wire)
         PROVE  ChatInv'
    BY <1>0, <1>1, <1>10 DEF Unwire, ChatsAgree, PortsHold, RequestsStand, BusyUntilTheFirstReply
  <1>11. ASSUME NEW n \in Nodes, EditChat(n)
         PROVE  ChatInv'
    <2>1. Shows(chat[n])
      BY <1>0 DEF ChatsAgree
    <2>2. PICK w \in Edits(chat[n]) : chat' = [chat EXCEPT ![n] = w]
      BY <1>11 DEF EditChat
    <2>3. Shows(w)
      BY <2>1, <2>2, NewShows, ChangeShows, PromptShows, DeleteShows, ClearShows DEF Edits
    <2>4. ChatsAgree'
      BY <1>0, <2>2, <2>3, ChatSet
    <2> QED BY <1>0, <1>1, <1>11, <2>4 DEF EditChat, PortsHold, RequestsStand, BusyUntilTheFirstReply
  <1>12. CASE Reopen
    <2>1. PICK f : f = [n \in Nodes |-> loadConfig(chat[n])]
      OBVIOUS
    <2>2. \A n \in Nodes : Shows(f[n])
      BY <1>0, <2>1, LoadConfigShows DEF ChatsAgree
    <2>3. chat' = f /\ f = [n \in Nodes |-> f[n]]
      BY <1>12, <2>1 DEF Reopen
    <2>4. ChatsAgree'
      BY <2>2, <2>3, ChatsSet
    <2>5. PortsHold'
      BY <1>12 DEF Reopen, PortsHold, Nodes
    <2>6. RequestsStand'
      BY <1>12, EmptySeq, NothingUnderWay DEF Reopen, RequestsStand, BusyUntilTheFirstReply
    <2>7. CaptionsFollow' /\ LinkTypeOK'
      BY <1>12 DEF Reopen, CaptionsFollow, LinkTypeOK, Disconnected, NoServer
    <2>8. ChatTypeOK'
      BY <1>0, <1>12, <2>4, <2>6, <2>7 DEF Reopen, ChatTypeOK, ChatsAgree, RequestsStand, LinkTypeOK
    <2> QED BY <2>4, <2>5, <2>6, <2>7, <2>8 DEF ChatInv
  <1>13. CASE \/ onConnectClicked \/ \E ok \in BOOLEAN : checkHealth(ok)
              \/ StartServer \/ StopServer \/ ServerStarts \/ FailsToStart
              \/ \E stream \in {"stdout", "stderr"} : ServerSpeaks(stream)
              \/ ServerFinished
    <2>1. LinkTypeOK' /\ CaptionsFollow' /\ UNCHANGED <<chat, out, wires, requests, m_processingInput>>
      BY <1>0, <1>13, LinkSteps
    <2>2. ChatsAgree' /\ PortsHold' /\ RequestsStand' /\ wires' \subseteq {"toModel", "toConsole"}
      BY <1>2, <2>1
    <2>3. ChatTypeOK'
      BY <2>1, <2>2 DEF ChatTypeOK, ChatsAgree, RequestsStand, LinkTypeOK
    <2> QED BY <2>1, <2>2, <2>3 DEF ChatInv
  <1> QED BY <1>3, <1>4, <1>5, <1>6, <1>7, <1>8, <1>9, <1>10, <1>11, <1>12, <1>13 DEF ChatNext

(* Both chats are as their slots left them, and the ports, the requests and *)
(* the server are in step with them.                                       *)
THEOREM ChatInvariant == ChatSpec => []ChatInv
  BY InitChatInv, NextChatInv, PTL DEF ChatSpec

(* Chats, ports, the connection and the server have their types.           *)
THEOREM ChatTypes == ChatSpec => []ChatTypeOK
  <1>1. ChatInv => ChatTypeOK
    BY ChatInvSuffices
  <1> QED BY <1>1, ChatInvariant, PTL

(* Whatever the user does to the sessions and whenever an answer comes,    *)
(* the row, the display and the store are those of one session: the slots  *)
(* of ChatBaseWidget.                                                      *)
THEOREM DisplayStaysActive == ChatSpec => []DisplayIsActive
  <1>1. ChatInv => DisplayIsActive
    BY ChatInvSuffices
  <1> QED BY <1>1, ChatInvariant, PTL

(* What is sent to the model is one whole conversation, the flag that      *)
(* refuses the input stands from a request to the first reply that comes   *)
(* after it, and the caption of each button is what the connection and the *)
(* server made it, "start" over a server that starts or was told to stop   *)
(* included: LLamaModelDataModel, for chats of any length.                 *)
THEOREM RequestsStaySound == ChatSpec => []RequestsAreSound
  <1>1. ChatInv => RequestsAreSound
    BY ChatInvSuffices
  <1> QED BY <1>1, ChatInvariant, PTL
-----------------------------------------------------------------------------
(***************************************************************************)
(* Theorems about FrameSampler, for any settings of the spin boxes.        *)
(*                                                                         *)
(* The counter is the number of frames since the settings changed, and the *)
(* frames that passed are its quotient; or each of them took an Interval that *)
(* the timer no longer counts.                                             *)
(***************************************************************************)

SamplerInv ==
  /\ SamplerTypeOK
  /\ gate.counter <= sampled.frames /\ gate.elapsed <= sampled.ticks
  /\ sampled.passed <= sampled.frames
  /\ gate.mode = "everyNth" => gate.counter = sampled.frames /\ sampled.passed = sampled.frames \div gate.everyN
  /\ gate.mode = "maxFps" => sampled.passed * Interval + gate.elapsed <= sampled.ticks

(* One frame more starts a new round of n frames or does not.              *)
LEMMA NextRound ==
  ASSUME NEW f \in Nat, NEW n \in Nat \ {0}
  PROVE  (f + 1) \div n = IF (f + 1) % n = 0 THEN f \div n + 1 ELSE f \div n
  <1>1. PICK q \in Int, r \in 0 .. n - 1 : q = f \div n /\ r = f % n /\ f = n * q + r
    OBVIOUS
  <1>2. PICK p \in Int, t \in 0 .. n - 1 : p = (f + 1) \div n /\ t = (f + 1) % n /\ f + 1 = n * p + t
    OBVIOUS
  <1>3. n * (p - q) = r + 1 - t
    <2>1. PICK a \in Int, b \in Int : a = n * p /\ b = n * q
      OBVIOUS
    <2>2. n * (p - q) = a - b
      BY <2>1
    <2>3. f = b + r /\ f + 1 = a + t
      BY <1>1, <1>2, <2>1
    <2>4. a - b = r + 1 - t
      BY <2>3
    <2> QED BY <2>2, <2>4
  <1>4. p - q \in {0, 1}
    <2>1. PICK d \in Int : d = p - q
      OBVIOUS
    <2>2. n * d = r + 1 - t
      BY <1>3, <2>1
    <2>3. ~(d < 0)
      BY <2>2
    <2>4. ~(d > 1)
      BY <2>2
    <2> QED BY <2>1, <2>3, <2>4
  <1>5. CASE p = q
    BY <1>1, <1>2, <1>3, <1>5
  <1>6. CASE p = q + 1
    BY <1>1, <1>2, <1>3, <1>6
  <1> QED BY <1>4, <1>5, <1>6

LEMMA Quotients ==
  /\ \A fps \in MaxFps : Second \div fps \in Nat
  /\ \A n \in EveryN : n \in Nat \ {0} /\ 0 \div n = 0
  /\ 0 \in 0 .. MaxFrames /\ 0 \in 0 .. MaxTicks
  <1>1. \A a \in Nat, b \in Nat \ {0} : a \div b \in Nat /\ 0 \div b = 0
    OBVIOUS
  <1>2. /\ EveryN \subseteq Nat \ {0} /\ MaxFps \subseteq Nat \ {0} /\ Second \in Nat
        /\ MaxFrames \in Nat /\ MaxTicks \in Nat
    BY FrameSamplerAssumption
  <1>3. 0 \in 0 .. MaxFrames /\ 0 \in 0 .. MaxTicks
    BY <1>2
  <1> QED BY <1>1, <1>2, <1>3

LEMMA IntervalIs ==
  ASSUME SamplerInv
  PROVE  Interval \in Nat
  BY Quotients DEF SamplerInv, SamplerTypeOK, Interval

LEMMA InitSamplerInv == SamplerInit => SamplerInv
  <1> SUFFICES ASSUME SamplerInit PROVE SamplerInv
    OBVIOUS
  <1>1. PICK n \in EveryN, fps \in MaxFps :
          gate = [mode |-> "everyNth", everyN |-> n, maxFps |-> fps,
                  counter |-> 0, timing |-> FALSE, elapsed |-> 0]
    BY DEF SamplerInit
  <1>2. m_output = FALSE /\ sampled = [frames |-> 0, passed |-> 0, ticks |-> 0]
    BY DEF SamplerInit, NothingSampled
  <1>3. SamplerTypeOK
    BY <1>1, <1>2, Quotients DEF SamplerTypeOK
  <1>4. 0 \div n = 0
    BY Quotients
  <1> QED BY <1>1, <1>2, <1>3, <1>4 DEF SamplerInv

LEMMA NextSamplerInv == SamplerInv /\ [SamplerNext]_samplerVars => SamplerInv'
  <1> SUFFICES ASSUME SamplerInv, [SamplerNext]_samplerVars PROVE SamplerInv'
    OBVIOUS
  <1> DEFINE Gates == [mode : {"everyNth", "maxFps"}, everyN : EveryN, maxFps : MaxFps,
                       counter : 0 .. MaxFrames, timing : BOOLEAN, elapsed : 0 .. MaxTicks]
             Samples == [frames : 0 .. MaxFrames, passed : 0 .. MaxFrames, ticks : 0 .. MaxTicks]
  <1>1. gate \in Gates /\ sampled \in Samples /\ m_output \in BOOLEAN /\ Interval \in Nat
    BY IntervalIs DEF SamplerInv, SamplerTypeOK
  <1>2. /\ gate.counter <= sampled.frames /\ gate.elapsed <= sampled.ticks
        /\ sampled.passed <= sampled.frames
        /\ gate.mode = "everyNth" => gate.counter = sampled.frames /\ sampled.passed = sampled.frames \div gate.everyN
        /\ gate.mode = "maxFps" => sampled.passed * Interval + gate.elapsed <= sampled.ticks
    BY DEF SamplerInv
  <1>3. EveryN \subseteq Nat \ {0} /\ MaxFrames \in Nat /\ MaxTicks \in Nat
    BY FrameSamplerAssumption
  <1>4. CASE UNCHANGED samplerVars
    BY <1>4 DEF samplerVars, SamplerInv, SamplerTypeOK, Interval
  <1>5. ASSUME NEW mode \in {"everyNth", "maxFps"}, NEW n \in EveryN, NEW fps \in MaxFps,
               SetParameters(mode, n, fps)
        PROVE  SamplerInv'
    <2>1. PICK g : g = [gate EXCEPT !.mode = mode, !.everyN = n, !.maxFps = fps]
      OBVIOUS
    <2>2. g \in Gates /\ g.mode = mode /\ g.everyN = n
      BY <1>1, <2>1
    <2>3. gate' = [g EXCEPT !.counter = 0, !.timing = FALSE, !.elapsed = 0]
      BY <1>5, <2>1 DEF SetParameters, resetGate
    <2>4. gate' \in Gates /\ gate'.counter = 0 /\ gate'.elapsed = 0
      BY <2>2, <2>3, Quotients
    <2>5. sampled' = [frames |-> 0, passed |-> 0, ticks |-> 0] /\ m_output' = m_output
      BY <1>5 DEF SetParameters, NothingSampled
    <2>6. sampled' \in Samples /\ sampled'.frames = 0 /\ sampled'.passed = 0 /\ sampled'.ticks = 0
      BY <2>5, Quotients
    <2>7. gate'.everyN \in Nat \ {0} /\ 0 \div gate'.everyN = 0
      BY <2>4, Quotients
    <2>8. Interval' \in Nat
      BY <2>4, Quotients DEF Interval
    <2>9. PICK i \in Nat : i = Interval' /\ 0 * i + 0 <= 0
      BY <2>8
    <2>10. SamplerTypeOK'
      BY <1>1, <2>4, <2>5, <2>6 DEF SamplerTypeOK
    <2>11. sampled'.passed = sampled'.frames \div gate'.everyN
      BY <2>6, <2>7
    <2>12. sampled'.passed * Interval' + gate'.elapsed <= sampled'.ticks
      <3>1. sampled'.passed * Interval' + gate'.elapsed = 0 * i + 0
        BY <2>4, <2>6, <2>9
      <3> QED BY <2>6, <2>9, <3>1
    <2>13. /\ gate'.counter <= sampled'.frames /\ gate'.elapsed <= sampled'.ticks
           /\ sampled'.passed <= sampled'.frames
           /\ gate'.counter = sampled'.frames
      BY <2>4, <2>6
    <2> QED BY <2>10, <2>11, <2>12, <2>13 DEF SamplerInv
  <1>6. CASE SampleFrame
    <2>1. PICK gone : gone = passesGate
      OBVIOUS
    <2>2. /\ sampled.frames < MaxFrames /\ gate' = gone.after
          /\ m_output' = (m_output \/ gone.pass)
          /\ sampled' = [sampled EXCEPT !.frames = @ + 1, !.passed = IF gone.pass THEN @ + 1 ELSE @]
      BY <1>6, <2>1 DEF SampleFrame
    <2>3. ASSUME gone.pass \in BOOLEAN
          PROVE  /\ sampled' \in Samples /\ m_output' \in BOOLEAN
                 /\ sampled'.frames = sampled.frames + 1 /\ sampled'.ticks = sampled.ticks
                 /\ sampled'.passed = IF gone.pass THEN sampled.passed + 1 ELSE sampled.passed
                 /\ sampled'.passed <= sampled'.frames
      <3>1. PICK passed : passed = IF gone.pass THEN sampled.passed + 1 ELSE sampled.passed
        OBVIOUS
      <3>2. passed \in 0 .. MaxFrames /\ passed <= sampled.frames + 1
        BY <1>1, <1>2, <1>3, <2>2, <3>1
      <3>3. sampled' = [sampled EXCEPT !.frames = sampled.frames + 1, !.passed = passed]
        BY <1>1, <2>2, <3>1
      <3>4. sampled.frames + 1 \in 0 .. MaxFrames
        BY <1>1, <1>3, <2>2
      <3> QED BY <1>1, <2>2, <2>3, <3>1, <3>2, <3>3, <3>4
    <2>4. CASE gate.mode = "everyNth"
      <3>1. gone = [pass |-> gate.everyN <= 1 \/ (gate.counter + 1) % gate.everyN = 0,
                    after |-> [gate EXCEPT !.counter = @ + 1]]
        BY <2>1, <2>4 DEF passesGate
      <3>2. gone.pass = (gate.everyN <= 1 \/ (gate.counter + 1) % gate.everyN = 0)
        BY <3>1
      <3>3. gone.pass \in BOOLEAN
        BY <3>2
      <3>4. gate' = [gate EXCEPT !.counter = gate.counter + 1]
        BY <1>1, <2>2, <3>1
      <3>5. PICK f \in Nat, n \in Nat \ {0} : f = sampled.frames /\ n = gate.everyN
        <4>1. sampled.frames \in Nat
          BY <1>1
        <4>2. gate.everyN \in Nat \ {0}
          BY <1>1, <1>3
        <4> QED BY <4>1, <4>2
      <3>6. /\ gate' \in Gates /\ gate'.counter = gate.counter + 1 /\ gate'.elapsed = gate.elapsed
            /\ gate'.mode = "everyNth" /\ gate'.everyN = gate.everyN
        <4>1. gate.counter + 1 \in 0 .. MaxFrames
          BY <1>1, <1>2, <1>3, <2>2
        <4> QED BY <1>1, <2>4, <3>4, <4>1
      <3>7. gone.pass <=> (f + 1) % n = 0
        <4>1. n <= 1 => (f + 1) % n = 0
          BY <3>5
        <4> QED BY <1>2, <2>4, <3>2, <3>5, <4>1
      <3>8. sampled'.passed = (f + 1) \div n
        <4>1. (f + 1) \div n = IF (f + 1) % n = 0 THEN f \div n + 1 ELSE f \div n
          BY NextRound
        <4>2. sampled.passed = f \div n
          BY <1>2, <2>4, <3>5
        <4> QED BY <2>3, <3>3, <3>7, <4>1, <4>2
      <3> QED BY <1>1, <1>2, <2>3, <2>4, <3>3, <3>5, <3>6, <3>8 DEF SamplerInv, SamplerTypeOK
    <2>5. CASE gate.mode = "maxFps"
      <3>1. gone = [pass |-> gate.elapsed >= Interval,
                    after |-> [gate EXCEPT !.timing = TRUE, !.elapsed = IF gate.elapsed >= Interval THEN 0 ELSE @]]
        BY <2>1, <2>5 DEF passesGate
      <3>2. gone.pass = (gate.elapsed >= Interval)
        BY <3>1
      <3>3. gone.pass \in BOOLEAN
        BY <1>1, <3>2
      <3>4. PICK elapsed : elapsed = IF gate.elapsed >= Interval THEN 0 ELSE gate.elapsed
        OBVIOUS
      <3>5. elapsed \in 0 .. MaxTicks /\ elapsed <= sampled.ticks
        BY <1>1, <1>2, <1>3, <3>4
      <3>6. gate' = [gate EXCEPT !.timing = TRUE, !.elapsed = elapsed]
        BY <1>1, <2>2, <3>1, <3>4
      <3>7. /\ gate' \in Gates /\ gate'.counter = gate.counter /\ gate'.elapsed = elapsed
            /\ gate'.mode = "maxFps" /\ gate'.maxFps = gate.maxFps
        BY <1>1, <2>5, <3>5, <3>6
      <3>8. Interval' = Interval
        BY <3>7 DEF Interval
      <3>9. sampled'.passed * Interval + elapsed <= sampled.ticks
        <4>1. PICK i \in Nat, e \in Nat, p \in Nat, t \in Nat :
                i = Interval /\ e = gate.elapsed /\ p = sampled.passed /\ t = sampled.ticks
          BY <1>1
        <4>2. p * i + e <= t
          BY <1>2, <2>5, <4>1
        <4>3. CASE e >= i
          <5>1. (p + 1) * i = p * i + i
            OBVIOUS
          <5>2. (p + 1) * i + 0 <= t
            BY <4>2, <4>3, <5>1
          <5>3. sampled'.passed = p + 1 /\ elapsed = 0
            BY <2>3, <3>2, <3>3, <3>4, <4>1, <4>3
          <5> QED BY <4>1, <5>2, <5>3
        <4>4. CASE ~(e >= i)
          <5>1. sampled'.passed = p /\ elapsed = e
            BY <2>3, <3>2, <3>3, <3>4, <4>1, <4>4
          <5> QED BY <4>1, <4>2, <5>1
        <4> QED BY <4>3, <4>4
      <3> QED BY <1>1, <1>2, <2>3, <2>5, <3>3, <3>5, <3>7, <3>8, <3>9 DEF SamplerInv, SamplerTypeOK
    <2> QED BY <1>1, <2>4, <2>5
  <1>7. CASE SampleNothing
    BY <1>7 DEF SampleNothing, SamplerInv, SamplerTypeOK, Interval
  <1>8. CASE Tick
    <2>1. PICK elapsed : elapsed = IF gate.timing THEN gate.elapsed + 1 ELSE gate.elapsed
      OBVIOUS
    <2>2. /\ sampled.ticks < MaxTicks /\ gate' = [gate EXCEPT !.elapsed = elapsed]
          /\ sampled' = [sampled EXCEPT !.ticks = sampled.ticks + 1] /\ m_output' = m_output
      BY <1>1, <1>8, <2>1 DEF Tick
    <2>3. elapsed \in 0 .. MaxTicks /\ elapsed <= gate.elapsed + 1 /\ sampled.ticks + 1 \in 0 .. MaxTicks
      BY <1>1, <1>2, <1>3, <2>1, <2>2
    <2>4. /\ gate' \in Gates /\ gate'.counter = gate.counter /\ gate'.elapsed = elapsed
          /\ gate'.mode = gate.mode /\ gate'.everyN = gate.everyN /\ gate'.maxFps = gate.maxFps
      BY <1>1, <2>2, <2>3
    <2>5. /\ sampled' \in Samples /\ sampled'.frames = sampled.frames
          /\ sampled'.passed = sampled.passed /\ sampled'.ticks = sampled.ticks + 1
      BY <1>1, <2>2, <2>3
    <2>6. Interval' = Interval
      BY <2>4 DEF Interval
    <2>7. gate.mode = "maxFps" => sampled'.passed * Interval + elapsed <= sampled.ticks + 1
      <3>1. PICK a \in Nat : a = sampled.passed * Interval
        BY <1>1
      <3> QED BY <1>1, <1>2, <2>3, <2>5, <3>1
    <2> QED BY <1>1, <1>2, <2>2, <2>3, <2>4, <2>5, <2>6, <2>7 DEF SamplerInv, SamplerTypeOK
  <1> QED BY <1>4, <1>5, <1>6, <1>7, <1>8 DEF SamplerNext

(* The sampler passes on one frame of every N, or no more than MaxFps in   *)
(* a second, counted from the last change of its settings: passesGate.     *)
THEOREM RateStaysKept == SamplerSpec => [](SamplerTypeOK /\ RateIsKept)
  <1>1. SamplerInv => SamplerTypeOK /\ RateIsKept
    <2> SUFFICES ASSUME SamplerInv PROVE SamplerTypeOK /\ RateIsKept
      OBVIOUS
    <2>1. /\ gate.mode \in {"everyNth", "maxFps"} /\ gate.elapsed \in Nat
          /\ sampled.passed \in Nat /\ sampled.ticks \in Nat /\ Interval \in Nat
      BY IntervalIs, FrameSamplerAssumption DEF SamplerInv, SamplerTypeOK
    <2>2. PICK a \in Nat : a = sampled.passed * Interval
      BY <2>1
    <2> QED BY <2>1, <2>2 DEF SamplerInv, RateIsKept
  <1> QED BY <1>1, InitSamplerInv, NextSamplerInv, PTL DEF SamplerSpec
-----------------------------------------------------------------------------
(***************************************************************************)
(* Theorems about PerfProfiler, for rings of any capacity and any times.   *)
(*                                                                         *)
(* A ring holds the last measurements from the oldest on: in the order of its *)
(* places while it fills, and from the head round when it is full (Place). The *)
(* sum is theirs, as each that leaves is subtracted: Holds.                *)
(***************************************************************************)

(* The partial sums f of a sequence s.                                     *)
Sums(f, s) ==
  /\ f \in [0 .. Len(s) -> Nat] /\ f[0] = 0
  /\ \A n \in 1 .. Len(s) : f[n] = f[n - 1] + s[n]

LEMMA TotalIs ==
  ASSUME NEW s \in Seq(Nat)
  PROVE  \E f : Sums(f, s) /\ f[Len(s)] = Total(s)
  <1>0. PICK N \in Nat : N = Len(s)
    BY LenProperties
  <1>1. \A n \in 1 .. N : s[n] \in Nat
    BY <1>0, ElementOfSeq
  <1>2. PICK step : step = [n \in 1 .. N |-> [x \in Nat |-> x + s[n]]]
    OBVIOUS
  <1>3. step \in [1 .. N -> [Nat -> Nat]]
    <2>1. ASSUME NEW n \in 1 .. N PROVE [x \in Nat |-> x + s[n]] \in [Nat -> Nat]
      <3>1. \A x \in Nat : x + s[n] \in Nat
        BY <1>1
      <3> QED BY <3>1
    <2> QED BY <1>2, <2>1
  <1>4. PICK f \in [0 .. N -> Nat] : f[0] = 0 /\ \A n \in 1 .. N : f[n] = step[n][f[n - 1]]
    <2>1. PICK S, base : S = Nat /\ base = 0
      OBVIOUS
    <2>2. base \in S /\ step \in [1 .. N -> [S -> S]]
      BY <1>3, <2>1
    <2>3. \E f : Recurses(f, N, S, base, step)
      BY <2>2, Recursion
    <2> QED BY <2>1, <2>3 DEF Recurses
  <1>5. ASSUME NEW n \in 1 .. N PROVE f[n] = f[n - 1] + s[n] /\ n - 1 \in 0 .. N
    <2>1. n - 1 \in 0 .. N
      OBVIOUS
    <2>2. f[n - 1] \in Nat
      BY <2>1
    <2> QED BY <1>2, <1>4, <2>1, <2>2
  <1> DEFINE sum == CHOOSE g : g = [n \in 0 .. Len(s) |-> IF n = 0 THEN 0 ELSE g[n - 1] + s[n]]
  <1>6. f = [n \in 0 .. N |-> IF n = 0 THEN 0 ELSE f[n - 1] + s[n]]
    <2>1. \A n \in 0 .. N : n # 0 => n \in 1 .. N
      OBVIOUS
    <2> QED BY <1>4, <1>5, <2>1
  <1>7. sum = [n \in 0 .. N |-> IF n = 0 THEN 0 ELSE sum[n - 1] + s[n]]
    BY <1>0, <1>6
  <1>8. Total(s) = sum[N]
    BY <1>0 DEF Total
  <1> HIDE DEF sum
  <1>9. \A n \in 0 .. N : sum[n] = f[n]
    <2> DEFINE T == {n \in 0 .. N : sum[n] = f[n]}
    <2>1. 0 \in T
      BY <1>4, <1>7
    <2>2. ASSUME NEW n \in 0 .. N - 1, n \in T PROVE n + 1 \in T
      <3>1. n + 1 \in 1 .. N /\ n + 1 \in 0 .. N /\ n + 1 - 1 = n
        OBVIOUS
      <3>2. PICK k \in 0 .. N : k = n + 1 /\ k # 0 /\ k - 1 = n
        BY <3>1
      <3>3. sum[k] = IF k = 0 THEN 0 ELSE sum[k - 1] + s[k]
        BY <1>7
      <3>4. f[k] = f[k - 1] + s[k]
        BY <1>5, <3>1, <3>2
      <3>5. sum[n] = f[n]
        BY <2>2
      <3> QED BY <3>2, <3>3, <3>4, <3>5
    <2> HIDE DEF T
    <2>3. \A n \in 0 .. N : n \in T
      BY <2>1, <2>2, SetInduction
    <2> QED BY <2>3 DEF T
  <1>10. Sums(f, s) /\ f[N] = Total(s)
    BY <1>0, <1>4, <1>5, <1>8, <1>9 DEF Sums
  <1> QED BY <1>0, <1>10

LEMMA TotalOfNone == Total(<<>>) = 0
  <1>1. <<>> \in Seq(Nat) /\ Len(<<>>) = 0
    OBVIOUS
  <1> QED BY <1>1, TotalIs DEF Sums

LEMMA TotalOfMore ==
  ASSUME NEW s \in Seq(Nat), NEW t \in Nat
  PROVE  Total(s) \in Nat /\ Total(Append(s, t)) = Total(s) + t
  <1>0. PICK N \in Nat : N = Len(s)
    BY LenProperties
  <1>1. PICK f : Sums(f, s) /\ f[N] = Total(s)
    BY <1>0, TotalIs
  <1>2. PICK all : all = Append(s, t)
    OBVIOUS
  <1>3. /\ all \in Seq(Nat) /\ Len(all) = N + 1 /\ all[N + 1] = t
        /\ \A n \in 1 .. N : all[n] = s[n]
    BY <1>0, <1>2, AppendProperties
  <1>4. PICK g : Sums(g, all) /\ g[N + 1] = Total(all)
    BY <1>3, TotalIs
  <1>5. /\ f \in [0 .. N -> Nat] /\ f[0] = 0 /\ \A n \in 1 .. N : f[n] = f[n - 1] + s[n]
        /\ g[0] = 0 /\ \A n \in 1 .. N + 1 : g[n] = g[n - 1] + all[n]
    BY <1>0, <1>1, <1>3, <1>4 DEF Sums
  <1> DEFINE T == {n \in 0 .. N : g[n] = f[n]}
  <1>6. 0 \in T
    BY <1>5
  <1>7. ASSUME NEW n \in 0 .. N - 1, n \in T PROVE n + 1 \in T
    <2>1. n + 1 \in 1 .. N /\ n + 1 \in 0 .. N /\ n + 1 \in 1 .. N + 1 /\ n + 1 - 1 = n
      OBVIOUS
    <2>2. f[n + 1] = f[n + 1 - 1] + s[n + 1] /\ g[n + 1] = g[n + 1 - 1] + all[n + 1]
      BY <1>5, <2>1
    <2>3. all[n + 1] = s[n + 1]
      BY <1>3, <2>1
    <2> QED BY <1>7, <2>1, <2>2, <2>3
  <1>8. \A n \in 0 .. N : n \in T
    <2> HIDE DEF T
    <2> QED BY <1>6, <1>7, SetInduction
  <1>9. g[N] = f[N] /\ f[N] \in Nat
    BY <1>5, <1>8
  <1>10. g[N + 1] = g[N] + t
    <2>1. N + 1 \in 1 .. N + 1 /\ N + 1 - 1 = N
      OBVIOUS
    <2> QED BY <1>3, <1>5, <2>1
  <1> QED BY <1>1, <1>2, <1>4, <1>9, <1>10

LEMMA TotalOfFewer ==
  ASSUME NEW s \in Seq(Nat), s # <<>>
  PROVE  Total(Tail(s)) = Total(s) - s[1]
  <1>0. PICK N \in Nat : N + 1 = Len(s)
    <2>1. Len(s) \in Nat \ {0}
      BY EmptySeq
    <2>2. Len(s) - 1 \in Nat /\ Len(s) - 1 + 1 = Len(s)
      BY <2>1
    <2> QED BY <2>2
  <1>1. PICK f : Sums(f, s) /\ f[N + 1] = Total(s)
    BY <1>0, TotalIs
  <1>2. PICK rest : rest = Tail(s)
    OBVIOUS
  <1>3. /\ rest \in Seq(Nat) /\ Len(rest) = N /\ \A n \in 1 .. N : rest[n] = s[n + 1]
    BY <1>0, <1>2, HeadTailProperties
  <1>4. PICK g : Sums(g, rest) /\ g[N] = Total(rest)
    BY <1>3, TotalIs
  <1>5. /\ f \in [0 .. N + 1 -> Nat] /\ f[0] = 0 /\ \A n \in 1 .. N + 1 : f[n] = f[n - 1] + s[n]
        /\ g[0] = 0 /\ \A n \in 1 .. N : g[n] = g[n - 1] + rest[n]
    BY <1>0, <1>1, <1>3, <1>4 DEF Sums
  <1>6. \A n \in 1 .. N + 1 : s[n] \in Nat
    BY <1>0, ElementOfSeq
  <1>7. s[1] \in Nat /\ f[1] = s[1]
    <2>1. 1 \in 1 .. N + 1 /\ 1 - 1 = 0
      OBVIOUS
    <2>2. s[1] \in Nat
      BY <1>6, <2>1
    <2>3. f[1] = f[0] + s[1]
      BY <1>5, <2>1
    <2> QED BY <1>5, <2>2, <2>3
  <1> DEFINE T == {n \in 0 .. N : g[n] = f[n + 1] - s[1]}
  <1>8. 0 \in T
    <2>1. 0 \in 0 .. N /\ f[0 + 1] = s[1] /\ s[1] - s[1] = 0 /\ g[0] = 0
      BY <1>5, <1>7
    <2>2. g[0] = f[0 + 1] - s[1]
      BY <2>1
    <2> QED BY <2>1, <2>2
  <1>9. ASSUME NEW n \in 0 .. N - 1, n \in T PROVE n + 1 \in T
    <2>1. /\ n + 1 \in 1 .. N /\ n + 1 \in 0 .. N + 1 /\ n + 1 - 1 = n
          /\ n + 1 + 1 \in 1 .. N + 1 /\ n + 1 + 1 - 1 = n + 1
      OBVIOUS
    <2>2. g[n + 1] = g[n] + s[n + 1 + 1]
      <3>1. g[n + 1] = g[n + 1 - 1] + rest[n + 1]
        BY <1>5, <2>1
      <3>2. rest[n + 1] = s[n + 1 + 1]
        BY <1>3, <2>1
      <3> QED BY <2>1, <3>1, <3>2
    <2>3. f[n + 1 + 1] = f[n + 1] + s[n + 1 + 1] /\ f[n + 1] \in Nat /\ s[n + 1 + 1] \in Nat
      BY <1>5, <1>6, <2>1
    <2>4. g[n] = f[n + 1] - s[1]
      BY <1>9
    <2>5. g[n + 1] = f[n + 1 + 1] - s[1]
      BY <1>7, <2>2, <2>3, <2>4
    <2> QED BY <2>1, <2>5
  <1>10. \A n \in 0 .. N : n \in T
    <2> HIDE DEF T
    <2> QED BY <1>8, <1>9, SetInduction
  <1>11. g[N] = f[N + 1] - s[1]
    BY <1>10
  <1> QED BY <1>1, <1>2, <1>4, <1>11
-----------------------------------------------------------------------------
(* Where the measurement i of those in the ring is, the oldest being 0.    *)
Around(h, i) == IF h + i < Capacity THEN h + i ELSE h + i - Capacity

Place(stats, i) == IF stats.m_size < Capacity THEN i ELSE Around(stats.m_head, i)

Stats ==
  [m_ring : [0 .. Capacity - 1 -> Times \cup {0}], m_size : 0 .. Capacity, m_head : Nat, m_sum : Nat]

(* The ring holds the measurements last, and the sum is theirs.            *)
Holds(stats, last) ==
  /\ stats \in Stats /\ last \in Seq(Times) /\ stats.m_size = Len(last)
  /\ stats.m_head < Capacity \/ (Capacity = 0 /\ stats.m_head = 0)
  /\ stats.m_size < Capacity => stats.m_head = stats.m_size
  /\ \A i \in 0 .. stats.m_size - 1 : stats.m_ring[Place(stats, i)] = last[i + 1]
  /\ stats.m_sum = Total(last)

PerfInv ==
  /\ m_enabled \in BOOLEAN /\ scopes \in Seq([stage : Stages, m_active : BOOLEAN])
  /\ measured \in [Stages -> Seq(Times)]
  /\ DOMAIN m_stages \subseteq Stages
  /\ \A s \in Stages : IF s \in DOMAIN m_stages THEN Holds(m_stages[s], measured[s])
                                                ELSE measured[s] = <<>>

LEMMA NextIndexIs ==
  ASSUME Capacity # 0, NEW i \in 0 .. Capacity - 1
  PROVE  NextIndex(i) = Around(i, 1) /\ Around(i, 1) = IF i + 1 < Capacity THEN i + 1 ELSE 0
  <1>1. CASE i + 1 < Capacity
    <2>1. (i + 1) % Capacity = i + 1
      BY <1>1, PerfAssumption
    <2> QED BY <1>1, <2>1 DEF NextIndex, Around
  <1>2. CASE i + 1 = Capacity
    <2>1. Capacity % Capacity = 0
      BY <1>2, PerfAssumption
    <2> QED BY <1>2, <2>1, PerfAssumption DEF NextIndex, Around
  <1> QED BY <1>1, <1>2, PerfAssumption

LEMMA NothingHeld ==
  ASSUME NEW stats \in Stats, stats.m_size = 0, stats.m_head = 0, stats.m_sum = 0
  PROVE  Holds(stats, <<>>)
  <1>1. <<>> \in Seq(Times) /\ Len(<<>>) = 0
    OBVIOUS
  <1>2. 0 < Capacity \/ Capacity = 0
    BY PerfAssumption
  <1> QED BY <1>1, <1>2, TotalOfNone DEF Holds

LEMMA TimesAreNumbers ==
  ASSUME NEW q \in Seq(Times)
  PROVE  q \in Seq(Nat)
  <1>1. Len(q) \in Nat /\ \A i \in 1 .. Len(q) : q[i] \in Nat
    BY LenProperties, ElementOfSeq, PerfAssumption
  <1>2. SubSeq(q, 1, Len(q)) \in Seq(Nat)
    BY <1>1, SubSeqProperties
  <1> QED BY <1>2, SubSeqFull

(* Around the ring, what is after the next place is the next but one.      *)
LEMMA NextPlace ==
  ASSUME NEW h \in 0 .. Capacity - 1, NEW i \in 0 .. Capacity - 2
  PROVE  /\ Around(Around(h, 1), i) = Around(h, i + 1)
         /\ Around(h, i + 1) \in 0 .. Capacity - 1 /\ Around(h, i + 1) # h
  BY PerfAssumption DEF Around

(* A measurement joins those in the ring, or takes the place of the oldest.*)
LEMMA AddHolds ==
  ASSUME NEW stats, NEW last, Holds(stats, last), NEW time \in Times,
         NEW next, next = add(stats, time), NEW all, all = Append(last, time)
  PROVE  Holds(next, IF Len(all) > Capacity THEN Tail(all) ELSE all)
  <1>1. /\ stats \in Stats /\ last \in Seq(Times) /\ stats.m_size = Len(last)
        /\ stats.m_head < Capacity \/ (Capacity = 0 /\ stats.m_head = 0)
        /\ stats.m_size < Capacity => stats.m_head = stats.m_size
        /\ stats.m_sum = Total(last)
        /\ stats.m_size \in 0 .. Capacity /\ stats.m_head \in Nat /\ stats.m_sum \in Nat
        /\ stats.m_ring \in [0 .. Capacity - 1 -> Times \cup {0}]
    BY DEF Holds, Stats
  <1>2. \A i \in 0 .. stats.m_size - 1 : stats.m_ring[Place(stats, i)] = last[i + 1]
    BY DEF Holds
  <1>3. Times \subseteq Nat /\ Capacity \in Nat /\ Len(last) \in 0 .. Capacity
    BY <1>1, PerfAssumption
  <1>4. /\ all \in Seq(Times) /\ Len(all) = Len(last) + 1 /\ all[Len(last) + 1] = time
        /\ \A i \in 1 .. Len(last) : all[i] = last[i]
    BY <1>1, AppendProperties
  <1>5. last \in Seq(Nat) /\ time \in Nat /\ all \in Seq(Nat)
    BY <1>1, <1>3, <1>4, TimesAreNumbers
  <1>6. Total(all) = Total(last) + time /\ Total(last) \in Nat
    BY <1>5, TotalOfMore
  <1>7. CASE Capacity = 0
    <2>1. next = stats /\ Len(last) = 0 /\ Len(all) = 1
      BY <1>1, <1>3, <1>4, <1>7 DEF add
    <2>2. last = <<>> /\ Tail(all) = <<>>
      BY <1>1, <1>4, <2>1, EmptySeq, HeadTailProperties
    <2> QED BY <1>7, <2>1, <2>2
  <1>8. CASE Capacity # 0 /\ stats.m_size < Capacity
    <2>1. stats.m_head \in 0 .. Capacity - 1 /\ stats.m_head = stats.m_size
      BY <1>1, <1>3, <1>8
    <2>2. PICK ring : ring = [stats.m_ring EXCEPT ![stats.m_head] = time]
      OBVIOUS
    <2>3. /\ ring \in [0 .. Capacity - 1 -> Times \cup {0}]
          /\ \A i \in 0 .. Capacity - 1 : ring[i] = IF i = stats.m_head THEN time ELSE stats.m_ring[i]
      BY <1>1, <2>1, <2>2
    <2>4. PICK head : head = NextIndex(stats.m_head)
      OBVIOUS
    <2>5. head = IF stats.m_head + 1 < Capacity THEN stats.m_head + 1 ELSE 0
      BY <1>8, <2>1, <2>4, NextIndexIs
    <2>6. next = [m_ring |-> ring, m_size |-> stats.m_size + 1, m_head |-> head,
                  m_sum |-> stats.m_sum + time - 0]
      BY <1>1, <1>3, <1>8, <2>2, <2>4 DEF add
    <2>7. /\ next.m_ring = ring /\ next.m_size = stats.m_size + 1 /\ next.m_head = head
          /\ next.m_sum = stats.m_sum + time
      BY <1>1, <1>5, <2>6
    <2>8. next \in Stats
      BY <1>1, <1>3, <1>5, <1>8, <2>1, <2>3, <2>5, <2>6 DEF Stats
    <2>9. ASSUME NEW i \in 0 .. next.m_size - 1 PROVE next.m_ring[Place(next, i)] = all[i + 1]
      <3>1. i \in 0 .. stats.m_size /\ i \in 0 .. Capacity - 1
        BY <1>1, <1>3, <1>8, <2>7
      <3>2. Place(next, i) = i
        <4>1. CASE next.m_size < Capacity
          BY <4>1 DEF Place
        <4>2. CASE ~(next.m_size < Capacity)
          <5>1. next.m_head = 0
            BY <1>1, <1>3, <1>8, <2>1, <2>5, <2>7, <4>2
          <5>2. Around(0, i) = i
            <6>1. 0 + i = i /\ 0 + i < Capacity
              BY <3>1, PerfAssumption
            <6> QED BY <6>1 DEF Around
          <5> QED BY <4>2, <5>1, <5>2 DEF Place
        <4> QED BY <4>1, <4>2
      <3>3. CASE i = stats.m_size
        BY <1>1, <1>4, <2>1, <2>3, <2>7, <3>1, <3>2, <3>3
      <3>4. CASE i # stats.m_size
        <4>1. i \in 0 .. stats.m_size - 1 /\ i + 1 \in 1 .. Len(last)
          BY <1>1, <1>3, <3>1, <3>4
        <4>2. Place(stats, i) = i
          BY <1>8 DEF Place
        <4>3. stats.m_ring[i] = last[i + 1]
          BY <1>2, <4>1, <4>2
        <4> QED BY <1>4, <2>1, <2>3, <2>7, <3>1, <3>2, <3>4, <4>1, <4>3
      <3> QED BY <3>3, <3>4
    <2>10. ~(Len(all) > Capacity)
      BY <1>1, <1>3, <1>4, <1>8
    <2>11. next.m_head < Capacity /\ (next.m_size < Capacity => next.m_head = next.m_size)
      BY <1>1, <1>3, <1>8, <2>1, <2>5, <2>7
    <2>12. next.m_size = Len(all) /\ next.m_sum = Total(all)
      BY <1>1, <1>4, <1>6, <2>7
    <2> QED BY <1>4, <2>8, <2>9, <2>10, <2>11, <2>12 DEF Holds
  <1>9. CASE Capacity # 0 /\ stats.m_size = Capacity
    <2>1. stats.m_head \in 0 .. Capacity - 1 /\ Len(last) = Capacity
      BY <1>1, <1>3, <1>9
    <2>2. PICK ring : ring = [stats.m_ring EXCEPT ![stats.m_head] = time]
      OBVIOUS
    <2>3. /\ ring \in [0 .. Capacity - 1 -> Times \cup {0}]
          /\ \A i \in 0 .. Capacity - 1 : ring[i] = IF i = stats.m_head THEN time ELSE stats.m_ring[i]
      BY <1>1, <2>1, <2>2
    <2>4. PICK head : head = NextIndex(stats.m_head)
      OBVIOUS
    <2>5. head = Around(stats.m_head, 1) /\ head = IF stats.m_head + 1 < Capacity THEN stats.m_head + 1 ELSE 0
      BY <1>9, <2>1, <2>4, NextIndexIs
    <2>6. stats.m_ring[stats.m_head] = last[1] /\ last[1] = all[1] /\ last[1] \in Nat
      <3>1. Place(stats, 0) = stats.m_head
        BY <1>3, <1>9, <2>1 DEF Place, Around
      <3>2. 0 \in 0 .. stats.m_size - 1 /\ 1 \in 1 .. Len(last)
        BY <1>3, <1>9, <2>1
      <3>3. stats.m_ring[Place(stats, 0)] = last[0 + 1]
        BY <1>2, <3>2
      <3> QED BY <1>4, <1>5, <3>1, <3>2, <3>3, ElementOfSeq
    <2>7. next = [m_ring |-> ring, m_size |-> stats.m_size, m_head |-> head,
                  m_sum |-> stats.m_sum + time - last[1]]
      BY <1>9, <2>2, <2>4, <2>6 DEF add
    <2>8. /\ next.m_ring = ring /\ next.m_size = Capacity /\ next.m_head = head
          /\ next.m_sum = Total(all) - all[1]
      <3>1. next.m_ring = ring /\ next.m_size = stats.m_size /\ next.m_head = head
        BY <2>7
      <3>2. next.m_sum = stats.m_sum + time - last[1]
        BY <2>7
      <3>3. stats.m_sum + time = Total(all) /\ last[1] = all[1]
        BY <1>1, <1>6, <2>6
      <3>4. /\ stats.m_sum \in Nat /\ time \in Nat /\ last[1] \in Nat /\ Total(all) \in Nat
        BY <1>1, <1>5, <1>6, <2>6
      <3>5. stats.m_sum + time - last[1] = Total(all) - all[1]
        BY <3>3, <3>4
      <3> QED BY <1>9, <3>1, <3>2, <3>5
    <2>9. PICK rest : rest = Tail(all)
      OBVIOUS
    <2>10. /\ rest \in Seq(Times) /\ Len(rest) = Capacity /\ \A i \in 1 .. Capacity : rest[i] = all[i + 1]
      <3>1. all # <<>>
        BY <1>1, AppendProperties
      <3> QED BY <1>3, <1>4, <2>1, <2>9, <3>1, HeadTailProperties
    <2>11. Total(rest) = Total(all) - all[1] /\ Total(rest) \in Nat
      <3>1. all # <<>>
        BY <1>1, AppendProperties
      <3>2. rest \in Seq(Nat)
        BY <2>10, TimesAreNumbers
      <3> QED BY <1>5, <2>9, <3>1, <3>2, TotalOfFewer, TotalOfMore
    <2>12. next.m_sum \in Nat /\ next.m_sum = Total(rest)
      BY <2>8, <2>11
    <2>13. next \in Stats
      BY <1>1, <1>3, <1>9, <2>1, <2>3, <2>5, <2>7, <2>8, <2>12 DEF Stats
    <2>14. ASSUME NEW i \in 0 .. next.m_size - 1 PROVE next.m_ring[Place(next, i)] = rest[i + 1]
      <3>1. i \in 0 .. Capacity - 1 /\ i + 1 \in 1 .. Capacity
        BY <1>3, <2>8
      <3>2. rest[i + 1] = all[i + 1 + 1]
        BY <2>10, <3>1
      <3>3. Place(next, i) = Around(head, i)
        BY <1>3, <2>8 DEF Place
      <3>4. CASE i = Capacity - 1
        <4>1. Place(next, i) = stats.m_head
          BY <1>3, <2>1, <2>5, <3>3, <3>4 DEF Around
        <4>2. i + 1 + 1 = Len(last) + 1
          BY <1>3, <2>1, <3>4
        <4> QED BY <1>4, <2>1, <2>3, <2>8, <3>2, <4>1, <4>2
      <3>5. CASE i # Capacity - 1
        <4>1. i + 1 \in 0 .. stats.m_size - 1 /\ i + 1 + 1 \in 1 .. Len(last)
          BY <1>3, <1>9, <2>1, <3>1, <3>5
        <4>2. Place(stats, i + 1) = Around(stats.m_head, i + 1)
          BY <1>3, <1>9 DEF Place
        <4>3. i \in 0 .. Capacity - 2
          BY <1>3, <3>1, <3>5
        <4>4. /\ Place(next, i) = Place(stats, i + 1)
              /\ Place(next, i) \in 0 .. Capacity - 1 /\ Place(next, i) # stats.m_head
          BY <2>1, <2>5, <3>3, <4>2, <4>3, NextPlace
        <4>5. stats.m_ring[Place(stats, i + 1)] = last[i + 1 + 1]
          BY <1>2, <4>1
        <4> QED BY <1>4, <2>3, <2>8, <3>2, <4>1, <4>4, <4>5
      <3> QED BY <3>4, <3>5
    <2>15. Len(all) > Capacity
      BY <1>3, <1>4, <2>1
    <2>16. next.m_head < Capacity
      BY <1>3, <1>9, <2>1, <2>5, <2>8
    <2>17. Holds(next, rest)
      BY <1>3, <2>8, <2>10, <2>12, <2>13, <2>14, <2>16 DEF Holds
    <2> QED BY <2>9, <2>15, <2>17
  <1> QED BY <1>1, <1>3, <1>7, <1>8, <1>9

(* What a stage starts with, and what a flush makes of it.                 *)
LEMMA StartsEmpty == RollingStats \in Stats /\ Holds(RollingStats, <<>>)
  <1>1. PICK ring : ring = [i \in 0 .. Capacity - 1 |-> 0]
    OBVIOUS
  <1>2. ring \in [0 .. Capacity - 1 -> Times \cup {0}]
    BY <1>1
  <1>3. RollingStats = [m_ring |-> ring, m_size |-> 0, m_head |-> 0, m_sum |-> 0]
    BY <1>1 DEF RollingStats
  <1>4. /\ RollingStats \in Stats /\ RollingStats.m_size = 0
        /\ RollingStats.m_head = 0 /\ RollingStats.m_sum = 0
    BY <1>2, <1>3, PerfAssumption DEF Stats
  <1> QED BY <1>4, NothingHeld

LEMMA ResetHolds ==
  ASSUME NEW stats, NEW last, Holds(stats, last)
  PROVE  Holds(IF stats.m_size = 0 THEN stats ELSE reset(stats), <<>>)
  <1>1. stats \in Stats /\ last \in Seq(Times) /\ Len(last) = stats.m_size
    BY DEF Holds
  <1>2. CASE stats.m_size = 0
    <2>1. last = <<>>
      BY <1>1, <1>2, EmptySeq
    <2> QED BY <1>2, <2>1
  <1>3. CASE stats.m_size # 0
    <2>1. PICK e : e = [stats EXCEPT !.m_size = 0, !.m_head = 0, !.m_sum = 0]
      OBVIOUS
    <2>2. e \in Stats /\ e.m_size = 0 /\ e.m_head = 0 /\ e.m_sum = 0
      <3>1. 0 \in 0 .. Capacity /\ 0 \in Nat
        BY PerfAssumption
      <3> QED BY <1>1, <2>1, <3>1 DEF Stats
    <2>3. reset(stats) = e
      BY <2>1 DEF reset
    <2> QED BY <1>3, <2>2, <2>3, NothingHeld
  <1> QED BY <1>2, <1>3

LEMMA InitPerfInv == PerfInit => PerfInv
  <1> SUFFICES ASSUME PerfInit PROVE PerfInv
    OBVIOUS
  <1>1. \A s \in Stages : measured[s] = <<>>
    BY DEF PerfInit
  <1>2. measured \in [Stages -> Seq(Times)] /\ DOMAIN m_stages = {}
    BY DEF PerfInit
  <1>3. m_enabled \in BOOLEAN /\ scopes \in Seq([stage : Stages, m_active : BOOLEAN])
    <2>1. <<>> \in Seq([stage : Stages, m_active : BOOLEAN])
      BY EmptySeq
    <2>2. m_enabled \in BOOLEAN
      BY DEF PerfInit
    <2> QED BY <2>1, <2>2 DEF PerfInit
  <1> QED BY <1>1, <1>2, <1>3 DEF PerfInv

LEMMA RecordKeeps ==
  ASSUME PerfInv, NEW stage \in Stages, NEW time \in Times, record(stage, time)
  PROVE  /\ DOMAIN m_stages' \subseteq Stages /\ measured' \in [Stages -> Seq(Times)]
         /\ \A s \in Stages : IF s \in DOMAIN m_stages' THEN Holds(m_stages'[s], measured'[s])
                                                        ELSE measured'[s] = <<>>
  <1>1. PICK stats : stats = IF stage \in DOMAIN m_stages THEN m_stages[stage] ELSE RollingStats
    OBVIOUS
  <1>2. Holds(stats, measured[stage]) /\ measured \in [Stages -> Seq(Times)]
    BY <1>1, StartsEmpty DEF PerfInv
  <1>3. PICK all : all = Append(measured[stage], time)
    OBVIOUS
  <1>4. PICK next : next = add(stats, time)
    OBVIOUS
  <1>5. PICK kept : kept = IF Len(all) > Capacity THEN Tail(all) ELSE all
    OBVIOUS
  <1>6. Holds(next, kept)
    BY <1>2, <1>3, <1>4, <1>5, AddHolds
  <1>7. /\ m_stages' = [s \in DOMAIN m_stages \cup {stage} |-> IF s = stage THEN next ELSE m_stages[s]]
        /\ measured' = [measured EXCEPT ![stage] = kept]
    BY <1>1, <1>3, <1>4, <1>5 DEF record
  <1>8. kept \in Seq(Times)
    BY <1>6 DEF Holds
  <1>9. measured' \in [Stages -> Seq(Times)] /\ \A s \in Stages : measured'[s] = IF s = stage THEN kept ELSE measured[s]
    BY <1>2, <1>7, <1>8
  <1>10. DOMAIN m_stages' \subseteq Stages /\ DOMAIN m_stages' = DOMAIN m_stages \cup {stage}
    BY <1>7 DEF PerfInv
  <1>11. ASSUME NEW s \in Stages
         PROVE  IF s \in DOMAIN m_stages' THEN Holds(m_stages'[s], measured'[s]) ELSE measured'[s] = <<>>
    <2>1. CASE s = stage
      <3>1. m_stages'[s] = next /\ measured'[s] = kept
        BY <1>7, <1>9, <2>1
      <3> QED BY <1>6, <1>10, <2>1, <3>1
    <2>2. CASE s # stage /\ s \in DOMAIN m_stages
      <3>1. m_stages'[s] = m_stages[s] /\ measured'[s] = measured[s]
        BY <1>7, <1>9, <2>2
      <3> QED BY <1>10, <2>2, <3>1 DEF PerfInv
    <2>3. CASE s # stage /\ s \notin DOMAIN m_stages
      BY <1>9, <1>10, <2>3 DEF PerfInv
    <2> QED BY <2>1, <2>2, <2>3
  <1> QED BY <1>9, <1>10, <1>11

LEMMA NextPerfInv == PerfInv /\ [PerfNext]_perfVars => PerfInv'
  <1> SUFFICES ASSUME PerfInv, [PerfNext]_perfVars PROVE PerfInv'
    OBVIOUS
  <1>1. CASE UNCHANGED perfVars
    BY <1>1 DEF perfVars, PerfInv
  <1>2. ASSUME NEW on \in BOOLEAN, setEnabled(on) PROVE PerfInv'
    BY <1>2 DEF setEnabled, PerfInv
  <1>3. ASSUME NEW stage \in Stages, EnterScope(stage) PROVE PerfInv'
    <2>1. PICK scope \in [stage : Stages, m_active : BOOLEAN] : scopes' = Append(scopes, scope)
      BY <1>3 DEF EnterScope, PerfInv
    <2>2. scopes' \in Seq([stage : Stages, m_active : BOOLEAN])
      BY <2>1, AppendProperties DEF PerfInv
    <2> QED BY <1>3, <2>2 DEF EnterScope, PerfInv
  <1>4. ASSUME NEW time \in Times, LeaveScope(time) PROVE PerfInv'
    <2>1. PICK Scopes : Scopes = [stage : Stages, m_active : BOOLEAN]
      OBVIOUS
    <2>2. scopes \in Seq(Scopes) /\ scopes # <<>>
      BY <1>4, <2>1 DEF LeaveScope, PerfInv
    <2>3. Len(scopes) \in 1 .. Len(scopes) /\ Len(scopes) - 1 \in 0 .. Len(scopes)
      BY <2>2, EmptySeq
    <2>4. \A i \in 1 .. Len(scopes) - 1 : scopes[i] \in Scopes
      BY <2>2, <2>3, ElementOfSeq
    <2>5. scopes' = SubSeq(scopes, 1, Len(scopes) - 1)
      BY <1>4 DEF LeaveScope, Front
    <2>6. scopes' \in Seq(Scopes)
      BY <2>3, <2>4, <2>5, SubSeqProperties
    <2>7. Last(scopes).stage \in Stages
      <3>1. scopes[Len(scopes)] \in Scopes
        BY <2>2, <2>3, ElementOfSeq
      <3> QED BY <2>1, <3>1 DEF Last
    <2>8. m_enabled' = m_enabled
      BY <1>4 DEF LeaveScope
    <2>9. CASE record(Last(scopes).stage, time)
      BY <2>1, <2>6, <2>7, <2>8, <2>9, RecordKeeps DEF PerfInv
    <2>10. CASE UNCHANGED <<m_stages, measured>>
      BY <2>1, <2>6, <2>8, <2>10 DEF PerfInv
    <2> QED BY <1>4, <2>9, <2>10 DEF LeaveScope
  <1>5. CASE flush
    <2>1. /\ m_stages' = [s \in DOMAIN m_stages |-> IF m_stages[s].m_size = 0 THEN m_stages[s]
                                                    ELSE reset(m_stages[s])]
          /\ measured' = [s \in Stages |-> <<>>] /\ UNCHANGED <<m_enabled, scopes>>
      BY <1>5 DEF flush
    <2>2. DOMAIN m_stages' = DOMAIN m_stages /\ measured' \in [Stages -> Seq(Times)]
      BY <2>1
    <2>3. ASSUME NEW s \in Stages, s \in DOMAIN m_stages PROVE Holds(m_stages'[s], measured'[s])
      <3>1. measured'[s] = <<>> /\ Holds(m_stages[s], measured[s])
        BY <2>1, <2>3 DEF PerfInv
      <3>2. m_stages'[s] = IF m_stages[s].m_size = 0 THEN m_stages[s] ELSE reset(m_stages[s])
        BY <2>1, <2>3
      <3> QED BY <3>1, <3>2, ResetHolds
    <2> QED BY <2>1, <2>2, <2>3 DEF PerfInv
  <1> QED BY <1>1, <1>2, <1>3, <1>4, <1>5 DEF PerfNext

LEMMA FiguresFollow ==
  ASSUME NEW stats, NEW last, Holds(stats, last)
  PROVE  /\ stats.m_size = Len(last)
         /\ last # <<>> => /\ avg(stats) = Total(last) \div Len(last)
                           /\ least(stats) = Min(ToSet(last)) /\ most(stats) = Max(ToSet(last))
  <1>1. /\ last \in Seq(Times) /\ stats.m_size = Len(last) /\ stats.m_sum = Total(last)
        /\ stats.m_size \in 0 .. Capacity /\ stats.m_head \in Nat
        /\ stats.m_head < Capacity \/ (Capacity = 0 /\ stats.m_head = 0)
        /\ Capacity \in Nat
    BY PerfAssumption DEF Holds, Stats
  <1>2. \A i \in 0 .. stats.m_size - 1 : stats.m_ring[Place(stats, i)] = last[i + 1]
    BY DEF Holds
  <1>3. ASSUME NEW i \in 0 .. stats.m_size - 1
        PROVE  /\ Place(stats, i) \in 0 .. stats.m_size - 1
               /\ \E j \in 0 .. stats.m_size - 1 : Place(stats, j) = i
    <2>1. CASE stats.m_size < Capacity
      BY <2>1 DEF Place
    <2>2. CASE stats.m_size = Capacity
      <3>1. Place(stats, i) \in 0 .. stats.m_size - 1
        BY <1>1, <2>2 DEF Place, Around
      <3>2. PICK j : j = IF stats.m_head <= i THEN i - stats.m_head ELSE i - stats.m_head + Capacity
        OBVIOUS
      <3>3. j \in 0 .. stats.m_size - 1 /\ Place(stats, j) = i
        BY <1>1, <2>2, <3>2 DEF Place, Around
      <3> QED BY <3>1, <3>3
    <2> QED BY <1>1, <2>1, <2>2
  <1>4. Valid(stats) = ToSet(last)
    <2>1. DOMAIN last = 1 .. Len(last)
      BY <1>1, LenProperties
    <2>2. ASSUME NEW i \in 0 .. stats.m_size - 1 PROVE stats.m_ring[i] \in ToSet(last)
      <3>1. PICK j \in 0 .. stats.m_size - 1 : Place(stats, j) = i
        BY <1>3
      <3>2. stats.m_ring[i] = last[j + 1] /\ j + 1 \in DOMAIN last
        BY <1>1, <1>2, <2>1, <3>1
      <3> QED BY <3>2 DEF ToSet
    <2>3. ASSUME NEW n \in DOMAIN last PROVE last[n] \in Valid(stats)
      <3>1. n - 1 \in 0 .. stats.m_size - 1 /\ n - 1 + 1 = n
        BY <1>1, <2>1
      <3>2. stats.m_ring[Place(stats, n - 1)] = last[n] /\ Place(stats, n - 1) \in 0 .. stats.m_size - 1
        BY <1>2, <1>3, <3>1
      <3> QED BY <3>2 DEF Valid
    <2> QED BY <2>2, <2>3 DEF Valid, ToSet
  <1>5. last # <<>> => stats.m_size # 0
    BY <1>1, EmptySeq
  <1> QED BY <1>1, <1>4, <1>5 DEF avg, least, most

(* The average, the least and the most of a stage are those of the last    *)
(* Capacity measurements since the flush: RollingStats of PerfProfiler.    *)
THEOREM FiguresStayRight == PerfSpec => [](PerfTypeOK /\ FiguresAreOfTheLast)
  <1>1. PerfInv => PerfTypeOK /\ FiguresAreOfTheLast
    <2> SUFFICES ASSUME PerfInv PROVE PerfTypeOK /\ FiguresAreOfTheLast
      OBVIOUS
    <2>1. \A s \in DOMAIN m_stages : Holds(m_stages[s], measured[s])
      BY DEF PerfInv
    <2>2. FiguresAreOfTheLast
      BY <2>1, FiguresFollow DEF FiguresAreOfTheLast
    <2>3. \A s \in DOMAIN m_stages :
            /\ m_stages[s].m_size \in 0 .. Capacity /\ m_stages[s].m_sum \in Nat
            /\ m_stages[s].m_head = 0 \/ m_stages[s].m_head \in 0 .. Capacity - 1
            /\ m_stages[s].m_ring \in [0 .. Capacity - 1 -> Times \cup {0}]
      BY <2>1, PerfAssumption DEF Holds, Stats
    <2> QED BY <2>2, <2>3 DEF PerfInv, PerfTypeOK
  <1> QED BY <1>1, InitPerfInv, NextPerfInv, PTL DEF PerfSpec
-----------------------------------------------------------------------------
(***************************************************************************)
(* Theorems about all of them.                                             *)
(*                                                                         *)
(* Each part behaves by its own specification, though only one is alive.   *)
(***************************************************************************)

(* The parts of a graph share nothing: MCNodes, in which one of them lives *)
(* and the others rest, implements the specification of every part.        *)
THEOREM PartsBehave ==
  Spec => ChatSpec /\ LogSpec /\ SourceSpec /\ SamplerSpec /\ ShaderSpec /\ PerfSpec /\ OutputSpec
  <1>1. Init => ChatInit /\ LogInit /\ SourceInit /\ SamplerInit /\ ShaderInit /\ PerfInit /\ OutputInit
    BY DEF Init
  <1>2. [Next]_Vars => [ChatNext]_chatVars
    BY DEF Next, Vars
  <1>3. [Next]_Vars => [LogNext]_logVars
    BY DEF Next, Vars
  <1>4. [Next]_Vars => [SourceNext]_sourceVars
    BY DEF Next, Vars
  <1>5. [Next]_Vars => [SamplerNext]_samplerVars
    BY DEF Next, Vars
  <1>6. [Next]_Vars => [ShaderNext]_shaderVars
    BY DEF Next, Vars
  <1>7. [Next]_Vars => [PerfNext]_perfVars
    BY DEF Next, Vars
  <1>8. [Next]_Vars => [OutputNext]_outputVars
    BY DEF Next, Vars
  <1> QED BY <1>1, <1>2, <1>3, <1>4, <1>5, <1>6, <1>7, <1>8, PTL
          DEF Spec, ChatSpec, LogSpec, SourceSpec, SamplerSpec, ShaderSpec, PerfSpec, OutputSpec

(* What is measured is measured right, the rate of the frames and the      *)
(* figures of the profiler: FrameSamplerNode and RollingStats.             *)
THEOREM MetersStayTrue == Spec => []MetersAreTrue
  <1>1. SamplerTypeOK /\ RateIsKept /\ PerfTypeOK /\ FiguresAreOfTheLast => MetersAreTrue
    BY DEF MetersAreTrue
  <1> QED BY <1>1, PartsBehave, RateStaysKept, FiguresStayRight, PTL

(* Every property that is checked of the parts, but that broken windows go *)
(* in the end, holds of the graph: one part's life disturbs no other's.    *)
THEOREM GraphStaysSound ==
  Spec => /\ [](DisplayIsActive /\ RequestsAreSound /\ ConsoleIsTrue /\ SourceIsSound)
          /\ [](MetersAreTrue /\ EveryTextureReturns)
          /\ [](SurfacesAreRight /\ FrameIsShown)
          /\ PlaysWhatIsNamed /\ RunsTheEditedShader
  <1>1. Spec => /\ []DisplayIsActive /\ []RequestsAreSound /\ []ConsoleIsTrue
                /\ []SourceIsSound /\ []EveryTextureReturns
    BY PartsBehave, DisplayStaysActive, RequestsStaySound, ConsoleStaysTrue, SourcesAreSound, TexturesReturn, PTL
  <1>2. Spec => PlaysWhatIsNamed /\ RunsTheEditedShader
    BY PartsBehave, ClicksPlayWhatIsNamed, EditedShaderRuns, PTL
  <1>3. Spec => []SurfacesAreRight /\ []FrameIsShown
    BY PartsBehave, SurfacesStayRight, FramesAreShown, PTL
  <1> QED BY <1>1, <1>2, <1>3, MetersStayTrue, PTL
=============================================================================
