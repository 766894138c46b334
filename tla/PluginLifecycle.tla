--------------------------- MODULE PluginLifecycle ---------------------------
(***************************************************************************)
(* The life of the plugins: QPluginManager with its PluginRegistry,        *)
(* PluginPersistence and PluginDiscovery, and the interface (root) object  *)
(* of each loaded library, in every Daqster process of one user.  The      *)
(* processes share one thing, the .ini file; each of them reads it once,   *)
(* in the constructor of QPluginManager, and later only writes it.         *)
(*                                                                         *)
(* A plugin is known by the hash of its file.  A process runs one handler  *)
(* at a time, so a handler is one action, except where it runs a plugin's  *)
(* own code: CreatePluginObject is cut at the constructor of the plugin    *)
(* object, where the process may crash.  What a constructor may do before  *)
(* it returns is to find its own plugin marked; that instances(), called   *)
(* from there, also creates the first objects of other plugins is left     *)
(* out.  deleteLater() only marks its object; the event loop deletes it in *)
(* a later action.  SearchForPlugins has one caller, the start of the      *)
(* program, when nothing is registered.                                    *)
(***************************************************************************)
EXTENDS Naturals

CONSTANTS
  Proc,                 \* the processes that use the same .ini file
  Hash,                 \* the contents a plugin file may have
  BadHash,              \* those that are not a plugin of this framework
  NLoc,                 \* the number of plugin files on the search path
  MaxObjects,           \* bound: objects of one plugin in one process
  NoHash,               \* no file at a location, or no plugin
  Reentrant,            \* may a plugin's constructor call instances()?
  Disturbed             \* the plugins for which calls may come between the
                        \* deleteLater of the interface and the unloading

ASSUME ConstantsAssumption ==
  /\ NLoc \in Nat /\ MaxObjects \in Nat
  /\ BadHash \subseteq Hash /\ NoHash \notin Hash
  /\ Reentrant \in BOOLEAN /\ Disturbed \subseteq Hash

Loc    == 1 .. NLoc     \* in the order of the search path
Health == {"none", "IF_LOADED", "OBJECT_CREATION", "HEALTHY", "ILL"}

(* A description, in the registry or in the .ini file.                     *)
Entry   == [enabled : BOOLEAN, health : Health, loc : 0 .. NLoc]
NoEntry == [enabled |-> FALSE, health |-> "none", loc |-> 0]

(* The root object of a library, "doomed" once deleteLater() is called on  *)
(* it; live and dying count the objects of its m_PluginInstList.           *)
Root   == [state : {"none", "live", "doomed"}, enabled : BOOLEAN,
           health : Health, live : Nat, dying : Nat]
NoRoot == [state |-> "none", enabled |-> FALSE, health |-> "none",
           live |-> 0, dying |-> 0]

VARIABLES
  file,        \* what is at each location on the disk
  ini,         \* the [Plugins] section of the .ini file
  pc,          \* "init" is PluginsInit, "run" the rest up to aboutToQuit
  todo,        \* the plugins PluginsInit has still to try
  descs,       \* PluginRegistry::m_descriptions
  m_pluginMap, \* the hashes with an interface in PluginRegistry
  root,        \* the root object of each library
  loader,      \* the QPluginLoaderExt that owns the loaded library
  orphans,     \* objects whose interface was deleted before them
  busy         \* the plugin whose object is being constructed

procVars == <<pc, todo, descs, m_pluginMap, root, loader, orphans, busy>>
pvars    == <<file, ini, procVars>>

TypeOK ==
  /\ file \in [Loc -> Hash \cup {NoHash}]
  /\ ini \in [Hash -> Entry]
  /\ pc \in [Proc -> {"down", "init", "run", "quit"}]
  /\ todo \in [Proc -> SUBSET Hash]
  /\ descs \in [Proc -> [Hash -> Entry]]
  /\ m_pluginMap \in [Proc -> SUBSET Hash]
  /\ root \in [Proc -> [Hash -> Root]]
  /\ loader \in [Proc -> [Hash -> {"none", "held", "dropped"}]]
  /\ orphans \in [Proc -> [Hash -> Nat]]
  /\ busy \in [Proc -> Hash \cup {NoHash}]

Init ==
  /\ file \in [Loc -> Hash \cup {NoHash}]
  /\ ini = [h \in Hash |-> NoEntry]
  /\ pc = [p \in Proc |-> "down"]
  /\ todo = [p \in Proc |-> {}]
  /\ descs = [p \in Proc |-> [h \in Hash |-> NoEntry]]
  /\ m_pluginMap = [p \in Proc |-> {}]
  /\ root = [p \in Proc |-> [h \in Hash |-> NoRoot]]
  /\ loader = [p \in Proc |-> [h \in Hash |-> "none"]]
  /\ orphans = [p \in Proc |-> [h \in Hash |-> 0]]
  /\ busy = [p \in Proc |-> NoHash]

-----------------------------------------------------------------------------
(* Loading a library.  QPluginLoader::instance() returns the one root      *)
(* object of the library, so a doomed root comes back doomed, with its     *)
(* list of objects.  SetPluginLoader drops the loader the root held; the   *)
(* loader that found the library unloaded is the one that unloads it.      *)
Mapped(p, h)      == loader[p][h] # "none"
Loadable(p, h, l) == Mapped(p, h) \/ file[l] \in Hash \ BadHash

LoadPluginInterfaceObject(r, en) ==
  [r EXCEPT !.state = IF @ = "none" THEN "live" ELSE @,
            !.enabled = en, !.health = "IF_LOADED"]

Held(s) == IF s = "none" THEN "held" ELSE "dropped"

Descriptor(r, l) == [enabled |-> r.enabled, health |-> r.health, loc |-> l]

SaveMut(h, d) == UNCHANGED ini
savePluginState(h, d) == ini' = [ini EXCEPT ![h] = d]

(* The start: the entries whose file is gone or has other content are      *)
(* stale and leave the .ini file, the files nobody describes are loaded    *)
(* (newPlugins[hash] is assigned at every file that has the content, so    *)
(* the last one on the search path stays), and PluginsInit goes over the   *)
(* enabled plugins.                                                        *)
Stale(h) ==
  ini[h] # NoEntry /\ (ini[h].loc = 0 \/ file[ini[h].loc] # h)

Discovered(h) ==
  {l \in Loc : /\ file[l] = h /\ h \in Hash \ BadHash
               /\ ini[h] = NoEntry \/ Stale(h)
               /\ \A k \in Loc : file[k] = h => k <= l}

Start(p) ==
  LET known(h) == IF Stale(h) THEN NoEntry ELSE ini[h]
      fresh    == {h \in Hash : Discovered(h) # {}}
      loaded   == LoadPluginInterfaceObject(NoRoot, TRUE)
      now      == [h \in Hash |-> IF h \in fresh
                     THEN Descriptor(loaded, CHOOSE l \in Loc : l \in Discovered(h))
                     ELSE known(h)]
  IN /\ pc[p] = "down"
     /\ pc' = [pc EXCEPT ![p] = "init"]
     /\ ini' = [h \in Hash |-> known(h)]
     /\ descs' = [descs EXCEPT ![p] = now]
     /\ m_pluginMap' = [m_pluginMap EXCEPT ![p] = fresh]
     /\ root' = [root EXCEPT ![p] = [h \in Hash |-> IF h \in fresh THEN loaded ELSE NoRoot]]
     /\ loader' = [loader EXCEPT ![p] = [h \in Hash |-> IF h \in fresh THEN "held" ELSE "none"]]
     /\ todo' = [todo EXCEPT ![p] = {h \in Hash : now[h].enabled}]
     /\ UNCHANGED <<file, orphans, busy>>

-----------------------------------------------------------------------------
(* Creating an object: CreatePluginObject of a caller, or of instances()   *)
(* for a plugin that has none.                                             *)
Calm(p) ==
  \A h \in Hash \ Disturbed : root[p][h].state # "doomed" /\ loader[p][h] # "dropped"

Asked(p, h) == \/ pc[p] = "init" /\ h \in todo[p]
               \/ pc[p] = "run" /\ Calm(p)

(* Will the manager load the library first?                                *)
NeedsLoadMut(p, h) ==
  h \notin m_pluginMap[p] /\ descs[p][h].enabled /\ Loadable(p, h, descs[p][h].loc)
NeedsLoad(p, h) ==
  /\ h \notin m_pluginMap[p]
  /\ descs[p][h].enabled /\ descs[p][h].health # "ILL"
  /\ Loadable(p, h, descs[p][h].loc)

(* The root object once it is loaded, and whether the registry goes on to  *)
(* the constructor.                                                        *)
RootFor(p, h) ==
  IF NeedsLoad(p, h) THEN LoadPluginInterfaceObject(root[p][h], descs[p][h].enabled)
                     ELSE root[p][h]

Constructs(p, h) ==
  /\ h \in m_pluginMap[p] \/ NeedsLoad(p, h)
  /\ RootFor(p, h).enabled
  /\ RootFor(p, h).health \notin {"ILL", "OBJECT_CREATION"}

MarkMut(r) == r
Mark(r)    == IF r.health = "IF_LOADED" THEN [r EXCEPT !.health = "OBJECT_CREATION"] ELSE r

(* Up to the call of the plugin's constructor.  A plugin that was only     *)
(* loaded so far is first marked, and the mark persisted.                  *)
CreatePluginObject(p, h) ==
  LET r == RootFor(p, h)
      first == r.health = "IF_LOADED"
  IN /\ Asked(p, h) /\ busy[p] = NoHash /\ Constructs(p, h)
     /\ r.live + r.dying + orphans[p][h] < MaxObjects
     /\ busy' = [busy EXCEPT ![p] = h]
     /\ root' = [root EXCEPT ![p][h] = Mark(r)]
     /\ loader' = IF NeedsLoad(p, h) THEN [loader EXCEPT ![p][h] = Held(@)] ELSE loader
     /\ m_pluginMap' = [m_pluginMap EXCEPT ![p] = @ \cup {h}]
     /\ descs' = IF first THEN [descs EXCEPT ![p][h] = Descriptor(Mark(r), @.loc)] ELSE descs
     /\ IF first THEN savePluginState(h, descs'[p][h]) ELSE UNCHANGED ini
     /\ UNCHANGED <<file, pc, todo, orphans>>

(* PluginsInit goes on to the next plugin when it gets a null pointer.     *)
SkipPlugin(p, h) ==
  /\ pc[p] = "init" /\ h \in todo[p] /\ busy[p] = NoHash /\ ~Constructs(p, h)
  /\ todo' = [todo EXCEPT ![p] = @ \ {h}]
  /\ UNCHANGED <<file, ini, pc, descs, m_pluginMap, root, loader, orphans, busy>>

(* A registered plugin found marked is taken for one that crashed.         *)
RecoverFromCrash(p, h) ==
  LET ill == [root[p][h] EXCEPT !.health = "ILL"]
  IN /\ IF busy[p] = NoHash THEN Asked(p, h) ELSE Reentrant
     /\ h \in m_pluginMap[p] /\ root[p][h].enabled
     /\ root[p][h].health = "OBJECT_CREATION"
     /\ root' = [root EXCEPT ![p][h] = ill]
     /\ descs' = [descs EXCEPT ![p][h] = Descriptor(ill, @.loc)]
     /\ savePluginState(h, descs'[p][h])
     /\ UNCHANGED <<file, pc, todo, m_pluginMap, loader, orphans, busy>>

(* The constructor returns an object, or none.  PluginsInit calls          *)
(* deleteLater() on the object at once.                                    *)
ConstructorReturns(p, ok) ==
  LET h == busy[p]
      r == root[p][h]
      grown == IF ~ok THEN r
               ELSE IF pc[p] = "init" THEN [r EXCEPT !.dying = @ + 1]
               ELSE [r EXCEPT !.live = @ + 1]
      health == IF ok THEN "HEALTHY" ELSE "ILL"
      new    == [grown EXCEPT !.health = health]
  IN /\ h # NoHash
     /\ busy' = [busy EXCEPT ![p] = NoHash]
     /\ todo' = [todo EXCEPT ![p] = @ \ {h}]
     /\ root' = [root EXCEPT ![p][h] = new]
     /\ descs' = IF r.health # health THEN [descs EXCEPT ![p][h] = Descriptor(new, @.loc)] ELSE descs
     /\ IF r.health # health THEN savePluginState(h, descs'[p][h]) ELSE UNCHANGED ini
     /\ UNCHANGED <<file, pc, m_pluginMap, loader, orphans>>

InitDone(p) ==
  /\ pc[p] = "init" /\ todo[p] = {}
  /\ pc' = [pc EXCEPT ![p] = "run"]
  /\ UNCHANGED <<file, ini, todo, descs, m_pluginMap, root, loader, orphans, busy>>

-----------------------------------------------------------------------------
(* ShutdownPluginObject of every object of an interface: deleteLater().    *)
ShutdownMut(r) == r
ShutdownAllPluginObjects(r) == [r EXCEPT !.dying = @ + r.live, !.live = 0]

EnableDisableMut(p, h, en) ==
  LET r == root[p][h]
  IN /\ pc[p] = "run" /\ busy[p] = NoHash
     /\ descs[p][h] # NoEntry /\ descs[p][h].enabled # en
     /\ descs' = [descs EXCEPT ![p][h].enabled = en]
     /\ root' = IF h \in m_pluginMap[p]
                THEN [root EXCEPT ![p][h] = IF en THEN r ELSE ShutdownAllPluginObjects(r)]
                ELSE root
     /\ savePluginState(h, descs'[p][h])
     /\ UNCHANGED <<file, pc, todo, m_pluginMap, loader, orphans, busy>>

EnableDisablePlugin(p, h, en) ==
  LET r == [root[p][h] EXCEPT !.enabled = en]
  IN /\ pc[p] = "run" /\ busy[p] = NoHash
     /\ descs[p][h] # NoEntry /\ descs[p][h].enabled # en
     /\ descs' = [descs EXCEPT ![p][h].enabled = en]
     /\ root' = IF h \in m_pluginMap[p]
                THEN [root EXCEPT ![p][h] = IF en THEN r ELSE ShutdownAllPluginObjects(r)]
                ELSE root
     /\ savePluginState(h, descs'[p][h])
     /\ UNCHANGED <<file, pc, todo, m_pluginMap, loader, orphans, busy>>

(* aboutToQuit; libraries are not unloaded any more.                       *)
ShutdownPluginManager(p) ==
  /\ pc[p] = "run" /\ busy[p] = NoHash
  /\ pc' = [pc EXCEPT ![p] = "quit"]
  /\ root' = [root EXCEPT ![p] = [h \in Hash |->
                IF h \in m_pluginMap[p] THEN ShutdownAllPluginObjects(@[h]) ELSE @[h]]]
  /\ UNCHANGED <<file, ini, todo, descs, m_pluginMap, loader, orphans, busy>>

-----------------------------------------------------------------------------
(* What the event loop deletes.                                            *)
Looping(p) == pc[p] \in {"run", "quit"} /\ busy[p] = NoHash

DestroyedNotTakenMut(p, h, r) ==
  LET last == r.live + r.dying = 0 /\ h \in m_pluginMap[p]
  IN /\ root' = [root EXCEPT ![p][h] = IF last THEN [r EXCEPT !.state = "doomed"] ELSE r]
     /\ m_pluginMap' = [m_pluginMap EXCEPT ![p] = @]
     /\ UNCHANGED <<file, ini, pc, todo, descs, loader, orphans, busy>>

DestroyedEarlyMut(p, h, r) ==
  LET last == r.live + r.dying <= 1 /\ h \in m_pluginMap[p]
  IN /\ root' = [root EXCEPT ![p][h] = IF last THEN [r EXCEPT !.state = "doomed"] ELSE r]
     /\ m_pluginMap' = [m_pluginMap EXCEPT ![p] = IF last THEN @ \ {h} ELSE @]
     /\ UNCHANGED <<file, ini, pc, todo, descs, loader, orphans, busy>>

(* pluginInstanceDestroyed; the last one emits AllPluginObjectsDestroyed,  *)
(* whose slot takes the interface out of the map and dooms it.             *)
pluginInstanceDestroyed(p, h, r) ==
  LET last == r.live + r.dying = 0 /\ h \in m_pluginMap[p]
  IN /\ root' = [root EXCEPT ![p][h] = IF last THEN [r EXCEPT !.state = "doomed"] ELSE r]
     /\ m_pluginMap' = [m_pluginMap EXCEPT ![p] = IF last THEN @ \ {h} ELSE @]
     /\ UNCHANGED <<file, ini, pc, todo, descs, loader, orphans, busy>>

(* The owner of an object calls deleteLater() or delete on it.             *)
ReleaseObject(p, h) ==
  /\ Looping(p) /\ root[p][h].live > 0
  /\ root' = [root EXCEPT ![p][h].live = @ - 1, ![p][h].dying = @ + 1]
  /\ UNCHANGED <<file, ini, pc, todo, descs, m_pluginMap, loader, orphans, busy>>

DeleteObject(p, h) ==
  /\ Looping(p) /\ root[p][h].live > 0
  /\ pluginInstanceDestroyed(p, h, [root[p][h] EXCEPT !.live = @ - 1])

ObjectDestroyed(p, h) ==
  /\ Looping(p) /\ root[p][h].dying > 0
  /\ pluginInstanceDestroyed(p, h, [root[p][h] EXCEPT !.dying = @ - 1])

(* ~QPluginInterface: destroyed() removes the hash from the map, whoever   *)
(* is registered there by now, the loader is dropped, and the objects that *)
(* are left are nobody's.                                                  *)
Bury(p, h) ==
  /\ root' = [root EXCEPT ![p][h] = NoRoot]
  /\ m_pluginMap' = [m_pluginMap EXCEPT ![p] = @ \ {h}]
  /\ orphans' = [orphans EXCEPT ![p][h] = @ + root[p][h].live + root[p][h].dying]
  /\ UNCHANGED <<file, ini, pc, todo, descs, busy>>

InterfaceDeletedMut(p, h) ==
  Looping(p) /\ root[p][h].state = "doomed" /\ Bury(p, h) /\ UNCHANGED loader

InterfaceDeleted(p, h) ==
  /\ Looping(p) /\ root[p][h].state = "doomed"
  /\ Bury(p, h)
  /\ loader' = [loader EXCEPT ![p][h] = "dropped"]

(* ~QPluginLoaderExt unloads the library, and unloading deletes a root     *)
(* object that still (or again) exists.                                    *)
LoaderDeleted(p, h) ==
  /\ pc[p] = "run" /\ busy[p] = NoHash /\ loader[p][h] = "dropped"
  /\ Bury(p, h)
  /\ loader' = [loader EXCEPT ![p][h] = "none"]

OrphanDestroyed(p, h) ==
  /\ Looping(p) /\ orphans[p][h] > 0
  /\ orphans' = [orphans EXCEPT ![p][h] = @ - 1]
  /\ UNCHANGED <<file, ini, pc, todo, descs, m_pluginMap, root, loader, busy>>

-----------------------------------------------------------------------------
(* The end of a process: after the event loop has deleted what was doomed, *)
(* or by a crash, anywhere.                                                *)
Gone(p) ==
  /\ pc' = [pc EXCEPT ![p] = "down"]
  /\ todo' = [todo EXCEPT ![p] = {}]
  /\ descs' = [descs EXCEPT ![p] = [h \in Hash |-> NoEntry]]
  /\ m_pluginMap' = [m_pluginMap EXCEPT ![p] = {}]
  /\ root' = [root EXCEPT ![p] = [h \in Hash |-> NoRoot]]
  /\ loader' = [loader EXCEPT ![p] = [h \in Hash |-> "none"]]
  /\ orphans' = [orphans EXCEPT ![p] = [h \in Hash |-> 0]]
  /\ busy' = [busy EXCEPT ![p] = NoHash]
  /\ UNCHANGED <<file, ini>>

Exit(p) ==
  /\ pc[p] = "quit"
  /\ \A h \in Hash : root[p][h].dying = 0 /\ root[p][h].state # "doomed"
  /\ Gone(p)

Crash(p) == pc[p] # "down" /\ Gone(p)

(* Somebody builds, replaces or removes a plugin file.                     *)
FileChanges(l, h) ==
  /\ file' = [file EXCEPT ![l] = h]
  /\ UNCHANGED <<ini, procVars>>

-----------------------------------------------------------------------------
Deferred(p) ==
  \E h \in Hash : ObjectDestroyed(p, h) \/ InterfaceDeleted(p, h) \/ LoaderDeleted(p, h)

ProcNext(p) ==
  \/ Start(p) \/ InitDone(p) \/ ShutdownPluginManager(p) \/ Exit(p) \/ Crash(p)
  \/ \E ok \in BOOLEAN : ConstructorReturns(p, ok)
  \/ \E h \in Hash : \/ CreatePluginObject(p, h) \/ SkipPlugin(p, h)
                     \/ RecoverFromCrash(p, h)
                     \/ ReleaseObject(p, h) \/ DeleteObject(p, h)
                     \/ OrphanDestroyed(p, h)
                     \/ \E en \in BOOLEAN : EnableDisablePlugin(p, h, en)
  \/ Deferred(p)

Next ==
  \/ \E p \in Proc : ProcNext(p)
  \/ \E l \in Loc, h \in Hash \cup {NoHash} : FileChanges(l, h)

Spec == Init /\ [][Next]_pvars

(* The event loop of a running process delivers what was posted: it takes  *)
(* the posted events in their order, so it starves none of them.           *)
FairSpec ==
  /\ Spec
  /\ \A p \in Proc, h \in Hash : /\ WF_pvars(ObjectDestroyed(p, h))
                                 /\ WF_pvars(InterfaceDeleted(p, h))
                                 /\ WF_pvars(LoaderDeleted(p, h))
-----------------------------------------------------------------------------
(* A registered plugin has a description, and its copy of the enabled flag *)
(* and of the health is the one in the interface itself: the guards of     *)
(* CreatePluginObject read the one before loading and the other after.     *)
CopiesAgree ==
  \A p \in Proc : \A h \in m_pluginMap[p] :
    /\ descs[p][h].health # "none"
    /\ descs[p][h].health = root[p][h].health
    /\ descs[p][h].enabled = root[p][h].enabled

(* While a plugin's first constructor runs in the only process, the .ini   *)
(* file says so: a crash there leaves its mark (PluginRegistry.cpp:92).    *)
CrashIsMarked ==
  \A p \in Proc : busy[p] # NoHash =>
    ini[busy[p]].health = root[p][busy[p]].health /\ ini[busy[p]].health # "IF_LOADED"

(* The only process never shows a plugin otherwise than its next start     *)
(* will: its description of a plugin is the entry of the .ini file, and a  *)
(* plugin without an entry is enabled and was only loaded                  *)
(* (QPluginManager.cpp:171, EnableDisablePlugin with its persistence).     *)
IniIsCopy ==
  \A p \in Proc, h \in Hash : pc[p] # "down" =>
    IF ini[h] # NoEntry THEN descs[p][h] = ini[h]
    ELSE descs[p][h] = NoEntry \/ (descs[p][h].enabled /\ descs[p][h].health = "IF_LOADED")

(* Strengthenings for the proofs: what a process that is down, or inside a *)
(* constructor, looks like.                                                *)
DownIsEmpty ==
  \A p \in Proc : pc[p] = "down" =>
    m_pluginMap[p] = {} /\ busy[p] = NoHash /\ \A h \in Hash : descs[p][h] = NoEntry

BusyIsMarked ==
  \A p \in Proc : busy[p] # NoHash =>
    /\ pc[p] # "down" /\ busy[p] \in m_pluginMap[p]
    /\ descs[p][busy[p]].health \in {"OBJECT_CREATION", "HEALTHY", "ILL"}
    /\ ~Reentrant => descs[p][busy[p]].health # "ILL"

(* A plugin that gave no object stays ILL in the .ini file, over every     *)
(* restart, until its file changes: "To enable Plugin please change        *)
(* HealthyState state in configuration .ini file" (PluginRegistry.cpp:86). *)
(* Only one that was found ILL while its own constructor ran is healthy    *)
(* again, when that constructor returns an object.                         *)
IllIsFinal ==
  [][\A h \in Hash : ini[h].health = "ILL" =>
       \/ ini'[h] = NoEntry \/ ini'[h].health = "ILL"
       \/ Reentrant /\ \E p \in Proc : busy[p] = h /\ ConstructorReturns(p, TRUE)]_pvars

(* A plugin that was disabled and saved as such comes back only when       *)
(* somebody enables it (QPluginManager.cpp:412, "Preserve the persisted    *)
(* enabled state").                                                        *)
DisableSticks ==
  [][\A h \in Hash : ini[h] # NoEntry /\ ~ini[h].enabled /\ ini'[h].enabled
       => \E p \in Proc : EnableDisablePlugin(p, h, TRUE)]_pvars

(* A plugin whose constructor crashed the program is not constructed again *)
(* (PluginRegistry.cpp:75, "if last time we crashed during                 *)
(* OBJECT_CREATION, disable").                                             *)
CrashedIsDisabled ==
  [][\A p \in Proc, h \in Hash :
       busy[p] = NoHash /\ busy'[p] = h => ini[h].health # "OBJECT_CREATION"]_pvars

(* The code of a library is there as long as an object of it is: it is     *)
(* unloaded when all of them are destroyed (QPluginManager.cpp:359).  Not  *)
(* so when a call comes in the middle of it, which is said of all plugins  *)
(* but these, here and below.                                              *)
HasItsCode(p, h) ==
  root[p][h].live + root[p][h].dying + orphans[p][h] > 0 => Mapped(p, h)

CodeOutlivesObjects == \A p \in Proc, h \in Hash \ Disturbed : HasItsCode(p, h)

CodeAlwaysOutlives == \A p \in Proc, h \in Hash : HasItsCode(p, h)

(* No interface in the registry is about to be deleted.                    *)
RegisteredIsLive ==
  \A p \in Proc : \A h \in m_pluginMap[p] \ Disturbed :
    root[p][h].state = "live" /\ loader[p][h] = "held"

(* A disabled plugin has no object that is not going away, whichever way   *)
(* its interface was unloaded and loaded before.                           *)
DisabledIsEmpty ==
  \A p \in Proc, h \in Hash \ Disturbed :
    descs[p][h] # NoEntry /\ ~descs[p][h].enabled =>
      root[p][h].live = 0 /\ orphans[p][h] = 0 /\ busy[p] # h

(* The shutdown reaches every object: none is left that is not going away. *)
ShutdownReachesAll ==
  \A p \in Proc, h \in Hash \ Disturbed :
    pc[p] = "quit" => root[p][h].live = 0 /\ orphans[p][h] = 0

(* Neither disabling nor the shutdown, which reach objects through the     *)
(* interfaces that are registered just then, passes an object by.          *)
ObjectsAreReached == DisabledIsEmpty /\ ShutdownReachesAll

(* An interface without objects is unloaded, unless the program ends.      *)
UnusedIsUnloaded ==
  \A p \in Proc, h \in Hash \ Disturbed :
    root[p][h].state = "doomed" ~> ~Mapped(p, h) \/ pc[p] = "quit"
=============================================================================
