------------------------ MODULE PluginLifecycleProofs ------------------------
(* Theorems about PluginLifecycle, for all processes, plugins and bounds.    *)
EXTENDS PluginLifecycle, TLAPS

-----------------------------------------------------------------------------
(* Updates of the maps.                                                    *)

(* Setting one entry of a map of maps keeps its type and changes nothing   *)
(* else.                                                                   *)
LEMMA UpdateTyped ==
  ASSUME NEW S, NEW f \in [Proc -> [Hash -> S]],
         NEW p \in Proc, NEW h \in Hash, NEW v \in S
  PROVE  /\ [f EXCEPT ![p][h] = v] \in [Proc -> [Hash -> S]]
         /\ \A q \in Proc, k \in Hash :
              [f EXCEPT ![p][h] = v][q][k] = IF q = p /\ k = h THEN v ELSE f[q][k]
  OBVIOUS

(* One root object, or one description, replaced by another.               *)
LEMMA RootUpdate ==
  ASSUME TypeOK, NEW p \in Proc, NEW h \in Hash, NEW r \in Root,
         root' = [root EXCEPT ![p][h] = r]
  PROVE  root' \in [Proc -> [Hash -> Root]]
  <1>1. root \in [Proc -> [Hash -> Root]]
    BY DEF TypeOK
  <1> QED BY <1>1, UpdateTyped

LEMMA DescsUpdate ==
  ASSUME TypeOK, NEW p \in Proc, NEW h \in Hash, NEW d \in Entry,
         descs' = descs \/ descs' = [descs EXCEPT ![p][h] = d]
  PROVE  descs' \in [Proc -> [Hash -> Entry]]
  <1>1. descs \in [Proc -> [Hash -> Entry]]
    BY DEF TypeOK
  <1>2. [descs EXCEPT ![p][h] = d] \in [Proc -> [Hash -> Entry]]
    BY <1>1, UpdateTyped
  <1> QED BY <1>1, <1>2

(* A description that is saved leaves the .ini file well typed.            *)
LEMMA SaveTyped ==
  ASSUME TypeOK, NEW p \in Proc, NEW h \in Hash,
         descs' \in [Proc -> [Hash -> Entry]],
         savePluginState(h, descs'[p][h]) \/ UNCHANGED ini
  PROVE  ini' \in [Hash -> Entry]
  <1>1. ini \in [Hash -> Entry]
    BY DEF TypeOK
  <1>2. descs'[p][h] \in Entry
    OBVIOUS
  <1> DEFINE d == descs'[p][h]
  <1> HIDE DEF d
  <1>3. ini' = ini \/ ini' = [ini EXCEPT ![h] = d]
    BY DEF savePluginState, d
  <1>4. d \in Entry
    BY <1>2 DEF d
  <1> QED BY <1>1, <1>3, <1>4

-----------------------------------------------------------------------------
(* The operators that build a root object or a description.                *)

(* A root object that was loaded, marked or shut down is still a root      *)
(* object, and loading, marking and shutting down keep the object counts.  *)
LEMMA RootOperators ==
  ASSUME NEW r \in Root
  PROVE  /\ \A en \in BOOLEAN : LoadPluginInterfaceObject(r, en) \in Root
         /\ Mark(r) \in Root
         /\ ShutdownAllPluginObjects(r) \in Root
         /\ r.live + r.dying \in Nat
         /\ \A l \in 0 .. NLoc : Descriptor(r, l) \in Entry
  <1>1. \A en \in BOOLEAN : LoadPluginInterfaceObject(r, en) \in Root
    BY DEF Root, Health, LoadPluginInterfaceObject
  <1>2. Mark(r) \in Root
    BY DEF Root, Health, Mark
  <1>3. r.live \in Nat /\ r.dying \in Nat
    BY DEF Root
  <1>4. ShutdownAllPluginObjects(r) \in Root
    <2>1. r.dying + r.live \in Nat /\ 0 \in Nat
      BY <1>3
    <2> DEFINE n == r.dying + r.live
    <2> HIDE DEF n
    <2>2. ShutdownAllPluginObjects(r) = [r EXCEPT !.dying = n, !.live = 0]
      BY DEF ShutdownAllPluginObjects, n
    <2>3. n \in Nat
      BY <2>1 DEF n
    <2> QED BY <2>1, <2>2, <2>3 DEF Root
  <1>5. \A l \in 0 .. NLoc : Descriptor(r, l) \in Entry
    BY DEF Root, Entry, Descriptor
  <1> QED BY <1>1, <1>2, <1>3, <1>4, <1>5

LEMMA EmptyTyped == NLoc \in Nat => NoEntry \in Entry /\ NoRoot \in Root
  BY DEF Entry, NoEntry, Root, NoRoot, Health

(* What RootFor hands to the constructor is a root object.                 *)
LEMMA RootForTyped ==
  ASSUME TypeOK, NEW p \in Proc, NEW h \in Hash
  PROVE  RootFor(p, h) \in Root
  <1>1. root[p][h] \in Root /\ descs[p][h].enabled \in BOOLEAN
    BY DEF TypeOK, Entry
  <1> QED BY <1>1, RootOperators DEF RootFor

-----------------------------------------------------------------------------
LEMMA TypeInit == Init => TypeOK
  BY ConstantsAssumption, EmptyTyped DEF Init, TypeOK, Loc

(* The start of a process builds well-typed maps.                          *)
LEMMA TypeStart ==
  ASSUME TypeOK, NEW p \in Proc, Start(p)
  PROVE  TypeOK'
  <1> DEFINE loaded == LoadPluginInterfaceObject(NoRoot, TRUE)
             known(h) == IF Stale(h) THEN NoEntry ELSE ini[h]
             fresh == {h \in Hash : Discovered(h) # {}}
             new(h) == Descriptor(loaded, CHOOSE l \in Loc : l \in Discovered(h))
  <1>1. loaded \in Root
    BY ConstantsAssumption, EmptyTyped, RootOperators
  <1>2. \A h \in Hash : known(h) \in Entry
    BY ConstantsAssumption, EmptyTyped DEF TypeOK
  <1>3. ASSUME NEW h \in fresh PROVE new(h) \in Entry
    <2>1. \E l \in Loc : l \in Discovered(h)
      BY <1>3 DEF Discovered
    <2>2. (CHOOSE l \in Loc : l \in Discovered(h)) \in 0 .. NLoc
      BY <2>1, ConstantsAssumption DEF Loc
    <2> QED BY <2>2, <1>1, RootOperators
  <1> HIDE DEF loaded, known, new
  <1>4. ini' \in [Hash -> Entry]
    BY <1>2 DEF Start, known
  <1>5. [h \in Hash |-> IF h \in fresh THEN new(h) ELSE known(h)] \in [Hash -> Entry]
    BY <1>2, <1>3
  <1>6. descs' \in [Proc -> [Hash -> Entry]]
    BY <1>5 DEF Start, TypeOK, known, new, loaded
  <1>7. [h \in Hash |-> IF h \in fresh THEN loaded ELSE NoRoot] \in [Hash -> Root]
    BY <1>1, ConstantsAssumption, EmptyTyped
  <1>8. root' \in [Proc -> [Hash -> Root]]
    BY <1>7 DEF Start, TypeOK, loaded
  <1>9. /\ m_pluginMap' \in [Proc -> SUBSET Hash]
        /\ loader' \in [Proc -> [Hash -> {"none", "held", "dropped"}]]
        /\ todo' \in [Proc -> SUBSET Hash]
        /\ pc' \in [Proc -> {"down", "init", "run", "quit"}]
    BY DEF Start, TypeOK
  <1> QED BY <1>4, <1>6, <1>8, <1>9 DEF Start, TypeOK

LEMMA TypeCreate ==
  ASSUME TypeOK, NEW p \in Proc, NEW h \in Hash, CreatePluginObject(p, h)
  PROVE  TypeOK'
  <1> DEFINE r == RootFor(p, h)
  <1>1. Mark(r) \in Root
    BY RootForTyped, RootOperators
  <1>2. descs[p][h].loc \in 0 .. NLoc
    BY DEF TypeOK, Entry
  <1>3. Descriptor(Mark(r), descs[p][h].loc) \in Entry
    BY <1>1, <1>2, RootOperators
  <1> HIDE DEF r
  <1>4. root' \in [Proc -> [Hash -> Root]]
    BY <1>1 DEF CreatePluginObject, TypeOK, r
  <1>5. descs' \in [Proc -> [Hash -> Entry]]
    <2>1. \/ descs' = descs
          \/ descs' = [descs EXCEPT ![p][h] = Descriptor(Mark(r), descs[p][h].loc)]
      BY DEF CreatePluginObject, TypeOK, r
    <2> QED BY <1>3, <2>1, DescsUpdate
  <1>6. ini' \in [Hash -> Entry]
    BY <1>5, SaveTyped DEF CreatePluginObject, TypeOK
  <1>7. loader' \in [Proc -> [Hash -> {"none", "held", "dropped"}]]
    BY DEF CreatePluginObject, TypeOK, Held
  <1>8. m_pluginMap' \in [Proc -> SUBSET Hash] /\ busy' \in [Proc -> Hash \cup {NoHash}]
    BY DEF CreatePluginObject, TypeOK
  <1> QED BY <1>4, <1>5, <1>6, <1>7, <1>8 DEF CreatePluginObject, TypeOK

LEMMA TypeRecover ==
  ASSUME TypeOK, NEW p \in Proc, NEW h \in Hash, RecoverFromCrash(p, h)
  PROVE  TypeOK'
  <1> DEFINE ill == [root[p][h] EXCEPT !.health = "ILL"]
  <1>1. ill \in Root /\ descs[p][h].loc \in 0 .. NLoc
    <2>1. root[p][h] \in Root /\ descs[p][h] \in Entry
      BY DEF TypeOK
    <2>2. ill \in Root
      BY <2>1 DEF Root, Health
    <2> QED BY <2>1, <2>2 DEF Entry
  <1>2. Descriptor(ill, descs[p][h].loc) \in Entry
    BY <1>1, RootOperators
  <1> HIDE DEF ill
  <1>3. root' \in [Proc -> [Hash -> Root]]
    BY <1>1, RootUpdate DEF RecoverFromCrash, ill
  <1>4. descs' \in [Proc -> [Hash -> Entry]]
    <2>1. descs' = [descs EXCEPT ![p][h] = Descriptor(ill, descs[p][h].loc)]
      BY DEF RecoverFromCrash, TypeOK, ill
    <2> QED BY <1>2, <2>1, DescsUpdate
  <1>5. ini' \in [Hash -> Entry]
    BY <1>4, SaveTyped DEF RecoverFromCrash
  <1> QED BY <1>3, <1>4, <1>5 DEF RecoverFromCrash, TypeOK

LEMMA TypeReturns ==
  ASSUME TypeOK, NEW p \in Proc, NEW ok \in BOOLEAN, ConstructorReturns(p, ok)
  PROVE  TypeOK'
  <1> DEFINE h == busy[p]
             r == root[p][h]
             grown == IF ~ok THEN r
                      ELSE IF pc[p] = "init" THEN [r EXCEPT !.dying = @ + 1]
                      ELSE [r EXCEPT !.live = @ + 1]
             new == [grown EXCEPT !.health = IF ok THEN "HEALTHY" ELSE "ILL"]
  <1>1. h \in Hash
    BY DEF ConstructorReturns, TypeOK
  <1>2. r \in Root /\ descs[p][h].loc \in 0 .. NLoc
    BY <1>1 DEF TypeOK, Entry
  <1> HIDE DEF h, r
  <1>3. new \in Root
    BY <1>2 DEF Root, Health
  <1>4. Descriptor(new, descs[p][h].loc) \in Entry
    BY <1>2, <1>3, RootOperators
  <1>5. /\ root' = [root EXCEPT ![p][h] = new]
        /\ descs' = descs \/ descs' = [descs EXCEPT ![p][h] = Descriptor(new, descs[p][h].loc)]
        /\ savePluginState(h, descs'[p][h]) \/ UNCHANGED ini
    BY <1>1 DEF ConstructorReturns, TypeOK, h, r
  <1> HIDE DEF new
  <1>6. root' \in [Proc -> [Hash -> Root]]
    BY <1>1, <1>3, <1>5, RootUpdate
  <1>7. descs' \in [Proc -> [Hash -> Entry]]
    BY <1>1, <1>4, <1>5, DescsUpdate
  <1>8. ini' \in [Hash -> Entry]
    BY <1>1, <1>5, <1>7, SaveTyped
  <1>9. todo' \in [Proc -> SUBSET Hash] /\ busy' \in [Proc -> Hash \cup {NoHash}]
    BY DEF ConstructorReturns, TypeOK
  <1> QED BY <1>6, <1>7, <1>8, <1>9 DEF ConstructorReturns, TypeOK

LEMMA TypeEnableDisable ==
  ASSUME TypeOK, NEW p \in Proc, NEW h \in Hash, NEW en \in BOOLEAN,
         EnableDisablePlugin(p, h, en)
  PROVE  TypeOK'
  <1> DEFINE r == [root[p][h] EXCEPT !.enabled = en]
             d == [descs[p][h] EXCEPT !.enabled = en]
             new == IF en THEN r ELSE ShutdownAllPluginObjects(r)
  <1>1. r \in Root /\ d \in Entry
    <2>1. root[p][h] \in Root /\ descs[p][h] \in Entry
      BY DEF TypeOK
    <2>2. r \in Root
      BY <2>1 DEF Root
    <2>3. d \in Entry
      BY <2>1 DEF Entry
    <2> QED BY <2>2, <2>3
  <1>2. new \in Root
    BY <1>1, RootOperators
  <1>3. /\ root' = root \/ root' = [root EXCEPT ![p][h] = new]
        /\ descs' = [descs EXCEPT ![p][h] = d]
        /\ savePluginState(h, descs'[p][h])
    BY DEF EnableDisablePlugin, TypeOK
  <1> HIDE DEF new, d
  <1>4. root' \in [Proc -> [Hash -> Root]]
    <2>1. root \in [Proc -> [Hash -> Root]]
      BY DEF TypeOK
    <2> QED BY <1>2, <1>3, <2>1, RootUpdate
  <1>5. descs' \in [Proc -> [Hash -> Entry]]
    BY <1>1, <1>3, DescsUpdate
  <1>6. ini' \in [Hash -> Entry]
    BY <1>3, <1>5, SaveTyped
  <1> QED BY <1>4, <1>5, <1>6 DEF EnableDisablePlugin, TypeOK

LEMMA TypeShutdown ==
  ASSUME TypeOK, NEW p \in Proc, ShutdownPluginManager(p)
  PROVE  TypeOK'
  <1> DEFINE rs == [h \in Hash |-> IF h \in m_pluginMap[p]
                      THEN ShutdownAllPluginObjects(root[p][h]) ELSE root[p][h]]
  <1>1. rs \in [Hash -> Root]
    BY RootOperators DEF TypeOK
  <1>2. root' = [root EXCEPT ![p] = rs]
    BY DEF ShutdownPluginManager, TypeOK
  <1> HIDE DEF rs
  <1>3. root' \in [Proc -> [Hash -> Root]]
    BY <1>1, <1>2 DEF TypeOK
  <1> QED BY <1>3 DEF ShutdownPluginManager, TypeOK

(* An object goes away: released, deleted, or destroyed by the event loop. *)
LEMMA TypeDestroyed ==
  ASSUME TypeOK, NEW p \in Proc, NEW h \in Hash,
         ReleaseObject(p, h) \/ DeleteObject(p, h) \/ ObjectDestroyed(p, h)
  PROVE  TypeOK'
  <1>1. root[p][h] \in Root
    BY DEF TypeOK
  <1>2. CASE ReleaseObject(p, h)
    <2> DEFINE r == [root[p][h] EXCEPT !.live = @ - 1, !.dying = @ + 1]
    <2>1. r \in Root
      <3> DEFINE n == root[p][h].live - 1
                 m == root[p][h].dying + 1
      <3>1. root[p][h].live \in Nat /\ root[p][h].live > 0 /\ root[p][h].dying \in Nat
        BY <1>1, <1>2 DEF ReleaseObject, Root
      <3>2. n \in Nat /\ m \in Nat
        BY <3>1
      <3> HIDE DEF n, m
      <3>3. [root[p][h] EXCEPT !.live = n, !.dying = m] \in Root
        BY <1>1, <3>2 DEF Root
      <3> QED BY <3>3 DEF n, m
    <2>2. root' = [root EXCEPT ![p][h] = r]
      BY <1>2 DEF ReleaseObject, TypeOK
    <2> HIDE DEF r
    <2>3. root' \in [Proc -> [Hash -> Root]]
      BY <2>1, <2>2, RootUpdate
    <2> QED BY <1>2, <2>3 DEF ReleaseObject, TypeOK
  <1>3. ASSUME NEW r \in Root, pluginInstanceDestroyed(p, h, r)
        PROVE  TypeOK'
    <2> DEFINE new == IF r.live + r.dying = 0 /\ h \in m_pluginMap[p]
                      THEN [r EXCEPT !.state = "doomed"] ELSE r
    <2>1. new \in Root
      BY DEF Root
    <2>2. root' = [root EXCEPT ![p][h] = new]
      BY <1>3 DEF pluginInstanceDestroyed
    <2> HIDE DEF new
    <2>3. root' \in [Proc -> [Hash -> Root]]
      BY <2>1, <2>2, RootUpdate
    <2>4. m_pluginMap' \in [Proc -> SUBSET Hash]
      BY <1>3 DEF pluginInstanceDestroyed, TypeOK
    <2> QED BY <1>3, <2>3, <2>4 DEF pluginInstanceDestroyed, TypeOK
  <1>4. CASE DeleteObject(p, h)
    <2>1. [root[p][h] EXCEPT !.live = @ - 1] \in Root
      BY <1>1, <1>4 DEF DeleteObject, Root
    <2> QED BY <1>3, <1>4, <2>1 DEF DeleteObject
  <1>5. CASE ObjectDestroyed(p, h)
    <2>1. [root[p][h] EXCEPT !.dying = @ - 1] \in Root
      BY <1>1, <1>5 DEF ObjectDestroyed, Root
    <2> QED BY <1>3, <1>5, <2>1 DEF ObjectDestroyed
  <1> QED BY <1>2, <1>4, <1>5

(* An interface or a loader goes away.                                     *)
LEMMA TypeBuried ==
  ASSUME TypeOK, NEW p \in Proc, NEW h \in Hash,
         InterfaceDeleted(p, h) \/ LoaderDeleted(p, h)
  PROVE  TypeOK'
  <1>1. Bury(p, h) /\ loader' \in [Proc -> [Hash -> {"none", "held", "dropped"}]]
    <2>1. loader \in [Proc -> [Hash -> {"none", "held", "dropped"}]]
      BY DEF TypeOK
    <2>2. \E s \in {"none", "dropped"} : loader' = [loader EXCEPT ![p][h] = s]
      BY DEF InterfaceDeleted, LoaderDeleted
    <2>3. Bury(p, h)
      BY DEF InterfaceDeleted, LoaderDeleted
    <2> QED BY <2>1, <2>2, <2>3, UpdateTyped
  <1>2. root' \in [Proc -> [Hash -> Root]]
    BY <1>1, ConstantsAssumption, EmptyTyped, RootUpdate DEF Bury
  <1>3. m_pluginMap' \in [Proc -> SUBSET Hash]
    BY <1>1 DEF Bury, TypeOK
  <1>4. orphans' \in [Proc -> [Hash -> Nat]]
    <2> DEFINE n == orphans[p][h] + root[p][h].live + root[p][h].dying
    <2>1. n \in Nat
      BY DEF TypeOK, Root
    <2>2. orphans' = [orphans EXCEPT ![p][h] = n]
      BY <1>1 DEF Bury, TypeOK
    <2> HIDE DEF n
    <2>3. orphans \in [Proc -> [Hash -> Nat]]
      BY DEF TypeOK
    <2> QED BY <2>1, <2>2, <2>3, UpdateTyped
  <1> QED BY <1>1, <1>2, <1>3, <1>4 DEF Bury, TypeOK

LEMMA TypeGone ==
  ASSUME TypeOK, NEW p \in Proc, Gone(p)
  PROVE  TypeOK'
  <1>1. NoEntry \in Entry /\ NoRoot \in Root
    BY ConstantsAssumption, EmptyTyped
  <1> QED BY <1>1 DEF Gone, TypeOK

(* Every step of every process keeps the types.                            *)
LEMMA TypeStep ==
  ASSUME TypeOK, [Next]_pvars
  PROVE  TypeOK'
  <1>1. CASE UNCHANGED pvars
    BY <1>1 DEF pvars, procVars, TypeOK
  <1>2. ASSUME NEW p \in Proc, ProcNext(p)
        PROVE  TypeOK'
    <2>1. CASE Start(p)
      BY <2>1, TypeStart
    <2>2. CASE InitDone(p)
      BY <2>2 DEF InitDone, TypeOK
    <2>3. CASE ShutdownPluginManager(p)
      BY <2>3, TypeShutdown
    <2>4. CASE Exit(p) \/ Crash(p)
      BY <2>4, TypeGone DEF Exit, Crash
    <2>5. ASSUME NEW ok \in BOOLEAN, ConstructorReturns(p, ok) PROVE TypeOK'
      BY <2>5, TypeReturns
    <2>6. ASSUME NEW h \in Hash, CreatePluginObject(p, h) PROVE TypeOK'
      BY <2>6, TypeCreate
    <2>7. ASSUME NEW h \in Hash, SkipPlugin(p, h) PROVE TypeOK'
      BY <2>7 DEF SkipPlugin, TypeOK
    <2>8. ASSUME NEW h \in Hash, RecoverFromCrash(p, h) PROVE TypeOK'
      BY <2>8, TypeRecover
    <2>9. ASSUME NEW h \in Hash,
                 ReleaseObject(p, h) \/ DeleteObject(p, h) \/ ObjectDestroyed(p, h)
          PROVE  TypeOK'
      BY <2>9, TypeDestroyed
    <2>10. ASSUME NEW h \in Hash, OrphanDestroyed(p, h) PROVE TypeOK'
      BY <2>10 DEF OrphanDestroyed, TypeOK
    <2>11. ASSUME NEW h \in Hash, NEW en \in BOOLEAN, EnableDisablePlugin(p, h, en)
           PROVE  TypeOK'
      BY <2>11, TypeEnableDisable
    <2>12. ASSUME NEW h \in Hash, InterfaceDeleted(p, h) \/ LoaderDeleted(p, h)
           PROVE  TypeOK'
      BY <2>12, TypeBuried
    <2> QED BY <1>2, <2>1, <2>2, <2>3, <2>4, <2>5, <2>6, <2>7, <2>8, <2>9,
               <2>10, <2>11, <2>12 DEF ProcNext, Deferred
  <1>3. ASSUME NEW l \in Loc, NEW h \in Hash \cup {NoHash}, FileChanges(l, h)
        PROVE  TypeOK'
    BY <1>3 DEF FileChanges, procVars, TypeOK
  <1> QED BY <1>1, <1>2, <1>3 DEF Next

(* Every variable keeps its type, whatever the constants are.              *)
THEOREM PluginTypes == Spec => []TypeOK
  <1>1. Init => TypeOK
    BY TypeInit
  <1>2. TypeOK /\ [Next]_pvars => TypeOK'
    BY TypeStep
  <1> QED BY <1>1, <1>2, PTL DEF Spec

-----------------------------------------------------------------------------
(* The description of a registered plugin agrees with its interface.       *)
Agrees(p, h) ==
  /\ descs[p][h].health # "none"
  /\ descs[p][h].health = root[p][h].health
  /\ descs[p][h].enabled = root[p][h].enabled

(* Registration, and loading, happen in two places only.                   *)
LEMMA AgreeStart ==
  ASSUME TypeOK, CopiesAgree, NEW p \in Proc, Start(p)
  PROVE  CopiesAgree'
  <1> SUFFICES ASSUME NEW q \in Proc, NEW k \in Hash, k \in m_pluginMap'[q]
               PROVE  Agrees(q, k)'
    BY TypeStart DEF CopiesAgree, Agrees, TypeOK
  <1>1. CASE q = p
    <2> DEFINE loaded == LoadPluginInterfaceObject(NoRoot, TRUE)
               loc == CHOOSE l \in Loc : l \in Discovered(k)
    <2>1. k \in Hash /\ Discovered(k) # {}
      BY <1>1 DEF Start, TypeOK
    <2>2. root'[q][k] = loaded
      BY <1>1, <2>1 DEF Start, TypeOK
    <2>3. descs'[q][k] = Descriptor(loaded, loc)
      BY <1>1, <2>1 DEF Start, TypeOK
    <2>4. loaded.health = "IF_LOADED"
      BY DEF LoadPluginInterfaceObject, NoRoot
    <2> HIDE DEF loaded, loc
    <2>5. /\ Descriptor(loaded, loc).health = loaded.health
          /\ Descriptor(loaded, loc).enabled = loaded.enabled
      BY DEF Descriptor
    <2> QED BY <2>2, <2>3, <2>4, <2>5 DEF Agrees
  <1>2. CASE q # p
    BY <1>2 DEF Start, TypeOK, CopiesAgree, Agrees
  <1> QED BY <1>1, <1>2

LEMMA AgreeCreate ==
  ASSUME TypeOK, CopiesAgree, NEW p \in Proc, NEW h \in Hash, CreatePluginObject(p, h)
  PROVE  CopiesAgree'
  <1> DEFINE r == RootFor(p, h)
             d == Descriptor(Mark(r), descs[p][h].loc)
  <1> SUFFICES ASSUME NEW q \in Proc, NEW k \in Hash, k \in m_pluginMap'[q]
               PROVE  Agrees(q, k)'
    BY TypeCreate DEF CopiesAgree, Agrees, TypeOK
  <1>1. r \in Root
    BY RootForTyped
  <1>2. r.health # "IF_LOADED" => h \in m_pluginMap[p] /\ r = root[p][h] /\ Mark(r) = r
    BY DEF CreatePluginObject, Constructs, RootFor, LoadPluginInterfaceObject, Mark, TypeOK, Root
  <1>3. /\ Mark(r).health # "none" => d.health # "none"
        /\ d.health = Mark(r).health /\ d.enabled = Mark(r).enabled
    BY DEF Descriptor
  <1>4. r.health = "IF_LOADED" => Mark(r).health = "OBJECT_CREATION"
    BY <1>1 DEF Mark, Root
  <1>5. /\ root' = [root EXCEPT ![p][h] = Mark(r)]
        /\ r.health = "IF_LOADED" => descs' = [descs EXCEPT ![p][h] = d]
        /\ r.health # "IF_LOADED" => descs' = descs
        /\ m_pluginMap' = [m_pluginMap EXCEPT ![p] = m_pluginMap[p] \cup {h}]
    BY DEF CreatePluginObject, TypeOK
  <1> HIDE DEF r, d
  <1>6. CASE q = p /\ k = h
    <2>1. root'[q][k] = Mark(r)
      BY <1>5, <1>6 DEF TypeOK
    <2>2. CASE r.health = "IF_LOADED"
      <3>1. descs'[q][k] = d
        BY <1>5, <1>6, <2>2 DEF TypeOK
      <3> QED BY <1>3, <1>4, <2>1, <2>2, <3>1 DEF Agrees
    <2>3. CASE r.health # "IF_LOADED"
      BY <1>2, <1>5, <1>6, <2>1, <2>3 DEF Agrees, CopiesAgree
    <2> QED BY <2>2, <2>3
  <1>7. CASE ~(q = p /\ k = h)
    <2>1. root'[q][k] = root[q][k] /\ descs'[q][k] = descs[q][k] /\ k \in m_pluginMap[q]
      BY <1>5, <1>7 DEF TypeOK
    <2> QED BY <2>1 DEF Agrees, CopiesAgree
  <1> QED BY <1>6, <1>7

(* A step that changes the description and the interface of one plugin.    *)
LEMMA AgreeUpdate ==
  ASSUME TypeOK, CopiesAgree, TypeOK', NEW p \in Proc, NEW h \in Hash,
         \A q \in Proc : m_pluginMap'[q] \subseteq m_pluginMap[q],
         \A q \in Proc, k \in Hash : ~(q = p /\ k = h) =>
            root'[q][k] = root[q][k] /\ descs'[q][k] = descs[q][k],
         h \in m_pluginMap'[p] => Agrees(p, h)'
  PROVE  CopiesAgree'
  <1> SUFFICES ASSUME NEW q \in Proc, NEW k \in Hash, k \in m_pluginMap'[q]
               PROVE  Agrees(q, k)'
    BY DEF CopiesAgree, Agrees, TypeOK
  <1> QED BY DEF Agrees, CopiesAgree

LEMMA AgreeRecover ==
  ASSUME TypeOK, CopiesAgree, NEW p \in Proc, NEW h \in Hash, RecoverFromCrash(p, h)
  PROVE  CopiesAgree'
  <1> DEFINE ill == [root[p][h] EXCEPT !.health = "ILL"]
             d == Descriptor(ill, descs[p][h].loc)
  <1>1. root[p][h] \in Root
    BY DEF TypeOK
  <1>2. ill.health = "ILL" /\ d.health = ill.health /\ d.enabled = ill.enabled
    BY <1>1 DEF Root, Descriptor
  <1>3. /\ root' = [root EXCEPT ![p][h] = ill]
        /\ descs' = [descs EXCEPT ![p][h] = d]
        /\ m_pluginMap' = m_pluginMap
    BY DEF RecoverFromCrash, TypeOK
  <1> HIDE DEF ill, d
  <1>4. /\ root'[p][h] = ill /\ descs'[p][h] = d
        /\ \A q \in Proc, k \in Hash : ~(q = p /\ k = h) =>
             root'[q][k] = root[q][k] /\ descs'[q][k] = descs[q][k]
    BY <1>3 DEF TypeOK
  <1>5. Agrees(p, h)'
    BY <1>2, <1>4 DEF Agrees
  <1> QED BY <1>3, <1>4, <1>5, TypeRecover, AgreeUpdate

LEMMA AgreeReturns ==
  ASSUME TypeOK, CopiesAgree, NEW p \in Proc, NEW ok \in BOOLEAN, ConstructorReturns(p, ok)
  PROVE  CopiesAgree'
  <1> SUFFICES ASSUME NEW h \in Hash, h = busy[p]
               PROVE  CopiesAgree'
    BY DEF ConstructorReturns, TypeOK
  <1> DEFINE r == root[p][h]
             health == IF ok THEN "HEALTHY" ELSE "ILL"
             grown == IF ~ok THEN r
                      ELSE IF pc[p] = "init" THEN [r EXCEPT !.dying = @ + 1]
                      ELSE [r EXCEPT !.live = @ + 1]
             new == [grown EXCEPT !.health = health]
             d == Descriptor(new, descs[p][h].loc)
  <1>1. r \in Root
    BY DEF TypeOK
  <1>2. /\ root' = [root EXCEPT ![p][h] = new]
        /\ r.health # health => descs' = [descs EXCEPT ![p][h] = d]
        /\ r.health = health => descs' = descs
        /\ m_pluginMap' = m_pluginMap
    BY <1>1 DEF ConstructorReturns, TypeOK
  <1>3. new.health = health /\ new.enabled = r.enabled /\ health # "none"
    BY <1>1 DEF Root
  <1>4. d.health = new.health /\ d.enabled = new.enabled
    BY DEF Descriptor
  <1> HIDE DEF new, d, health
  <1>5. /\ root'[p][h] = new
        /\ r.health # health => descs'[p][h] = d
        /\ \A q \in Proc, k \in Hash : ~(q = p /\ k = h) =>
             root'[q][k] = root[q][k] /\ descs'[q][k] = descs[q][k]
    BY <1>1, <1>2 DEF TypeOK
  <1>6. h \in m_pluginMap'[p] => Agrees(p, h)'
    <2>1. CASE r.health # health
      BY <1>3, <1>4, <1>5, <2>1 DEF Agrees
    <2>2. CASE r.health = health
      BY <1>1, <1>2, <1>3, <1>5, <2>2 DEF Agrees, CopiesAgree
    <2> QED BY <2>1, <2>2
  <1> QED BY <1>1, <1>2, <1>5, <1>6, TypeReturns, AgreeUpdate

LEMMA AgreeEnableDisable ==
  ASSUME TypeOK, CopiesAgree, NEW p \in Proc, NEW h \in Hash, NEW en \in BOOLEAN,
         EnableDisablePlugin(p, h, en)
  PROVE  CopiesAgree'
  <1> DEFINE r == [root[p][h] EXCEPT !.enabled = en]
             new == IF en THEN r ELSE ShutdownAllPluginObjects(r)
             d == [descs[p][h] EXCEPT !.enabled = en]
  <1>1. root[p][h] \in Root /\ descs[p][h] \in Entry
    BY DEF TypeOK
  <1>2. new.health = root[p][h].health /\ new.enabled = en
    BY <1>1 DEF Root, ShutdownAllPluginObjects
  <1>3. d.health = descs[p][h].health /\ d.enabled = en
    BY <1>1 DEF Entry
  <1>4. /\ h \in m_pluginMap[p] => root' = [root EXCEPT ![p][h] = new]
        /\ h \notin m_pluginMap[p] => root' = root
        /\ descs' = [descs EXCEPT ![p][h] = d]
        /\ m_pluginMap' = m_pluginMap
    BY DEF EnableDisablePlugin, TypeOK
  <1> HIDE DEF new, d
  <1>5. /\ h \in m_pluginMap[p] => root'[p][h] = new
        /\ descs'[p][h] = d
        /\ \A q \in Proc, k \in Hash : ~(q = p /\ k = h) =>
             root'[q][k] = root[q][k] /\ descs'[q][k] = descs[q][k]
    BY <1>4 DEF TypeOK
  <1>6. h \in m_pluginMap'[p] => Agrees(p, h)'
    BY <1>2, <1>3, <1>4, <1>5 DEF Agrees, CopiesAgree
  <1> QED BY <1>4, <1>5, <1>6, TypeEnableDisable, AgreeUpdate

(* The steps that only count, doom or forget objects.                      *)
LEMMA AgreeObjects ==
  ASSUME TypeOK, CopiesAgree, NEW p \in Proc,
         \/ ShutdownPluginManager(p)
         \/ \E h \in Hash : \/ ReleaseObject(p, h) \/ DeleteObject(p, h)
                            \/ ObjectDestroyed(p, h) \/ InterfaceDeleted(p, h)
                            \/ LoaderDeleted(p, h)
  PROVE  CopiesAgree'
  <1> SUFFICES ASSUME NEW q \in Proc, NEW k \in Hash, k \in m_pluginMap'[q]
               PROVE  Agrees(q, k)'
    BY TypeShutdown, TypeDestroyed, TypeBuried DEF CopiesAgree, Agrees, TypeOK
  <1>1. root[q][k] \in Root /\ descs' = descs
    <2>1. root[q][k] \in Root
      BY DEF TypeOK
    <2>2. descs' = descs
      BY DEF ShutdownPluginManager, ReleaseObject, DeleteObject, ObjectDestroyed,
             pluginInstanceDestroyed, InterfaceDeleted, LoaderDeleted, Bury
    <2> QED BY <2>1, <2>2
  <1>2. /\ k \in m_pluginMap[q]
        /\ root'[q][k].health = root[q][k].health
        /\ root'[q][k].enabled = root[q][k].enabled
    <2>1. CASE ShutdownPluginManager(p)
      BY <1>1, <2>1 DEF ShutdownPluginManager, ShutdownAllPluginObjects, TypeOK, Root
    <2>2. ASSUME NEW h \in Hash, ReleaseObject(p, h) PROVE <1>2!:
      BY <1>1, <2>2 DEF ReleaseObject, TypeOK, Root
    <2>3. ASSUME NEW h \in Hash, DeleteObject(p, h) PROVE <1>2!:
      BY <1>1, <2>3 DEF DeleteObject, pluginInstanceDestroyed, TypeOK, Root
    <2>4. ASSUME NEW h \in Hash, ObjectDestroyed(p, h) PROVE <1>2!:
      BY <1>1, <2>4 DEF ObjectDestroyed, pluginInstanceDestroyed, TypeOK, Root
    <2>5. ASSUME NEW h \in Hash, Bury(p, h) PROVE <1>2!:
      BY <2>5 DEF Bury, TypeOK
    <2> QED BY <2>1, <2>2, <2>3, <2>4, <2>5 DEF InterfaceDeleted, LoaderDeleted
  <1> QED BY <1>1, <1>2 DEF Agrees, CopiesAgree

LEMMA AgreeGone ==
  ASSUME TypeOK, CopiesAgree, NEW p \in Proc, Gone(p)
  PROVE  CopiesAgree'
  <1> SUFFICES ASSUME NEW q \in Proc, NEW k \in Hash, k \in m_pluginMap'[q]
               PROVE  Agrees(q, k)'
    BY TypeGone DEF CopiesAgree, Agrees, TypeOK
  <1> QED BY DEF Gone, TypeOK, Agrees, CopiesAgree

(* Every step keeps the description of the registry the interface's own.   *)
LEMMA AgreeStep ==
  ASSUME TypeOK, CopiesAgree, [Next]_pvars
  PROVE  CopiesAgree'
  <1>1. CASE UNCHANGED pvars
    BY <1>1 DEF pvars, procVars, CopiesAgree
  <1>2. ASSUME NEW p \in Proc, ProcNext(p)
        PROVE  CopiesAgree'
    <2>1. CASE Start(p)
      BY <2>1, AgreeStart
    <2>2. CASE InitDone(p)
      BY <2>2 DEF InitDone, CopiesAgree
    <2>3. CASE ShutdownPluginManager(p)
      BY <2>3, AgreeObjects
    <2>4. CASE Exit(p) \/ Crash(p)
      BY <2>4, AgreeGone DEF Exit, Crash
    <2>5. ASSUME NEW ok \in BOOLEAN, ConstructorReturns(p, ok) PROVE CopiesAgree'
      BY <2>5, AgreeReturns
    <2>6. ASSUME NEW h \in Hash, CreatePluginObject(p, h) PROVE CopiesAgree'
      BY <2>6, AgreeCreate
    <2>7. ASSUME NEW h \in Hash, SkipPlugin(p, h) \/ OrphanDestroyed(p, h)
          PROVE  CopiesAgree'
      BY <2>7 DEF SkipPlugin, OrphanDestroyed, CopiesAgree
    <2>8. ASSUME NEW h \in Hash, RecoverFromCrash(p, h) PROVE CopiesAgree'
      BY <2>8, AgreeRecover
    <2>9. ASSUME NEW h \in Hash,
                 \/ ReleaseObject(p, h) \/ DeleteObject(p, h)
                 \/ ObjectDestroyed(p, h) \/ InterfaceDeleted(p, h)
                 \/ LoaderDeleted(p, h)
          PROVE  CopiesAgree'
      BY <2>9, AgreeObjects
    <2>10. ASSUME NEW h \in Hash, NEW en \in BOOLEAN, EnableDisablePlugin(p, h, en)
           PROVE  CopiesAgree'
      BY <2>10, AgreeEnableDisable
    <2> QED BY <1>2, <2>1, <2>2, <2>3, <2>4, <2>5, <2>6, <2>7, <2>8, <2>9,
               <2>10 DEF ProcNext, Deferred
  <1>3. ASSUME NEW l \in Loc, NEW h \in Hash \cup {NoHash}, FileChanges(l, h)
        PROVE  CopiesAgree'
    BY <1>3 DEF FileChanges, procVars, CopiesAgree
  <1> QED BY <1>1, <1>2, <1>3 DEF Next

(* Whatever the processes do to each other's .ini file, a registered       *)
(* plugin's description in a process and its interface there agree.        *)
THEOREM DescriptionsAgree == Spec => []CopiesAgree
  <1>1. Init => CopiesAgree
    BY DEF Init, CopiesAgree
  <1>2. TypeOK /\ CopiesAgree /\ [Next]_pvars => CopiesAgree'
    BY AgreeStep
  <1> QED BY <1>1, <1>2, PluginTypes, PTL DEF Spec

-----------------------------------------------------------------------------
(* A process that is down, or inside a constructor.  What the steps of one *)
(* process leave alone in the others.                                      *)
OwnInv == TypeOK /\ CopiesAgree /\ DownIsEmpty /\ BusyIsMarked

LEMMA OthersKept ==
  ASSUME TypeOK, NEW p \in Proc, ProcNext(p), NEW q \in Proc, q # p
  PROVE  /\ pc'[q] = pc[q] /\ busy'[q] = busy[q]
         /\ m_pluginMap'[q] = m_pluginMap[q]
         /\ descs'[q] = descs[q]
  <1> DEFINE Kept == /\ pc'[q] = pc[q] /\ busy'[q] = busy[q]
                     /\ m_pluginMap'[q] = m_pluginMap[q] /\ descs'[q] = descs[q]
  <1> USE DEF TypeOK
  <1>1. CASE Start(p) \/ InitDone(p) \/ ShutdownPluginManager(p)
    BY <1>1 DEF Start, InitDone, ShutdownPluginManager
  <1>2. CASE Exit(p) \/ Crash(p)
    BY <1>2 DEF Exit, Crash, Gone
  <1>3. ASSUME NEW ok \in BOOLEAN, ConstructorReturns(p, ok) PROVE Kept
    BY <1>3 DEF ConstructorReturns
  <1>4. ASSUME NEW h \in Hash, CreatePluginObject(p, h) PROVE Kept
    BY <1>4 DEF CreatePluginObject
  <1>5. ASSUME NEW h \in Hash, SkipPlugin(p, h) \/ RecoverFromCrash(p, h) \/ OrphanDestroyed(p, h)
        PROVE  Kept
    BY <1>5 DEF SkipPlugin, RecoverFromCrash, OrphanDestroyed
  <1>6. ASSUME NEW h \in Hash,
               ReleaseObject(p, h) \/ DeleteObject(p, h) \/ ObjectDestroyed(p, h)
        PROVE  Kept
    BY <1>6 DEF ReleaseObject, DeleteObject, ObjectDestroyed, pluginInstanceDestroyed
  <1>7. ASSUME NEW h \in Hash, InterfaceDeleted(p, h) \/ LoaderDeleted(p, h) PROVE Kept
    BY <1>7 DEF InterfaceDeleted, LoaderDeleted, Bury
  <1>8. ASSUME NEW h \in Hash, NEW en \in BOOLEAN, EnableDisablePlugin(p, h, en) PROVE Kept
    BY <1>8 DEF EnableDisablePlugin
  <1> QED BY <1>1, <1>2, <1>3, <1>4, <1>5, <1>6, <1>7, <1>8 DEF ProcNext, Deferred

(* The state of a process after one of its own steps.                      *)
LEMMA OwnKept ==
  ASSUME OwnInv, NEW p \in Proc, ProcNext(p)
  PROVE  /\ pc'[p] = "down" => /\ m_pluginMap'[p] = {} /\ busy'[p] = NoHash
                               /\ \A h \in Hash : descs'[p][h] = NoEntry
         /\ busy'[p] # NoHash =>
              /\ pc'[p] # "down" /\ busy'[p] \in m_pluginMap'[p]
              /\ descs'[p][busy'[p]].health \in {"OBJECT_CREATION", "HEALTHY", "ILL"}
              /\ ~Reentrant => descs'[p][busy'[p]].health # "ILL"
  <1> DEFINE Kept ==
        /\ pc'[p] = "down" => /\ m_pluginMap'[p] = {} /\ busy'[p] = NoHash
                              /\ \A h \in Hash : descs'[p][h] = NoEntry
        /\ busy'[p] # NoHash =>
             /\ pc'[p] # "down" /\ busy'[p] \in m_pluginMap'[p]
             /\ descs'[p][busy'[p]].health \in {"OBJECT_CREATION", "HEALTHY", "ILL"}
             /\ ~Reentrant => descs'[p][busy'[p]].health # "ILL"
  <1>1. CASE Start(p)
    BY <1>1 DEF Start, OwnInv, TypeOK, DownIsEmpty
  <1>2. CASE InitDone(p) \/ ShutdownPluginManager(p)
    BY <1>2 DEF InitDone, ShutdownPluginManager, OwnInv, TypeOK, BusyIsMarked
  <1>3. CASE Exit(p) \/ Crash(p)
    BY <1>3 DEF Exit, Crash, Gone, OwnInv, TypeOK
  <1>4. ASSUME NEW ok \in BOOLEAN, ConstructorReturns(p, ok) PROVE Kept
    BY <1>4 DEF ConstructorReturns, OwnInv, TypeOK, BusyIsMarked
  <1>5. ASSUME NEW h \in Hash, CreatePluginObject(p, h) PROVE Kept
    <2> DEFINE r == RootFor(p, h)
    <2>1. pc[p] # "down" /\ pc' = pc /\ busy'[p] = h /\ h \in m_pluginMap'[p]
      BY <1>5 DEF CreatePluginObject, Asked, OwnInv, TypeOK
    <2>2. r.health # "IF_LOADED" => h \in m_pluginMap[p] /\ r = root[p][h]
      BY <1>5, RootForTyped DEF CreatePluginObject, Constructs, RootFor, OwnInv,
            LoadPluginInterfaceObject, TypeOK, Root
    <2>3. r \in Root /\ r.health \notin {"ILL", "OBJECT_CREATION"}
      BY <1>5, RootForTyped DEF CreatePluginObject, Constructs, OwnInv
    <2>4. CASE r.health # "IF_LOADED"
      <3>1. descs'[p][h] = descs[p][h]
        BY <1>5, <2>4 DEF CreatePluginObject
      <3>2. descs[p][h].health = r.health /\ r.health = "HEALTHY"
        BY <2>2, <2>3, <2>4 DEF OwnInv, CopiesAgree, Root, Health
      <3> QED BY <2>1, <3>1, <3>2
    <2>5. CASE r.health = "IF_LOADED"
      <3>1. Mark(r).health = "OBJECT_CREATION"
        BY <2>3, <2>5 DEF Mark, Root
      <3>2. descs'[p][h] = Descriptor(Mark(r), descs[p][h].loc)
        BY <1>5, <2>5 DEF CreatePluginObject, OwnInv, TypeOK
      <3>3. descs'[p][h].health = "OBJECT_CREATION"
        BY <3>1, <3>2 DEF Descriptor
      <3> QED BY <2>1, <3>3
    <2> QED BY <2>4, <2>5
  <1>6. ASSUME NEW h \in Hash, SkipPlugin(p, h) \/ OrphanDestroyed(p, h) PROVE Kept
    BY <1>6 DEF SkipPlugin, OrphanDestroyed, Looping, OwnInv, TypeOK
  <1>7. ASSUME NEW h \in Hash, RecoverFromCrash(p, h) PROVE Kept
    <2> DEFINE ill == [root[p][h] EXCEPT !.health = "ILL"]
    <2>1. /\ pc' = pc /\ busy' = busy /\ m_pluginMap' = m_pluginMap
          /\ busy[p] # NoHash => Reentrant
          /\ busy[p] = NoHash => pc[p] # "down"
          /\ busy[p] # NoHash => pc[p] # "down"
      BY <1>7 DEF RecoverFromCrash, Asked, OwnInv, BusyIsMarked
    <2>2. ill.health = "ILL"
      BY DEF OwnInv, TypeOK, Root
    <2>3. descs' = [descs EXCEPT ![p][h] = Descriptor(ill, descs[p][h].loc)]
      BY <1>7 DEF RecoverFromCrash, OwnInv, TypeOK
    <2> HIDE DEF ill
    <2>4. /\ descs'[p][h] = Descriptor(ill, descs[p][h].loc)
          /\ \A k \in Hash : k # h => descs'[p][k] = descs[p][k]
      BY <2>3 DEF OwnInv, TypeOK
    <2>5. descs'[p][h].health = "ILL"
      BY <2>2, <2>4 DEF Descriptor
    <2>6. busy[p] # NoHash =>
            /\ busy[p] \in Hash /\ busy[p] \in m_pluginMap[p]
            /\ descs'[p][busy[p]].health \in {"OBJECT_CREATION", "HEALTHY", "ILL"}
      BY <2>4, <2>5 DEF OwnInv, TypeOK, BusyIsMarked
    <2> QED BY <2>1, <2>6
  <1>8. ASSUME NEW h \in Hash,
               ReleaseObject(p, h) \/ DeleteObject(p, h) \/ ObjectDestroyed(p, h)
        PROVE  Kept
    BY <1>8 DEF ReleaseObject, DeleteObject, ObjectDestroyed, pluginInstanceDestroyed,
                Looping, OwnInv, TypeOK
  <1>9. ASSUME NEW h \in Hash, InterfaceDeleted(p, h) \/ LoaderDeleted(p, h) PROVE Kept
    BY <1>9 DEF InterfaceDeleted, LoaderDeleted, Bury, Looping, OwnInv, TypeOK
  <1>10. ASSUME NEW h \in Hash, NEW en \in BOOLEAN, EnableDisablePlugin(p, h, en) PROVE Kept
    BY <1>10 DEF EnableDisablePlugin, OwnInv, TypeOK
  <1> QED BY <1>1, <1>2, <1>3, <1>4, <1>5, <1>6, <1>7, <1>8, <1>9, <1>10 DEF ProcNext, Deferred

(* Every step keeps what a process owns empty when it is down and marked   *)
(* when it is busy.                                                        *)
LEMMA OwnStep ==
  ASSUME OwnInv, [Next]_pvars
  PROVE  OwnInv'
  <1>1. TypeOK' /\ CopiesAgree'
    BY TypeStep, AgreeStep DEF OwnInv
  <1>2. CASE UNCHANGED pvars
    BY <1>1, <1>2 DEF pvars, procVars, OwnInv, DownIsEmpty, BusyIsMarked
  <1>3. ASSUME NEW p \in Proc, ProcNext(p)
        PROVE  OwnInv'
    <2>1. DownIsEmpty'
      BY <1>3, OthersKept, OwnKept DEF OwnInv, DownIsEmpty
    <2>2. BusyIsMarked'
      BY <1>3, OthersKept, OwnKept DEF OwnInv, BusyIsMarked
    <2> QED BY <1>1, <2>1, <2>2 DEF OwnInv
  <1>4. ASSUME NEW l \in Loc, NEW h \in Hash \cup {NoHash}, FileChanges(l, h)
        PROVE  OwnInv'
    BY <1>1, <1>4 DEF FileChanges, procVars, OwnInv, DownIsEmpty, BusyIsMarked
  <1> QED BY <1>2, <1>3, <1>4 DEF Next

LEMMA OwnInit == Init => OwnInv
  BY TypeInit DEF Init, OwnInv, CopiesAgree, DownIsEmpty, BusyIsMarked

-----------------------------------------------------------------------------
(* One process at a time has the .ini file.                                *)
SoleProcess == \A p, q \in Proc : p = q

SoleInv == OwnInv /\ IniIsCopy

Copied(p, h) ==
  IF ini[h] # NoEntry THEN descs[p][h] = ini[h]
  ELSE descs[p][h] = NoEntry \/ (descs[p][h].enabled /\ descs[p][h].health = "IF_LOADED")

(* A description that changes and is saved is still a copy.                *)
LEMMA SavedIsCopied ==
  ASSUME OwnInv, IniIsCopy, SoleProcess, NEW p \in Proc, NEW h \in Hash,
         pc[p] # "down", descs' \in [Proc -> [Hash -> Entry]],
         \A k \in Hash : k # h => descs'[p][k] = descs[p][k],
         \/ savePluginState(h, descs'[p][h])
         \/ UNCHANGED ini /\ descs'[p][h] = descs[p][h]
  PROVE  IniIsCopy'
  <1> SUFFICES ASSUME NEW k \in Hash PROVE Copied(p, k)'
    BY DEF SoleProcess, IniIsCopy, Copied
  <1>1. Copied(p, k)
    BY DEF IniIsCopy, Copied
  <1>2. CASE UNCHANGED ini /\ descs'[p][h] = descs[p][h]
    BY <1>1, <1>2 DEF Copied
  <1>3. CASE savePluginState(h, descs'[p][h])
    <2>1. /\ ini'[h] = descs'[p][h]
          /\ k # h => ini'[k] = ini[k]
      BY <1>3 DEF savePluginState, OwnInv, TypeOK
    <2> QED BY <1>1, <2>1 DEF Copied
  <1> QED BY <1>2, <1>3

(* At the start the descriptions are what is left of the .ini file, and    *)
(* the files that were discovered.                                         *)
LEMMA CopiedAtStart ==
  ASSUME OwnInv, IniIsCopy, SoleProcess, NEW p \in Proc, Start(p)
  PROVE  IniIsCopy'
  <1> SUFFICES ASSUME NEW k \in Hash PROVE Copied(p, k)'
    BY DEF SoleProcess, IniIsCopy, Copied
  <1> DEFINE loaded == LoadPluginInterfaceObject(NoRoot, TRUE)
             loc == CHOOSE l \in Loc : l \in Discovered(k)
  <1>1. ini'[k] = IF Stale(k) THEN NoEntry ELSE ini[k]
    BY DEF Start
  <1>2. CASE Discovered(k) # {}
    <2>1. ini'[k] = NoEntry
      BY <1>1, <1>2 DEF Discovered
    <2>2. descs'[p][k] = Descriptor(loaded, loc)
      BY <1>2 DEF Start, OwnInv, TypeOK
    <2>3. loaded.health = "IF_LOADED" /\ loaded.enabled = TRUE
      BY DEF LoadPluginInterfaceObject, NoRoot
    <2> HIDE DEF loaded, loc
    <2>4. descs'[p][k].health = "IF_LOADED" /\ descs'[p][k].enabled = TRUE
      BY <2>2, <2>3 DEF Descriptor
    <2> QED BY <2>1, <2>4 DEF Copied
  <1>3. CASE Discovered(k) = {}
    <2>1. descs'[p][k] = IF Stale(k) THEN NoEntry ELSE ini[k]
      BY <1>3 DEF Start, OwnInv, TypeOK
    <2> QED BY <1>1, <2>1 DEF Copied
  <1> QED BY <1>2, <1>3

(* The steps of a process that write a description.                        *)
LEMMA CopiedWhenWritten ==
  ASSUME OwnInv, IniIsCopy, SoleProcess, NEW p \in Proc, TypeOK',
         \/ \E h \in Hash : CreatePluginObject(p, h) \/ RecoverFromCrash(p, h)
         \/ \E h \in Hash, en \in BOOLEAN : EnableDisablePlugin(p, h, en)
         \/ \E ok \in BOOLEAN : ConstructorReturns(p, ok)
  PROVE  IniIsCopy'
  <1>1. descs' \in [Proc -> [Hash -> Entry]]
    BY DEF TypeOK
  <1>2. descs \in [Proc -> [Hash -> Entry]]
    BY DEF OwnInv, TypeOK
  <1>3. ASSUME NEW h \in Hash, CreatePluginObject(p, h) PROVE IniIsCopy'
    <2>1. pc[p] # "down"
      BY <1>3 DEF CreatePluginObject, Asked
    <2>2. \A k \in Hash : k # h => descs'[p][k] = descs[p][k]
      BY <1>2, <1>3 DEF CreatePluginObject
    <2>3. \/ savePluginState(h, descs'[p][h])
          \/ UNCHANGED ini /\ descs'[p][h] = descs[p][h]
      BY <1>3 DEF CreatePluginObject
    <2> QED BY <1>1, <2>1, <2>2, <2>3, SavedIsCopied
  <1>4. ASSUME NEW h \in Hash, RecoverFromCrash(p, h) PROVE IniIsCopy'
    <2>1. pc[p] # "down"
      BY <1>4 DEF RecoverFromCrash, Asked, OwnInv, BusyIsMarked
    <2>2. \A k \in Hash : k # h => descs'[p][k] = descs[p][k]
      BY <1>2, <1>4 DEF RecoverFromCrash
    <2> QED BY <1>1, <1>4, <2>1, <2>2, SavedIsCopied, SMTT(20) DEF RecoverFromCrash
  <1>5. ASSUME NEW h \in Hash, NEW en \in BOOLEAN, EnableDisablePlugin(p, h, en)
        PROVE  IniIsCopy'
    <2>1. pc[p] # "down"
      BY <1>5 DEF EnableDisablePlugin
    <2>2. \A k \in Hash : k # h => descs'[p][k] = descs[p][k]
      BY <1>2, <1>5 DEF EnableDisablePlugin
    <2> QED BY <1>1, <1>5, <2>1, <2>2, SavedIsCopied, SMTT(20) DEF EnableDisablePlugin
  <1>6. ASSUME NEW ok \in BOOLEAN, ConstructorReturns(p, ok), NEW h \in Hash, h = busy[p]
        PROVE  IniIsCopy'
    <2>1. pc[p] # "down"
      <3>1. busy[p] # NoHash
        BY <1>6, Zenon DEF ConstructorReturns
      <3> QED BY <3>1 DEF OwnInv, BusyIsMarked
    <2>2. \A k \in Hash : k # h => descs'[p][k] = descs[p][k]
      <3>1. PICK e : descs' = [descs EXCEPT ![p][h] = e] \/ descs' = descs
        BY <1>6, Zenon DEF ConstructorReturns
      <3> QED BY <1>2, <1>6, <3>1
    <2>3. \/ savePluginState(h, descs'[p][h])
          \/ UNCHANGED ini /\ descs'[p][h] = descs[p][h]
      BY <1>6 DEF ConstructorReturns
    <2> QED BY <1>1, <2>1, <2>2, <2>3, SavedIsCopied
  <1>7. ASSUME NEW ok \in BOOLEAN, ConstructorReturns(p, ok) PROVE busy[p] \in Hash
    BY <1>7 DEF ConstructorReturns, OwnInv, TypeOK
  <1> QED BY <1>3, <1>4, <1>5, <1>6, <1>7

(* The other steps of a process write neither the file nor a description.  *)
LEMMA QuietSteps ==
  ASSUME TypeOK, NEW p \in Proc,
         \/ InitDone(p) \/ ShutdownPluginManager(p)
         \/ \E h \in Hash : \/ SkipPlugin(p, h) \/ ReleaseObject(p, h)
                            \/ DeleteObject(p, h) \/ ObjectDestroyed(p, h)
                            \/ InterfaceDeleted(p, h) \/ LoaderDeleted(p, h)
                            \/ OrphanDestroyed(p, h)
  PROVE  /\ ini' = ini /\ descs' = descs
         /\ \A q \in Proc : pc'[q] # "down" => pc[q] # "down"
  BY DEF TypeOK, InitDone, ShutdownPluginManager, SkipPlugin, ReleaseObject, DeleteObject,
         ObjectDestroyed, pluginInstanceDestroyed, InterfaceDeleted, LoaderDeleted, Bury,
         OrphanDestroyed

LEMMA SoleStep ==
  ASSUME SoleProcess, SoleInv, [Next]_pvars
  PROVE  SoleInv'
  <1>1. OwnInv' /\ OwnInv /\ IniIsCopy /\ TypeOK /\ TypeOK'
    BY OwnStep DEF SoleInv, OwnInv
  <1>2. CASE UNCHANGED pvars
    BY <1>1, <1>2 DEF pvars, procVars, SoleInv, IniIsCopy
  <1>3. ASSUME NEW l \in Loc, NEW h \in Hash \cup {NoHash}, FileChanges(l, h)
        PROVE  SoleInv'
    BY <1>1, <1>3 DEF FileChanges, procVars, SoleInv, IniIsCopy
  <1>4. ASSUME NEW p \in Proc, ProcNext(p)
        PROVE  IniIsCopy'
    <2>1. CASE Start(p)
      BY <1>1, <2>1, CopiedAtStart
    <2>2. CASE \/ \E h \in Hash : CreatePluginObject(p, h) \/ RecoverFromCrash(p, h)
               \/ \E h \in Hash, en \in BOOLEAN : EnableDisablePlugin(p, h, en)
               \/ \E ok \in BOOLEAN : ConstructorReturns(p, ok)
      BY <1>1, <2>2, CopiedWhenWritten
    <2>3. CASE Exit(p) \/ Crash(p)
      BY <1>1, <2>3 DEF Exit, Crash, Gone, IniIsCopy, SoleProcess, TypeOK
    <2>4. CASE \/ InitDone(p) \/ ShutdownPluginManager(p)
               \/ \E h \in Hash : \/ SkipPlugin(p, h) \/ ReleaseObject(p, h)
                                  \/ DeleteObject(p, h) \/ ObjectDestroyed(p, h)
                                  \/ InterfaceDeleted(p, h) \/ LoaderDeleted(p, h)
                                  \/ OrphanDestroyed(p, h)
      BY <1>1, <2>4, QuietSteps DEF IniIsCopy
    <2> QED BY <1>4, <2>1, <2>2, <2>3, <2>4 DEF ProcNext, Deferred
  <1> QED BY <1>1, <1>2, <1>3, <1>4 DEF Next, SoleInv

LEMMA SoleAlways ==
  ASSUME SoleProcess
  PROVE  Spec => []SoleInv
  <1>1. Init => SoleInv
    BY OwnInit DEF Init, SoleInv, IniIsCopy
  <1>2. SoleInv /\ [Next]_pvars => SoleInv'
    BY SoleStep
  <1> QED BY <1>1, <1>2, PTL DEF Spec

(* With one process at a time, what a process shows of the plugins is what *)
(* the .ini file holds, over all crashes, restarts and changes of files.   *)
THEOREM IniFollowsProcess ==
  ASSUME SoleProcess
  PROVE  Spec => []IniIsCopy
  <1>1. SoleInv => IniIsCopy
    BY DEF SoleInv
  <1> QED BY <1>1, SoleAlways, PTL

(* With one process at a time, the .ini file carries the mark whenever a   *)
(* constructor may crash.                                                  *)
THEOREM CrashLeavesMark ==
  ASSUME SoleProcess
  PROVE  Spec => []CrashIsMarked
  <1>1. ASSUME SoleInv PROVE CrashIsMarked
    <2> SUFFICES ASSUME NEW p \in Proc, NEW h \in Hash, busy[p] = h
                 PROVE  ini[h].health = root[p][h].health /\ ini[h].health # "IF_LOADED"
      BY <1>1 DEF CrashIsMarked, SoleInv, OwnInv, TypeOK
    <2>1. /\ pc[p] # "down" /\ h \in m_pluginMap[p]
          /\ descs[p][h].health \in {"OBJECT_CREATION", "HEALTHY", "ILL"}
      BY <1>1, ConstantsAssumption DEF SoleInv, OwnInv, BusyIsMarked
    <2>2. descs[p][h].health = root[p][h].health
      BY <1>1, <2>1 DEF SoleInv, OwnInv, CopiesAgree
    <2>3. descs[p][h] # NoEntry
      BY <2>1 DEF NoEntry
    <2>4. descs[p][h] = ini[h]
      BY <1>1, <2>1, <2>3 DEF SoleInv, IniIsCopy
    <2> QED BY <2>1, <2>2, <2>4
  <1> QED BY <1>1, SoleAlways, PTL

-----------------------------------------------------------------------------
(* What the steps write to the .ini file.                                  *)

(* A step that writes no description of k leaves its entry alone, except   *)
(* that the start of a process may remove it.                              *)
LEMMA IniWrites ==
  ASSUME SoleInv, [Next]_pvars, NEW k \in Hash, ini'[k] # ini[k]
  PROVE  \/ ini'[k] = NoEntry
         \/ \E p \in Proc :
              /\ ini'[k] = descs'[p][k]
              /\ \/ CreatePluginObject(p, k) /\ RootFor(p, k).health = "IF_LOADED"
                 \/ RecoverFromCrash(p, k)
                 \/ \E en \in BOOLEAN : EnableDisablePlugin(p, k, en)
                 \/ busy[p] = k /\ \E ok \in BOOLEAN :
                      /\ ConstructorReturns(p, ok)
                      /\ root[p][k].health # (IF ok THEN "HEALTHY" ELSE "ILL")
  <1> DEFINE Written(p) ==
        /\ ini'[k] = descs'[p][k]
        /\ \/ CreatePluginObject(p, k) /\ RootFor(p, k).health = "IF_LOADED"
           \/ RecoverFromCrash(p, k)
           \/ \E en \in BOOLEAN : EnableDisablePlugin(p, k, en)
           \/ busy[p] = k /\ \E ok \in BOOLEAN :
                /\ ConstructorReturns(p, ok)
                /\ root[p][k].health # (IF ok THEN "HEALTHY" ELSE "ILL")
  <1>1. TypeOK /\ ini \in [Hash -> Entry]
    BY DEF SoleInv, OwnInv, TypeOK
  <1>2. CASE UNCHANGED pvars
    BY <1>2 DEF pvars
  <1>3. ASSUME NEW l \in Loc, NEW h \in Hash \cup {NoHash}, FileChanges(l, h) PROVE FALSE
    BY <1>3 DEF FileChanges
  <1>4. ASSUME NEW p \in Proc, ProcNext(p)
        PROVE  ini'[k] = NoEntry \/ Written(p)
    <2>1. CASE Start(p)
      BY <2>1 DEF Start
    <2>2. ASSUME NEW h \in Hash, CreatePluginObject(p, h) PROVE Written(p)
      <3>1. RootFor(p, h).health = "IF_LOADED" /\ savePluginState(h, descs'[p][h])
        BY <2>2 DEF CreatePluginObject
      <3>2. h = k /\ ini'[k] = descs'[p][k]
        BY <1>1, <3>1 DEF savePluginState
      <3> QED BY <2>2, <3>1, <3>2
    <2>3. ASSUME NEW h \in Hash, RecoverFromCrash(p, h) PROVE Written(p)
      <3>1. h = k /\ ini'[k] = descs'[p][k]
        BY <1>1, <2>3 DEF RecoverFromCrash, savePluginState
      <3> QED BY <2>3, <3>1
    <2>4. ASSUME NEW h \in Hash, NEW en \in BOOLEAN, EnableDisablePlugin(p, h, en)
          PROVE  Written(p)
      <3>1. h = k /\ ini'[k] = descs'[p][k]
        BY <1>1, <2>4 DEF EnableDisablePlugin, savePluginState
      <3> QED BY <2>4, <3>1
    <2>5. ASSUME NEW ok \in BOOLEAN, ConstructorReturns(p, ok) PROVE Written(p)
      <3>1. /\ root[p][busy[p]].health # (IF ok THEN "HEALTHY" ELSE "ILL")
            /\ savePluginState(busy[p], descs'[p][busy[p]])
        BY <2>5 DEF ConstructorReturns
      <3>2. busy[p] = k /\ ini'[k] = descs'[p][k]
        BY <1>1, <3>1 DEF savePluginState
      <3> QED BY <2>5, <3>1, <3>2
    <2>6. CASE Exit(p) \/ Crash(p)
      BY <2>6 DEF Exit, Crash, Gone
    <2>7. CASE \/ InitDone(p) \/ ShutdownPluginManager(p)
               \/ \E h \in Hash : \/ SkipPlugin(p, h) \/ ReleaseObject(p, h)
                                  \/ DeleteObject(p, h) \/ ObjectDestroyed(p, h)
                                  \/ InterfaceDeleted(p, h) \/ LoaderDeleted(p, h)
                                  \/ OrphanDestroyed(p, h)
      BY <1>1, <2>7, QuietSteps
    <2> QED BY <1>4, <2>1, <2>2, <2>3, <2>4, <2>5, <2>6, <2>7 DEF ProcNext, Deferred
  <1> QED BY <1>2, <1>3, <1>4 DEF Next

(* What the writers know: the entry they replace, if there is one, is the  *)
(* description in their process; the registered plugin agrees with it; the *)
(* registry constructs only what is enabled and not ILL.                   *)
LEMMA WriterKnows ==
  ASSUME SoleInv, NEW p \in Proc, NEW k \in Hash, pc[p] # "down", ini[k] # NoEntry
  PROVE  /\ descs[p][k] = ini[k]
         /\ k \in m_pluginMap[p] => /\ root[p][k].enabled = ini[k].enabled
                                    /\ root[p][k].health = ini[k].health
  BY DEF SoleInv, OwnInv, IniIsCopy, CopiesAgree

LEMMA ConstructedIsSound ==
  ASSUME SoleInv, NEW p \in Proc, NEW k \in Hash, CreatePluginObject(p, k), ini[k] # NoEntry
  PROVE  ini[k].enabled /\ ini[k].health # "ILL"
  <1>1. pc[p] # "down"
    BY DEF CreatePluginObject, Asked
  <1>2. CASE NeedsLoad(p, k)
    BY <1>1, <1>2, WriterKnows DEF NeedsLoad
  <1>3. CASE ~NeedsLoad(p, k)
    <2>1. k \in m_pluginMap[p] /\ root[p][k].enabled /\ root[p][k].health # "ILL"
      BY <1>3 DEF CreatePluginObject, Constructs, RootFor
    <2> QED BY <1>1, <2>1, WriterKnows
  <1> QED BY <1>2, <1>3

(* With one process at a time a plugin that turned out ILL stays so until  *)
(* its entry leaves the file, or a constructor of its own that is running  *)
(* returns an object.                                                      *)
THEOREM IllStays ==
  ASSUME SoleProcess
  PROVE  Spec => IllIsFinal
  <1> DEFINE Cured(k) == Reentrant /\ \E p \in Proc : busy[p] = k /\ ConstructorReturns(p, TRUE)
  <1>1. ASSUME SoleInv, [Next]_pvars, NEW k \in Hash, ini[k].health = "ILL"
        PROVE  ini'[k] = NoEntry \/ ini'[k].health = "ILL" \/ Cured(k)
    <2>1. ini[k] # NoEntry
      BY <1>1 DEF NoEntry
    <2> SUFFICES ASSUME ini'[k] # ini[k], ini'[k] # NoEntry, ~Cured(k) PROVE ini'[k].health = "ILL"
      BY <1>1
    <2>2. PICK p \in Proc :
            /\ ini'[k] = descs'[p][k]
            /\ \/ CreatePluginObject(p, k)
               \/ RecoverFromCrash(p, k)
               \/ \E en \in BOOLEAN : EnableDisablePlugin(p, k, en)
               \/ busy[p] = k /\ \E ok \in BOOLEAN : ConstructorReturns(p, ok)
      BY <1>1, IniWrites
    <2>3. ~CreatePluginObject(p, k)
      BY <1>1, <2>1, ConstructedIsSound
    <2>4. CASE RecoverFromCrash(p, k)
      <3> DEFINE ill == [root[p][k] EXCEPT !.health = "ILL"]
      <3>1. root[p][k] \in Root
        BY <1>1 DEF SoleInv, OwnInv, TypeOK
      <3>2. ill.health = "ILL"
        BY <3>1 DEF Root
      <3>3. descs'[p][k] = Descriptor(ill, descs[p][k].loc)
        BY <1>1, <2>4 DEF RecoverFromCrash, SoleInv, OwnInv, TypeOK
      <3> QED BY <2>2, <3>2, <3>3 DEF Descriptor
    <2>5. ASSUME NEW en \in BOOLEAN, EnableDisablePlugin(p, k, en)
          PROVE  ini'[k].health = "ILL"
      <3>1. descs[p][k] = ini[k]
        BY <1>1, <2>1, <2>5, WriterKnows DEF EnableDisablePlugin
      <3>2. descs'[p][k] = [descs[p][k] EXCEPT !.enabled = en] /\ descs[p][k] \in Entry
        BY <1>1, <2>5 DEF EnableDisablePlugin, SoleInv, OwnInv, TypeOK
      <3> QED BY <1>1, <2>2, <3>1, <3>2 DEF Entry
    <2>6. ASSUME busy[p] = k, NEW ok \in BOOLEAN, ConstructorReturns(p, ok)
          PROVE  ini'[k].health = "ILL"
      <3>1. CASE ~Reentrant
        <4>1. pc[p] # "down" /\ descs[p][k].health # "ILL"
          BY <1>1, <2>6, <3>1, ConstantsAssumption DEF SoleInv, OwnInv, BusyIsMarked
        <4> QED BY <1>1, <2>1, <4>1, WriterKnows
      <3>2. CASE Reentrant
        <4>1. ok = FALSE
          BY <2>6, <3>2
        <4> DEFINE ill == [root[p][k] EXCEPT !.health = "ILL"]
        <4>2. root[p][k] \in Root
          BY <1>1 DEF SoleInv, OwnInv, TypeOK
        <4>3. ill.health = "ILL"
          BY <4>2 DEF Root
        <4>4. descs'[p][k] = descs[p][k] \/ descs'[p][k] = Descriptor(ill, descs[p][k].loc)
          BY <1>1, <2>6, <4>1 DEF ConstructorReturns, SoleInv, OwnInv, TypeOK
        <4>5. pc[p] # "down"
          BY <1>1, <2>6, ConstantsAssumption DEF SoleInv, OwnInv, BusyIsMarked
        <4>6. descs'[p][k] # descs[p][k]
          BY <1>1, <2>1, <2>2, <4>5, WriterKnows
        <4> QED BY <2>2, <4>3, <4>4, <4>6 DEF Descriptor
      <3> QED BY <3>1, <3>2
    <2> QED BY <2>2, <2>3, <2>4, <2>5, <2>6
  <1>2. SoleInv /\ [Next]_pvars =>
          [\A h \in Hash : ini[h].health = "ILL" =>
             \/ ini'[h] = NoEntry \/ ini'[h].health = "ILL"
             \/ Reentrant /\ \E p \in Proc : busy[p] = h /\ ConstructorReturns(p, TRUE)]_pvars
    BY <1>1
  <1> QED BY <1>2, SoleAlways, PTL DEF Spec, IllIsFinal

(* With one process at a time, a plugin that was disabled comes back only  *)
(* when EnableDisablePlugin enables it.                                    *)
THEOREM DisabledStays ==
  ASSUME SoleProcess
  PROVE  Spec => DisableSticks
  <1>1. ASSUME SoleInv, [Next]_pvars, NEW k \in Hash,
               ini[k] # NoEntry, ~ini[k].enabled, ini'[k].enabled
        PROVE  \E p \in Proc : EnableDisablePlugin(p, k, TRUE)
    <2>1. ini'[k] # ini[k] /\ ini'[k] # NoEntry
      BY <1>1 DEF NoEntry
    <2>2. PICK p \in Proc :
            /\ ini'[k] = descs'[p][k]
            /\ \/ CreatePluginObject(p, k)
               \/ RecoverFromCrash(p, k)
               \/ \E en \in BOOLEAN : EnableDisablePlugin(p, k, en)
               \/ busy[p] = k /\ \E ok \in BOOLEAN :
                    /\ ConstructorReturns(p, ok)
                    /\ root[p][k].health # (IF ok THEN "HEALTHY" ELSE "ILL")
      BY <1>1, <2>1, IniWrites
    <2>3. ~CreatePluginObject(p, k)
      BY <1>1, ConstructedIsSound
    <2>4. ~RecoverFromCrash(p, k)
      <3> SUFFICES ASSUME RecoverFromCrash(p, k) PROVE FALSE
        OBVIOUS
      <3>1. k \in m_pluginMap[p] /\ root[p][k].enabled /\ pc[p] # "down"
        BY <1>1 DEF RecoverFromCrash, Asked, SoleInv, OwnInv, BusyIsMarked
      <3> QED BY <1>1, <3>1, WriterKnows
    <2>5. ASSUME NEW en \in BOOLEAN, EnableDisablePlugin(p, k, en)
          PROVE  EnableDisablePlugin(p, k, TRUE)
      <3>1. descs'[p][k] = [descs[p][k] EXCEPT !.enabled = en] /\ descs[p][k] \in Entry
        BY <1>1, <2>5 DEF EnableDisablePlugin, SoleInv, OwnInv, TypeOK
      <3>2. descs'[p][k].enabled = en
        BY <3>1 DEF Entry
      <3>3. en = TRUE
        BY <1>1, <2>2, <3>2
      <3> QED BY <2>5, <3>3
    <2>6. ASSUME busy[p] = k, NEW ok \in BOOLEAN, ConstructorReturns(p, ok),
                 root[p][k].health # (IF ok THEN "HEALTHY" ELSE "ILL")
          PROVE  FALSE
      <3> DEFINE r == root[p][k]
                 grown == IF ~ok THEN r
                          ELSE IF pc[p] = "init" THEN [r EXCEPT !.dying = @ + 1]
                          ELSE [r EXCEPT !.live = @ + 1]
                 new == [grown EXCEPT !.health = IF ok THEN "HEALTHY" ELSE "ILL"]
      <3>1. pc[p] # "down" /\ k \in m_pluginMap[p] /\ r \in Root
        BY <1>1, <2>6, ConstantsAssumption DEF SoleInv, OwnInv, BusyIsMarked, TypeOK
      <3>2. new.enabled = r.enabled
        BY <3>1 DEF Root
      <3>3. descs'[p][k] = Descriptor(new, descs[p][k].loc)
        BY <1>1, <2>6 DEF ConstructorReturns, SoleInv, OwnInv, TypeOK
      <3> HIDE DEF new
      <3>4. descs'[p][k].enabled = new.enabled
        BY <3>3 DEF Descriptor
      <3>5. r.enabled = ini[k].enabled
        BY <1>1, <3>1, WriterKnows
      <3> QED BY <1>1, <2>2, <3>2, <3>4, <3>5
    <2> QED BY <2>2, <2>3, <2>4, <2>5, <2>6
  <1>2. SoleInv /\ [Next]_pvars =>
          [\A h \in Hash : ini[h] # NoEntry /\ ~ini[h].enabled /\ ini'[h].enabled
             => \E p \in Proc : EnableDisablePlugin(p, h, TRUE)]_pvars
    BY <1>1
  <1> QED BY <1>2, SoleAlways, PTL DEF Spec, DisableSticks

-----------------------------------------------------------------------------
(* Deferred deletion, of the plugins for which no call comes between the   *)
(* deleteLater() of their interface and the unloading of their library;    *)
(* what the calls for the others do in that time does not reach these.     *)

(* Where a plugin is on its way through a process: registered with a live  *)
(* interface, or without objects, loaded no more or about to be unloaded.  *)
Whole(p, h) ==
  /\ orphans[p][h] = 0
  /\ h \in m_pluginMap[p] => root[p][h].state = "live" /\ loader[p][h] = "held"
  /\ h \notin m_pluginMap[p] =>
       /\ root[p][h].live = 0 /\ root[p][h].dying = 0
       /\ \/ root[p][h].state = "none" /\ loader[p][h] # "held"
          \/ root[p][h].state = "doomed" /\ loader[p][h] = "held"
  /\ pc[p] = "init" => root[p][h].state # "doomed" /\ loader[p][h] # "dropped"

(* Nothing of a disabled plugin, nor of a process that ends, is used.      *)
Silent(p, h) ==
  /\ ~descs[p][h].enabled => root[p][h].live = 0 /\ busy[p] # h
  /\ pc[p] = "quit" => root[p][h].live = 0 /\ busy[p] = NoHash

CalmInv ==
  OwnInv /\ \A p \in Proc, h \in Hash \ Disturbed : Whole(p, h) /\ Silent(p, h)

(* What a step does to the plugins it is not about.                        *)
Same(p, h) ==
  /\ root'[p][h] = root[p][h] /\ loader'[p][h] = loader[p][h] /\ orphans'[p][h] = orphans[p][h]
  /\ descs'[p][h].enabled = descs[p][h].enabled
  /\ h \in m_pluginMap'[p] <=> h \in m_pluginMap[p]

LEMMA SameIsCalm ==
  ASSUME NEW p \in Proc, NEW h \in Hash, Whole(p, h), Silent(p, h), Same(p, h),
         pc'[p] = pc[p], busy'[p] = busy[p] \/ (pc[p] # "quit" /\ busy'[p] # h)
  PROVE  Whole(p, h)' /\ Silent(p, h)'
  BY DEF Whole, Silent, Same

(* A step that is about one plugin of one process.                         *)
About(p, h) ==
  /\ pc' = pc /\ \A q \in Proc, k \in Hash : q # p \/ k # h => Same(q, k)
  /\ \A q \in Proc : q # p => busy'[q] = busy[q]
  /\ busy'[p] \in {busy[p], h, NoHash}

LEMMA AboutOne ==
  ASSUME CalmInv, NEW p \in Proc, NEW h \in Hash, About(p, h),
         busy'[p] # busy[p] => pc[p] # "quit" \/ busy[p] # NoHash,
         h \notin Disturbed => Whole(p, h)' /\ Silent(p, h)'
  PROVE  \A q \in Proc, k \in Hash \ Disturbed : Whole(q, k)' /\ Silent(q, k)'
  <1> SUFFICES ASSUME NEW q \in Proc, NEW k \in Hash \ Disturbed, q # p \/ k # h
               PROVE  Whole(q, k)' /\ Silent(q, k)'
    OBVIOUS
  <1>1. Same(q, k) /\ pc'[q] = pc[q] /\ Whole(q, k) /\ Silent(q, k)
    BY DEF About, CalmInv
  <1>2. busy'[q] = busy[q] \/ (pc[q] # "quit" /\ busy'[q] # k)
    BY <1>1, ConstantsAssumption DEF About, Silent
  <1> QED BY <1>1, <1>2, SameIsCalm

(* What is done to one plugin, whichever it is, is about it alone.         *)
ActsOn(p, h) ==
  \/ CreatePluginObject(p, h) \/ RecoverFromCrash(p, h)
  \/ \E en \in BOOLEAN : EnableDisablePlugin(p, h, en)
  \/ ReleaseObject(p, h) \/ DeleteObject(p, h) \/ ObjectDestroyed(p, h)
  \/ InterfaceDeleted(p, h) \/ LoaderDeleted(p, h) \/ OrphanDestroyed(p, h)
  \/ busy[p] = h /\ \E ok \in BOOLEAN : ConstructorReturns(p, ok)

LEMMA CalmDisturbed ==
  ASSUME CalmInv, NEW p \in Proc, NEW h \in Disturbed, ActsOn(p, h)
  PROVE  \A q \in Proc, k \in Hash \ Disturbed : Whole(q, k)' /\ Silent(q, k)'
  <1>1. TypeOK /\ h \in Hash
    BY ConstantsAssumption DEF CalmInv, OwnInv
  <1>2. CASE CreatePluginObject(p, h)
    <2>1. About(p, h)
      BY <1>1, <1>2 DEF CreatePluginObject, About, Same, TypeOK
    <2>2. pc[p] # "quit"
      BY <1>2 DEF CreatePluginObject, Asked
    <2> QED BY <1>1, <2>1, <2>2, AboutOne
  <1>3. CASE RecoverFromCrash(p, h)
    <2>1. About(p, h) /\ busy' = busy
      BY <1>1, <1>3 DEF RecoverFromCrash, About, Same, TypeOK
    <2> QED BY <1>1, <2>1, AboutOne
  <1>4. ASSUME NEW en \in BOOLEAN, EnableDisablePlugin(p, h, en)
        PROVE  About(p, h) /\ busy' = busy
    BY <1>1, <1>4 DEF EnableDisablePlugin, About, Same, TypeOK
  <1>5. CASE ReleaseObject(p, h) \/ DeleteObject(p, h) \/ ObjectDestroyed(p, h)
    <2>1. About(p, h) /\ busy' = busy
      BY <1>1, <1>5 DEF ReleaseObject, DeleteObject, ObjectDestroyed, pluginInstanceDestroyed,
                        About, Same, TypeOK
    <2> QED BY <1>1, <2>1, AboutOne
  <1>6. CASE InterfaceDeleted(p, h) \/ LoaderDeleted(p, h) \/ OrphanDestroyed(p, h)
    <2>1. About(p, h) /\ busy' = busy
      BY <1>1, <1>6 DEF InterfaceDeleted, LoaderDeleted, OrphanDestroyed, Bury, About, Same, TypeOK
    <2> QED BY <1>1, <2>1, AboutOne
  <1>7. ASSUME busy[p] = h, NEW ok \in BOOLEAN, ConstructorReturns(p, ok)
        PROVE  About(p, h) /\ busy[p] # NoHash
    BY <1>1, <1>7 DEF ConstructorReturns, About, Same, TypeOK
  <1> QED BY <1>1, <1>2, <1>3, <1>4, <1>5, <1>6, <1>7, AboutOne DEF ActsOn

LEMMA CalmCreate ==
  ASSUME CalmInv, NEW p \in Proc, NEW h \in Hash \ Disturbed, CreatePluginObject(p, h)
  PROVE  \A q \in Proc, k \in Hash \ Disturbed : Whole(q, k)' /\ Silent(q, k)'
  <1> DEFINE r == RootFor(p, h)
  <1>1. TypeOK /\ Whole(p, h) /\ CopiesAgree
    BY DEF CalmInv, OwnInv
  <1>2. Asked(p, h) /\ Constructs(p, h) /\ pc' = pc /\ orphans' = orphans
        /\ busy' = [busy EXCEPT ![p] = h] /\ m_pluginMap' = [m_pluginMap EXCEPT ![p] = @ \cup {h}]
        /\ root' = [root EXCEPT ![p][h] = Mark(r)]
        /\ loader' = IF NeedsLoad(p, h) THEN [loader EXCEPT ![p][h] = Held(@)] ELSE loader
    BY DEF CreatePluginObject
  <1>3. pc[p] \in {"init", "run"} /\ root[p][h].state # "doomed" /\ loader[p][h] # "dropped"
    BY <1>1, <1>2 DEF Asked, Calm, Whole
  <1>4. /\ r \in Root /\ r.enabled /\ r.state = "live"
        /\ NeedsLoad(p, h) => loader[p][h] = "none"
        /\ ~NeedsLoad(p, h) => loader[p][h] = "held"
    <2>1. CASE NeedsLoad(p, h)
      <3>1. root[p][h].state = "none" /\ loader[p][h] = "none"
        BY <1>1, <1>3, <2>1 DEF Whole, NeedsLoad, TypeOK
      <3>2. r = LoadPluginInterfaceObject(root[p][h], descs[p][h].enabled) /\ descs[p][h].enabled
        BY <2>1 DEF RootFor, NeedsLoad
      <3> QED BY <1>1, <1>2, <2>1, <3>1, <3>2, RootForTyped
             DEF LoadPluginInterfaceObject, TypeOK, Root, Constructs
    <2>2. CASE ~NeedsLoad(p, h)
      BY <1>1, <1>2, <2>2, RootForTyped DEF Constructs, RootFor, Whole
    <2> QED BY <2>1, <2>2
  <1> HIDE DEF r
  <1>5. Mark(r).state = "live" /\ Mark(r).enabled
    BY <1>4 DEF Mark, Root
  <1>6. descs'[p][h].enabled /\ \A q \in Proc, k \in Hash : q # p \/ k # h => descs'[q][k] = descs[q][k]
    <2>1. CASE r.health = "IF_LOADED"
      <3>1. descs' = [descs EXCEPT ![p][h] = Descriptor(Mark(r), descs[p][h].loc)]
        BY <1>1, <2>1 DEF CreatePluginObject, r, TypeOK
      <3>2. Descriptor(Mark(r), descs[p][h].loc).enabled
        BY <1>5 DEF Descriptor
      <3> QED BY <1>1, <3>1, <3>2 DEF TypeOK
    <2>2. CASE r.health # "IF_LOADED"
      <3>1. descs' = descs
        BY <2>2 DEF CreatePluginObject, r
      <3>2. descs[p][h].enabled
        BY <1>1, <1>2, <1>4 DEF Constructs, NeedsLoad, CopiesAgree, RootFor, r
      <3> QED BY <3>1, <3>2
    <2> QED BY <2>1, <2>2
  <1>7. About(p, h)
    BY <1>1, <1>2, <1>6 DEF About, Same, TypeOK
  <1>8. Whole(p, h)'
    <2>1. root'[p][h] = Mark(r) /\ h \in m_pluginMap'[p] /\ orphans'[p][h] = 0
      BY <1>1, <1>2 DEF TypeOK, Whole
    <2>2. loader'[p][h] = "held"
      BY <1>1, <1>2, <1>4 DEF TypeOK, Held
    <2> QED BY <1>5, <2>1, <2>2 DEF Whole
  <1>9. Silent(p, h)'
    BY <1>2, <1>3, <1>6 DEF Silent
  <1> QED BY <1>3, <1>7, <1>8, <1>9, AboutOne

(* A step that replaces one root object by one with other numbers or marks *)
(* and leaves the libraries alone.                                         *)
LEMMA CalmReplaced ==
  ASSUME CalmInv, NEW p \in Proc, NEW h \in Hash \ Disturbed, NEW r \in Root,
         root' = [root EXCEPT ![p][h] = r] \/ (root' = root /\ r = root[p][h]),
         UNCHANGED <<pc, loader, orphans, m_pluginMap>>,
         descs' = descs \/ \E e \in Entry : descs' = [descs EXCEPT ![p][h] = e],
         busy' = busy \/ (pc[p] # "quit" /\ busy' = [busy EXCEPT ![p] = NoHash]),
         r.state = root[p][h].state,
         h \notin m_pluginMap[p] => r.live = 0 /\ r.dying = 0,
         ~descs'[p][h].enabled => r.live = 0 /\ busy'[p] # h,
         pc[p] = "quit" => r.live = 0
  PROVE  \A q \in Proc, k \in Hash \ Disturbed : Whole(q, k)' /\ Silent(q, k)'
  <1>1. TypeOK /\ Whole(p, h) /\ Silent(p, h)
    BY DEF CalmInv, OwnInv
  <1>2. root'[p][h] = r /\ \A q \in Proc, k \in Hash : q # p \/ k # h => root'[q][k] = root[q][k]
    BY <1>1 DEF TypeOK
  <1>3. \A q \in Proc, k \in Hash : q # p \/ k # h => descs'[q][k] = descs[q][k]
    BY <1>1 DEF TypeOK
  <1>4. About(p, h)
    BY <1>1, <1>2, <1>3 DEF About, Same, TypeOK
  <1>5. Whole(p, h)'
    BY <1>1, <1>2 DEF Whole
  <1>6. Silent(p, h)'
    BY <1>1, <1>2 DEF Silent, TypeOK
  <1>7. busy'[p] # busy[p] => pc[p] # "quit"
    OBVIOUS
  <1> QED BY <1>4, <1>5, <1>6, <1>7, AboutOne

LEMMA CalmRecover ==
  ASSUME CalmInv, NEW p \in Proc, NEW h \in Hash \ Disturbed, RecoverFromCrash(p, h)
  PROVE  \A q \in Proc, k \in Hash \ Disturbed : Whole(q, k)' /\ Silent(q, k)'
  <1> DEFINE ill == [root[p][h] EXCEPT !.health = "ILL"]
  <1>1. TypeOK /\ Whole(p, h) /\ Silent(p, h) /\ root[p][h] \in Root /\ descs[p][h] \in Entry
    BY DEF CalmInv, OwnInv, TypeOK
  <1>2. ill \in Root /\ ill.state = root[p][h].state /\ ill.live = root[p][h].live /\ ill.enabled
    BY <1>1 DEF Root, Health, RecoverFromCrash
  <1>3. Descriptor(ill, descs[p][h].loc) \in Entry /\ Descriptor(ill, descs[p][h].loc).enabled
    BY <1>1, <1>2, RootOperators DEF Entry, Descriptor
  <1> HIDE DEF ill
  <1>4. /\ root' = [root EXCEPT ![p][h] = ill] /\ h \in m_pluginMap[p]
        /\ UNCHANGED <<pc, loader, orphans, m_pluginMap, busy>>
        /\ descs' = [descs EXCEPT ![p][h] = Descriptor(ill, descs[p][h].loc)]
    BY <1>1 DEF RecoverFromCrash, ill, TypeOK
  <1>5. descs'[p][h].enabled
    BY <1>1, <1>3, <1>4 DEF TypeOK
  <1> QED BY <1>1, <1>2, <1>3, <1>4, <1>5, CalmReplaced DEF Silent

LEMMA CalmReturns ==
  ASSUME CalmInv, NEW p \in Proc, NEW ok \in BOOLEAN, ConstructorReturns(p, ok),
         busy[p] \notin Disturbed
  PROVE  \A q \in Proc, k \in Hash \ Disturbed : Whole(q, k)' /\ Silent(q, k)'
  <1> DEFINE h == busy[p]
             r == root[p][h]
             grown == IF ~ok THEN r
                      ELSE IF pc[p] = "init" THEN [r EXCEPT !.dying = @ + 1]
                      ELSE [r EXCEPT !.live = @ + 1]
             health == IF ok THEN "HEALTHY" ELSE "ILL"
             new == [grown EXCEPT !.health = health]
  <1>1. h \in Hash \ Disturbed /\ h \in m_pluginMap[p] /\ pc[p] # "quit" /\ r \in Root /\ descs[p][h].enabled
        /\ TypeOK /\ r.enabled = descs[p][h].enabled
    <2>1. TypeOK /\ busy[p] # NoHash
      BY DEF CalmInv, OwnInv, ConstructorReturns
    <2>2. h \in Hash /\ h \in m_pluginMap[p] /\ r \in Root
      BY <2>1 DEF CalmInv, OwnInv, BusyIsMarked, TypeOK
    <2> QED BY <2>1, <2>2 DEF CalmInv, OwnInv, Silent, CopiesAgree
  <1>2. new \in Root /\ new.state = r.state /\ new.enabled
    <2>1. r.live + 1 \in Nat /\ r.dying + 1 \in Nat
      BY <1>1 DEF Root
    <2>2. grown \in Root /\ grown.state = r.state /\ grown.enabled = r.enabled
      <3> DEFINE n == r.live + 1
                 m == r.dying + 1
      <3> HIDE DEF n, m
      <3>1. /\ [r EXCEPT !.dying = m] \in Root /\ [r EXCEPT !.live = n] \in Root
            /\ [r EXCEPT !.dying = m].state = r.state /\ [r EXCEPT !.live = n].state = r.state
            /\ [r EXCEPT !.dying = m].enabled = r.enabled /\ [r EXCEPT !.live = n].enabled = r.enabled
        BY <1>1, <2>1 DEF Root, n, m
      <3> QED BY <1>1, <3>1 DEF n, m
    <2> HIDE DEF grown
    <2>3. health \in Health
      BY DEF Health
    <2> HIDE DEF health
    <2> QED BY <1>1, <2>2, <2>3 DEF Root
  <1>3. /\ root' = [root EXCEPT ![p][h] = new]
        /\ UNCHANGED <<pc, loader, orphans, m_pluginMap>>
        /\ busy' = [busy EXCEPT ![p] = NoHash]
        /\ descs' = descs \/ descs' = [descs EXCEPT ![p][h] = Descriptor(new, descs[p][h].loc)]
    BY <1>1 DEF ConstructorReturns, TypeOK
  <1> HIDE DEF new
  <1>4. descs[p][h].loc \in 0 .. NLoc
    BY <1>1 DEF TypeOK, Entry
  <1>5. Descriptor(new, descs[p][h].loc) \in Entry /\ Descriptor(new, descs[p][h].loc).enabled
    BY <1>2, <1>4, RootOperators DEF Descriptor
  <1>6. descs'[p][h].enabled
    BY <1>1, <1>3, <1>5 DEF TypeOK
  <1> HIDE DEF h, r
  <1>7. pc[p] # "quit" /\ busy' = [busy EXCEPT ![p] = NoHash]
    BY <1>1, <1>3
  <1>8. new.state = root[p][h].state /\ root' = [root EXCEPT ![p][h] = new]
    BY <1>2, <1>3 DEF r
  <1>9. descs' = descs \/ \E e \in Entry : descs' = [descs EXCEPT ![p][h] = e]
    BY <1>3, <1>5
  <1>10. UNCHANGED <<pc, loader, orphans, m_pluginMap>>
    BY <1>3
  <1> QED BY <1>1, <1>2, <1>6, <1>7, <1>8, <1>9, <1>10, CalmReplaced

LEMMA CalmEnableDisable ==
  ASSUME CalmInv, NEW p \in Proc, NEW h \in Hash \ Disturbed, NEW en \in BOOLEAN, EnableDisablePlugin(p, h, en)
  PROVE  \A q \in Proc, k \in Hash \ Disturbed : Whole(q, k)' /\ Silent(q, k)'
  <1> DEFINE r == root[p][h]
             set == [r EXCEPT !.enabled = en]
             new == IF h \notin m_pluginMap[p] THEN r
                    ELSE IF en THEN set ELSE ShutdownAllPluginObjects(set)
             e == [descs[p][h] EXCEPT !.enabled = en]
  <1>1. TypeOK /\ Whole(p, h) /\ Silent(p, h) /\ r \in Root /\ descs[p][h] \in Entry
        /\ busy[p] = NoHash /\ pc[p] = "run"
    BY DEF CalmInv, OwnInv, TypeOK, EnableDisablePlugin
  <1>2. set \in Root /\ set.state = r.state
    BY <1>1 DEF Root
  <1>3. /\ ShutdownAllPluginObjects(set) \in Root /\ ShutdownAllPluginObjects(set).state = set.state
        /\ ShutdownAllPluginObjects(set).live = 0
    <2>1. ShutdownAllPluginObjects(set) \in Root
      BY <1>2, RootOperators
    <2> DEFINE n == set.dying + set.live
    <2>2. ShutdownAllPluginObjects(set) = [set EXCEPT !.dying = n, !.live = 0]
      BY DEF ShutdownAllPluginObjects
    <2> HIDE DEF n, set
    <2>3. [set EXCEPT !.dying = n, !.live = 0].state = set.state
          /\ [set EXCEPT !.dying = n, !.live = 0].live = 0
      BY <1>2 DEF Root
    <2> QED BY <2>1, <2>2, <2>3
  <1>4. new \in Root /\ new.state = r.state /\ (~en /\ h \in m_pluginMap[p] => new.live = 0)
        /\ (h \notin m_pluginMap[p] => new.live = 0 /\ new.dying = 0)
    BY <1>1, <1>2, <1>3 DEF Whole
  <1>5. e \in Entry /\ e.enabled = en
    BY <1>1 DEF Entry
  <1>6. /\ root' = [root EXCEPT ![p][h] = new] \/ (root' = root /\ new = root[p][h])
        /\ UNCHANGED <<pc, loader, orphans, m_pluginMap, busy>>
        /\ descs' = [descs EXCEPT ![p][h] = e]
    BY <1>1 DEF EnableDisablePlugin, TypeOK
  <1> HIDE DEF set, new, e
  <1>7. descs'[p][h].enabled = en
    BY <1>1, <1>5, <1>6 DEF TypeOK
  <1>8. ~en => new.live = 0 /\ busy'[p] # h
    BY <1>1, <1>4, <1>6, ConstantsAssumption
  <1> QED BY <1>1, <1>4, <1>5, <1>6, <1>7, <1>8, CalmReplaced DEF r

(* The owner of an object lets go of it.                                   *)
LEMMA CalmRelease ==
  ASSUME CalmInv, NEW p \in Proc, NEW h \in Hash \ Disturbed, ReleaseObject(p, h)
  PROVE  \A q \in Proc, k \in Hash \ Disturbed : Whole(q, k)' /\ Silent(q, k)'
  <1> DEFINE r == root[p][h]
             n == r.live - 1
             m == r.dying + 1
             new == [r EXCEPT !.live = n, !.dying = m]
  <1>1. TypeOK /\ Whole(p, h) /\ Silent(p, h) /\ r \in Root /\ r.live > 0
    BY DEF CalmInv, OwnInv, TypeOK, ReleaseObject
  <1>2. n \in Nat /\ m \in Nat
    BY <1>1 DEF Root
  <1>3. root' = [root EXCEPT ![p][h] = new]
    BY <1>1 DEF ReleaseObject, TypeOK
  <1> HIDE DEF n, m
  <1>4. new \in Root /\ new.state = r.state
    BY <1>1, <1>2 DEF Root
  <1> HIDE DEF new
  <1>5. h \in m_pluginMap[p] /\ descs[p][h].enabled /\ pc[p] # "quit"
    BY <1>1 DEF Whole, Silent, Root
  <1>6. UNCHANGED <<pc, loader, orphans, m_pluginMap, busy, descs>>
    BY DEF ReleaseObject
  <1> QED BY <1>3, <1>4, <1>5, <1>6, CalmReplaced DEF r

(* An object is deleted; the last one dooms its interface.                 *)
LEMMA CalmDestroyed ==
  ASSUME CalmInv, NEW p \in Proc, NEW h \in Hash \ Disturbed, NEW r \in Root,
         pluginInstanceDestroyed(p, h, r), Looping(p), h \in m_pluginMap[p],
         r.state = root[p][h].state, root[p][h].live = 0 => r.live = 0
  PROVE  \A q \in Proc, k \in Hash \ Disturbed : Whole(q, k)' /\ Silent(q, k)'
  <1>1. TypeOK /\ Whole(p, h) /\ Silent(p, h) /\ r.live \in Nat /\ r.dying \in Nat
    BY DEF CalmInv, OwnInv, Root
  <1>2. UNCHANGED <<pc, loader, orphans, busy, descs>>
    BY DEF pluginInstanceDestroyed
  <1>3. CASE r.live + r.dying = 0
    <2> DEFINE new == [r EXCEPT !.state = "doomed"]
    <2>1. root' = [root EXCEPT ![p][h] = new] /\ m_pluginMap' = [m_pluginMap EXCEPT ![p] = @ \ {h}]
      BY <1>3 DEF pluginInstanceDestroyed
    <2>2. new.state = "doomed" /\ new.live = 0 /\ new.dying = 0
      BY <1>1, <1>3 DEF Root
    <2> HIDE DEF new
    <2>3. root'[p][h] = new /\ h \notin m_pluginMap'[p]
          /\ \A q \in Proc, k \in Hash : q # p \/ k # h =>
               root'[q][k] = root[q][k] /\ (k \in m_pluginMap'[q] <=> k \in m_pluginMap[q])
      BY <1>1, <2>1 DEF TypeOK
    <2>4. About(p, h)
      BY <1>2, <2>3 DEF About, Same
    <2>5. Whole(p, h)' /\ Silent(p, h)'
      BY <1>1, <1>2, <2>2, <2>3 DEF Whole, Silent, Looping
    <2> QED BY <1>2, <2>4, <2>5, AboutOne
  <1>4. CASE r.live + r.dying # 0
    <2>1. root' = [root EXCEPT ![p][h] = r] /\ m_pluginMap' = m_pluginMap
      BY <1>1, <1>4 DEF pluginInstanceDestroyed, TypeOK
    <2>2. ~descs[p][h].enabled => r.live = 0 /\ busy[p] # h
      BY <1>1 DEF Silent
    <2>3. pc[p] = "quit" => r.live = 0
      BY <1>1 DEF Silent
    <2> QED BY <1>2, <2>1, <2>2, <2>3, CalmReplaced
  <1> QED BY <1>3, <1>4

LEMMA CalmDelete ==
  ASSUME CalmInv, NEW p \in Proc, NEW h \in Hash \ Disturbed, DeleteObject(p, h) \/ ObjectDestroyed(p, h)
  PROVE  \A q \in Proc, k \in Hash \ Disturbed : Whole(q, k)' /\ Silent(q, k)'
  <1> DEFINE r == root[p][h]
             n == r.live - 1
             m == r.dying - 1
  <1>1. Whole(p, h) /\ r \in Root
    BY DEF CalmInv, OwnInv, TypeOK
  <1>2. CASE DeleteObject(p, h)
    <2>1. n \in Nat /\ r.live # 0
      BY <1>1, <1>2 DEF Root, DeleteObject
    <2>2. pluginInstanceDestroyed(p, h, [r EXCEPT !.live = n]) /\ Looping(p)
      BY <1>2 DEF DeleteObject
    <2> HIDE DEF n
    <2>3. [r EXCEPT !.live = n] \in Root /\ [r EXCEPT !.live = n].state = r.state
      BY <1>1, <2>1 DEF Root
    <2>4. h \in m_pluginMap[p]
      BY <1>1, <2>1 DEF Whole
    <2> QED BY <2>1, <2>2, <2>3, <2>4, CalmDestroyed
  <1>3. CASE ObjectDestroyed(p, h)
    <2>1. m \in Nat /\ r.dying # 0
      BY <1>1, <1>3 DEF Root, ObjectDestroyed
    <2>2. pluginInstanceDestroyed(p, h, [r EXCEPT !.dying = m]) /\ Looping(p)
      BY <1>3 DEF ObjectDestroyed
    <2> HIDE DEF m
    <2>3. /\ [r EXCEPT !.dying = m] \in Root /\ [r EXCEPT !.dying = m].state = r.state
          /\ [r EXCEPT !.dying = m].live = r.live
      BY <1>1, <2>1 DEF Root
    <2>4. h \in m_pluginMap[p]
      BY <1>1, <2>1 DEF Whole
    <2> QED BY <2>2, <2>3, <2>4, CalmDestroyed
  <1> QED BY <1>2, <1>3

(* An interface goes when it has no object left, so none is orphaned.      *)
LEMMA CalmBuried ==
  ASSUME CalmInv, NEW p \in Proc, NEW h \in Hash \ Disturbed, InterfaceDeleted(p, h) \/ LoaderDeleted(p, h)
  PROVE  \A q \in Proc, k \in Hash \ Disturbed : Whole(q, k)' /\ Silent(q, k)'
  <1>1. TypeOK /\ Whole(p, h) /\ Silent(p, h) /\ Bury(p, h) /\ pc[p] # "init"
    BY DEF CalmInv, OwnInv, InterfaceDeleted, LoaderDeleted, Looping
  <1>2. h \notin m_pluginMap[p] /\ root[p][h].live = 0 /\ root[p][h].dying = 0 /\ orphans[p][h] = 0
    BY <1>1 DEF Whole, InterfaceDeleted, LoaderDeleted
  <1>3. UNCHANGED <<pc, descs, busy>> /\ m_pluginMap' = m_pluginMap
        /\ root' = [root EXCEPT ![p][h] = NoRoot]
    BY <1>1, <1>2 DEF Bury, TypeOK
  <1>4. orphans' = orphans
    <2>1. orphans' = [orphans EXCEPT ![p][h] = orphans[p][h] + root[p][h].live + root[p][h].dying]
      BY <1>1 DEF Bury
    <2>2. orphans' = [orphans EXCEPT ![p][h] = 0]
      BY <1>2, <2>1
    <2> QED BY <1>1, <1>2, <2>2 DEF TypeOK
  <1>5. \E s \in {"none", "dropped"} : loader' = [loader EXCEPT ![p][h] = s]
    BY DEF InterfaceDeleted, LoaderDeleted
  <1>6. About(p, h)
    BY <1>1, <1>3, <1>4, <1>5 DEF About, Same, TypeOK
  <1>7. root'[p][h] = NoRoot /\ loader'[p][h] # "held"
    BY <1>1, <1>3, <1>5 DEF TypeOK
  <1>8. Whole(p, h)' /\ Silent(p, h)'
    BY <1>1, <1>2, <1>3, <1>4, <1>7 DEF Whole, Silent, NoRoot
  <1> QED BY <1>3, <1>6, <1>8, AboutOne

(* The steps that are about a whole process.                               *)
LEMMA CalmProcess ==
  ASSUME CalmInv, NEW p \in Proc,
         \/ Start(p) \/ InitDone(p) \/ ShutdownPluginManager(p) \/ Gone(p)
         \/ \E h \in Hash : SkipPlugin(p, h)
  PROVE  \A q \in Proc, k \in Hash \ Disturbed : Whole(q, k)' /\ Silent(q, k)'
  <1> SUFFICES ASSUME NEW q \in Proc, NEW k \in Hash \ Disturbed
               PROVE  Whole(q, k)' /\ Silent(q, k)'
    OBVIOUS
  <1>1. TypeOK /\ Whole(q, k) /\ Silent(q, k)
    BY DEF CalmInv, OwnInv
  <1>2. CASE Start(p)
    <2>1. q # p => Same(q, k) /\ pc'[q] = pc[q] /\ busy'[q] = busy[q]
      BY <1>1, <1>2 DEF Start, Same, TypeOK
    <2> DEFINE loaded == LoadPluginInterfaceObject(NoRoot, TRUE)
               fresh == {h \in Hash : Discovered(h) # {}}
    <2>2. loaded.state = "live" /\ loaded.live = 0 /\ loaded.dying = 0
      BY DEF LoadPluginInterfaceObject, NoRoot
    <2> HIDE DEF loaded, fresh
    <2>3. /\ pc' = [pc EXCEPT ![p] = "init"] /\ orphans' = orphans /\ busy' = busy
          /\ m_pluginMap' = [m_pluginMap EXCEPT ![p] = fresh]
          /\ root' = [root EXCEPT ![p] = [h \in Hash |-> IF h \in fresh THEN loaded ELSE NoRoot]]
          /\ loader' = [loader EXCEPT ![p] = [h \in Hash |-> IF h \in fresh THEN "held" ELSE "none"]]
      BY <1>2 DEF Start, loaded, fresh
    <2>4. busy[p] = NoHash
      BY <1>2 DEF Start, CalmInv, OwnInv, DownIsEmpty
    <2>5. CASE q = p
      <3>1. /\ pc'[p] = "init" /\ m_pluginMap'[p] = fresh /\ orphans'[p][k] = 0 /\ busy'[p] = NoHash
            /\ root'[p][k] = IF k \in fresh THEN loaded ELSE NoRoot
            /\ loader'[p][k] = IF k \in fresh THEN "held" ELSE "none"
        BY <1>1, <2>3, <2>4, <2>5 DEF TypeOK, Whole
      <3> QED BY <2>2, <2>5, <3>1, ConstantsAssumption DEF Whole, Silent, NoRoot
    <2>6. CASE q # p
      BY <1>1, <2>1, <2>6, SameIsCalm
    <2> QED BY <2>5, <2>6
  <1>3. CASE InitDone(p)
    BY <1>1, <1>3 DEF InitDone, TypeOK, Whole, Silent
  <1>4. CASE ShutdownPluginManager(p)
    <2>1. q # p => Same(q, k) /\ pc'[q] = pc[q] /\ busy'[q] = busy[q]
      BY <1>1, <1>4 DEF ShutdownPluginManager, Same, TypeOK
    <2>2. CASE q = p
      <3>1. /\ pc[p] = "run" /\ pc'[p] = "quit" /\ busy[p] = NoHash
            /\ UNCHANGED <<descs, m_pluginMap, loader, orphans, busy>>
            /\ root'[p][k] = IF k \in m_pluginMap[p] THEN ShutdownAllPluginObjects(root[p][k])
                             ELSE root[p][k]
        BY <1>1, <1>4 DEF ShutdownPluginManager, TypeOK
      <3>2. root[p][k] \in Root
        BY <1>1 DEF TypeOK
      <3>3. ShutdownAllPluginObjects(root[p][k]).state = root[p][k].state
            /\ ShutdownAllPluginObjects(root[p][k]).live = 0
        <4> DEFINE n == root[p][k].dying + root[p][k].live
        <4>1. ShutdownAllPluginObjects(root[p][k]) = [root[p][k] EXCEPT !.dying = n, !.live = 0]
          BY DEF ShutdownAllPluginObjects
        <4> HIDE DEF n
        <4> QED BY <3>2, <4>1 DEF Root
      <3> QED BY <1>1, <2>2, <3>1, <3>3, ConstantsAssumption DEF Whole, Silent
    <2>3. CASE q # p
      BY <1>1, <2>1, <2>3, SameIsCalm
    <2> QED BY <2>2, <2>3
  <1>5. CASE Gone(p)
    <2>1. q # p => Same(q, k) /\ pc'[q] = pc[q] /\ busy'[q] = busy[q]
      BY <1>1, <1>5 DEF Gone, Same, TypeOK
    <2>2. CASE q = p
      <3>1. /\ pc'[p] = "down" /\ m_pluginMap'[p] = {} /\ root'[p][k] = NoRoot
            /\ loader'[p][k] = "none" /\ orphans'[p][k] = 0 /\ busy'[p] = NoHash
        BY <1>1, <1>5 DEF Gone, TypeOK
      <3> QED BY <2>2, <3>1, ConstantsAssumption DEF Whole, Silent, NoRoot
    <2>3. CASE q # p
      BY <1>1, <2>1, <2>3, SameIsCalm
    <2> QED BY <2>2, <2>3
  <1>6. ASSUME NEW h \in Hash, SkipPlugin(p, h)
        PROVE  Whole(q, k)' /\ Silent(q, k)'
    BY <1>1, <1>6 DEF SkipPlugin, Whole, Silent
  <1> QED BY <1>2, <1>3, <1>4, <1>5, <1>6

LEMMA CalmInit == Init => CalmInv
  <1> SUFFICES ASSUME Init PROVE CalmInv
    OBVIOUS
  <1>1. OwnInv
    BY OwnInit
  <1>2. \A p \in Proc, h \in Hash \ Disturbed : Whole(p, h) /\ Silent(p, h)
    BY ConstantsAssumption DEF Init, Whole, Silent, NoRoot, NoEntry
  <1> QED BY <1>1, <1>2 DEF CalmInv

(* Every step keeps each plugin that is not disturbed whole and silent.    *)
LEMMA CalmStep ==
  ASSUME CalmInv, [Next]_pvars
  PROVE  CalmInv'
  <1> DEFINE Good == \A q \in Proc, k \in Hash \ Disturbed : Whole(q, k)' /\ Silent(q, k)'
  <1>1. OwnInv'
    BY OwnStep DEF CalmInv
  <1>2. CASE UNCHANGED procVars
    BY <1>1, <1>2 DEF procVars, CalmInv, Whole, Silent
  <1>3. ASSUME NEW p \in Proc, ProcNext(p)
        PROVE  Good
    <2>1. CASE Start(p) \/ InitDone(p) \/ ShutdownPluginManager(p) \/ Exit(p) \/ Crash(p)
      BY <2>1, CalmProcess DEF Exit, Crash
    <2>2. ASSUME NEW h \in Disturbed, ActsOn(p, h)
          PROVE  Good
      BY <2>2, CalmDisturbed
    <2>3. ASSUME NEW h \in Hash, SkipPlugin(p, h)
          PROVE  Good
      BY <2>3, CalmProcess
    <2>4. ASSUME NEW h \in Hash \ Disturbed, ActsOn(p, h)
          PROVE  Good
      <3>1. ~OrphanDestroyed(p, h)
        BY DEF OrphanDestroyed, CalmInv, Whole
      <3>2. ASSUME busy[p] = h, NEW ok \in BOOLEAN, ConstructorReturns(p, ok)
            PROVE  Good
        BY <3>2, CalmReturns
      <3> HIDE DEF Good
      <3>3. ASSUME NEW en \in BOOLEAN, EnableDisablePlugin(p, h, en)
            PROVE  Good
        BY <3>3, CalmEnableDisable DEF Good
      <3>4. CASE CreatePluginObject(p, h) \/ RecoverFromCrash(p, h)
        BY <3>4, CalmCreate, CalmRecover DEF Good
      <3>5. CASE ReleaseObject(p, h) \/ DeleteObject(p, h) \/ ObjectDestroyed(p, h)
        BY <3>5, CalmRelease, CalmDelete DEF Good
      <3>6. CASE InterfaceDeleted(p, h) \/ LoaderDeleted(p, h)
        BY <3>6, CalmBuried DEF Good
      <3> QED BY <2>4, <3>1, <3>2, <3>3, <3>4, <3>5, <3>6 DEF ActsOn
    <2> HIDE DEF Good
    <2>5. ASSUME NEW h \in Hash, ActsOn(p, h)
          PROVE  Good
      BY <2>2, <2>4, <2>5
    <2>6. ASSUME NEW ok \in BOOLEAN, ConstructorReturns(p, ok)
          PROVE  Good
      <3>1. busy[p] \in Hash
        BY <2>6 DEF ConstructorReturns, CalmInv, OwnInv, TypeOK
      <3> QED BY <2>5, <2>6, <3>1 DEF ActsOn
    <2> HIDE DEF Good
    <2> QED BY <1>3, <2>1, <2>3, <2>5, <2>6 DEF ProcNext, Deferred, ActsOn
  <1>4. ASSUME NEW l \in Loc, NEW h \in Hash \cup {NoHash}, FileChanges(l, h)
        PROVE  UNCHANGED procVars
    BY <1>4 DEF FileChanges
  <1>5. CASE UNCHANGED pvars
    BY <1>2, <1>5 DEF pvars
  <1> QED BY <1>1, <1>2, <1>3, <1>4, <1>5 DEF Next, CalmInv

LEMMA CalmAlways == Spec => []CalmInv
  <1>1. CalmInv /\ [Next]_pvars => CalmInv'
    BY CalmStep
  <1> QED BY <1>1, CalmInit, PTL DEF Spec

(* Of the plugins for which no call comes between the deleteLater() of     *)
(* their interface and the unloading of their library, none in the         *)
(* registry is about to be deleted, whatever the calls for the others do   *)
(* and however many processes there are.                                   *)
THEOREM RegisteredStaysLive == Spec => []RegisteredIsLive
  <1>1. CalmInv => RegisteredIsLive
    BY DEF CalmInv, OwnInv, TypeOK, Whole, RegisteredIsLive
  <1> QED BY <1>1, CalmAlways, PTL

(* No library of these plugins is unloaded under an object of it.          *)
THEOREM CodeStays == Spec => []CodeOutlivesObjects
  <1>1. ASSUME CalmInv, NEW p \in Proc, NEW h \in Hash \ Disturbed,
               root[p][h].live + root[p][h].dying + orphans[p][h] > 0
        PROVE  Mapped(p, h)
    BY <1>1 DEF CalmInv, Whole, Mapped
  <1>2. CalmInv => CodeOutlivesObjects
    BY <1>1 DEF CodeOutlivesObjects, HasItsCode
  <1> QED BY <1>2, CalmAlways, PTL

(* And disabling such a plugin, or the shutdown, reaches every object.     *)
THEOREM EveryObjectIsReached == Spec => []ObjectsAreReached
  <1>1. CalmInv => ObjectsAreReached
    BY DEF CalmInv, Whole, Silent, ObjectsAreReached, DisabledIsEmpty, ShutdownReachesAll
  <1> QED BY <1>1, CalmAlways, PTL

=============================================================================
