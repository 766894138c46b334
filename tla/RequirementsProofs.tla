-------------------------- MODULE RequirementsProofs --------------------------
(***************************************************************************)
(* Theorems about RequirementsWidget and RequirementFiles, for any width   *)
(* of the ids, any number of writes and links, and a user who is careful   *)
(* or not.                                                                 *)
(*                                                                         *)
(* Two invariants that need one another: FilesInv relates the list to the  *)
(* files, and ViewInv the current requirement to what is on the screen and *)
(* in the list.  An operation rewrites the current requirement: so it is   *)
(* one that was parsed, and its file is there to be moved.                 *)
(***************************************************************************)
EXTENDS RequirementsWidget, FiniteSetTheorems, WellFoundedInduction, SequenceTheorems, TLAPS

Disks == [Path -> Content \cup {NoFile}]
Lists == [Path -> Requirement \cup {NoFile}]

Editors == [visible : BOOLEAN, of : Maybe, text : Content]

Views ==
  [current : Maybe, selected : Maybe, shown : Maybe, dialog : Maybe, editor : Editors,
   save : BOOLEAN, repo : {"", "public"}, query : {"", "status:DONE"}, timer : BOOLEAN]

In(reqs) == {p \in Path : reqs[p] # NoFile}

(* The list reqs is of the files d, but for the text of those in bad: who  *)
(* can be parsed is listed, and who is listed has a file, though one whose *)
(* title is no longer one, if its text was written when it was not moved.  *)
InStep(reqs, d, bad) ==
  \A p \in Path :
    /\ Parses(d, p) => reqs[p] # NoFile
    /\ reqs[p] # NoFile => d[p] # NoFile
    /\ reqs[p] # NoFile /\ p \notin bad => reqs[p].raw = d[p]

FilesInv == FilesTypeOK /\ InStep(m_requirements, disk, failed)

(* What the screen shows of the current requirement, which the tree shows. *)
Sees(v, tree) ==
  /\ v \in Views
  /\ v.current # NoPath =>
       /\ v.current \in tree
       /\ IF v.editor.visible THEN v.editor.of = v.current ELSE v.shown = v.current
  /\ v.editor.of # NoPath => v.editor.of \in tree

ViewInv == Sees(view, m_filtered) /\ m_filtered \subseteq Listed

HistoryInv == m_navHistory \in Seq(1 .. Limit) /\ m_navHistoryPos \in 0 .. Len(m_navHistory)

WidgetInv == FilesInv /\ ViewInv /\ HistoryInv
-----------------------------------------------------------------------------
(* Facts about paths and single requirements.                              *)
LEMMA PathFacts ==
  ASSUME NEW p \in Path
  PROVE  /\ SectionOf(p) \in Section /\ NameOf(p) \in Number
         /\ MovedPath(p) \in Path /\ MovedPath(p) # p
  BY DEF Path, SectionOf, NameOf, MovedPath, Section

(* A line other than the title keeps the title.                            *)
LEMMA LinesOK ==
  ASSUME NEW req \in Requirement
  PROVE  /\ req.raw \in Content /\ req.fields \in Content
         /\ req.fields.id \in 1 .. Limit
         /\ \A status \in Status :
              /\ setStatusLine(req, status) \in Requirement
              /\ setStatusLine(req, status).raw.deps = req.raw.deps
         /\ \A deps \in SUBSET (1 .. Limit) : setDependenciesLine(req, deps) \in Requirement
         /\ \A done \in BOOLEAN : setCriterionChecked(req, done) \in Requirement
         /\ \A text \in Content : [req EXCEPT !.raw = text] \in Requirement
  <1>1. req.raw \in Content /\ req.fields \in Content /\ Titled(req.fields)
    BY DEF Requirement
  <1>7. req.fields.id \in 1 .. Limit
    <2>1. req.fields.id \in Number /\ req.fields.id <= Limit
      BY <1>1 DEF Titled, Content
    <2> QED BY <2>1, LimitAssumption DEF Number
  <1>2. ASSUME NEW a \in Content, NEW b \in Content, b.id = req.fields.id,
               NEW r, r = [[req EXCEPT !.raw = a] EXCEPT !.fields = b]
        PROVE  r \in Requirement /\ r.raw = a
    <2>1. b \in {text \in Content : Titled(text)}
      BY <1>1, <1>2 DEF Titled
    <2> QED BY <1>2, <2>1 DEF Requirement
  <1>3. ASSUME NEW status \in Status
        PROVE  /\ setStatusLine(req, status) \in Requirement
               /\ setStatusLine(req, status).raw.deps = req.raw.deps
    <2>1. PICK a \in Content : a = [req.raw EXCEPT !.status = status]
      BY <1>1 DEF Content
    <2>2. PICK b \in Content : b = [req.fields EXCEPT !.status = status]
      BY <1>1 DEF Content
    <2>6. b.id = req.fields.id
      BY <1>1, <2>2 DEF Content
    <2>3. setStatusLine(req, status) = [[req EXCEPT !.raw = a] EXCEPT !.fields = b]
      BY <2>1, <2>2 DEF setStatusLine, Requirement
    <2>4. a.deps = req.raw.deps
      BY <1>1, <2>1 DEF Content
    <2>5. setStatusLine(req, status) \in Requirement /\ setStatusLine(req, status).raw = a
      <3> HIDE DEF setStatusLine
      <3> QED BY <1>2, <2>3, <2>6
    <2> QED BY <2>4, <2>5
  <1>4. ASSUME NEW deps \in SUBSET (1 .. Limit)
        PROVE  setDependenciesLine(req, deps) \in Requirement
    <2>1. PICK a \in Content : a = [req.raw EXCEPT !.deps = deps]
      BY <1>1 DEF Content
    <2>2. PICK b \in Content : b = [req.fields EXCEPT !.deps = deps]
      BY <1>1 DEF Content
    <2>6. b.id = req.fields.id
      BY <1>1, <2>2 DEF Content
    <2>3. setDependenciesLine(req, deps) = [[req EXCEPT !.raw = a] EXCEPT !.fields = b]
      BY <2>1, <2>2 DEF setDependenciesLine, Requirement
    <2> QED BY <1>2, <2>3, <2>6
  <1>5. ASSUME NEW done \in BOOLEAN
        PROVE  setCriterionChecked(req, done) \in Requirement
    <2>1. PICK a \in Content : a = [req.raw EXCEPT !.done = done]
      BY <1>1 DEF Content
    <2>2. PICK b \in Content : b = [req.fields EXCEPT !.done = done]
      BY <1>1 DEF Content
    <2>6. b.id = req.fields.id
      BY <1>1, <2>2 DEF Content
    <2>3. setCriterionChecked(req, done) = [[req EXCEPT !.raw = a] EXCEPT !.fields = b]
      BY <2>1, <2>2 DEF setCriterionChecked, Requirement
    <2> QED BY <1>2, <2>3, <2>6
  <1>6. ASSUME NEW text \in Content PROVE [req EXCEPT !.raw = text] \in Requirement
    BY DEF Requirement
  <1> QED BY <1>1, <1>3, <1>4, <1>5, <1>6, <1>7
-----------------------------------------------------------------------------
(* A set of numbers has a least one, as strict inclusion of finite sets is *)
(* well founded.                                                           *)
LEMMA LeastNumber ==
  ASSUME NEW T \in SUBSET Nat, T # {}
  PROVE  \E n \in T : \A m \in T : n <= m
  <1> DEFINE Below == {0 .. n - 1 : n \in T}
             R == StrictSubsetOrdering(Nat)
  <1>1. Below \subseteq FiniteSubsetsOf(Nat) /\ Below # {}
    <2>1. ASSUME NEW n \in T PROVE 0 .. n - 1 \in FiniteSubsetsOf(Nat)
      <3>1. IsFiniteSet(0 .. n - 1)
        BY FS_Interval
      <3> QED BY <3>1 DEF FiniteSubsetsOf
    <2> QED BY <2>1
  <1>2. IsWellFoundedOn(R, FiniteSubsetsOf(Nat))
    BY FS_StrictSubsetOrderingWellFounded
  <1>3. PICK B \in Below : \A C \in Below : ~(<<C, B>> \in R)
    <2> HIDE DEF Below, R
    <2> QED BY <1>1, <1>2, WFMin
  <1>4. PICK n \in T : B = 0 .. n - 1
    OBVIOUS
  <1>5. ASSUME NEW m \in T, m < n PROVE FALSE
    <2>1. 0 .. m - 1 \subseteq B /\ 0 .. m - 1 # B
      BY <1>4, <1>5
    <2>2. <<0 .. m - 1, B>> \in R
      <3>1. PICK C : C = 0 .. m - 1
        OBVIOUS
      <3>2. C \in SUBSET Nat /\ B \in SUBSET Nat /\ C \subseteq B /\ C # B
        BY <1>4, <2>1, <3>1
      <3>3. <<C, B>> \in R
        BY <3>2 DEF StrictSubsetOrdering
      <3> QED BY <3>1, <3>3
    <2> QED BY <1>3, <2>2
  <1> QED BY <1>5

(* The maximum of numbers up to a limit is one of them and none is above.  *)
LEMMA MaxOf ==
  ASSUME NEW S \in SUBSET (0 .. Limit), S # {}
  PROVE  Max(S) \in S /\ \A x \in S : x <= Max(S)
  <1> DEFINE T == {Limit - x : x \in S}
  <1>1. T \in SUBSET Nat /\ T # {}
    <2>1. \A x \in 0 .. Limit : Limit - x \in Nat
      BY LimitAssumption
    <2> QED BY <2>1
  <1>2. PICK n \in T : \A m \in T : n <= m
    <2> HIDE DEF T
    <2> QED BY <1>1, LeastNumber
  <1>3. PICK x \in S : n = Limit - x
    BY <1>2
  <1>4. \A y \in S : x >= y
    <2> SUFFICES ASSUME NEW y \in S PROVE x >= y
      OBVIOUS
    <2>1. n <= Limit - y
      BY <1>2
    <2> QED BY <1>3, <2>1, LimitAssumption
  <1>5. PICK most \in S : most = Max(S) /\ \A y \in S : most >= y
    BY <1>4 DEF Max
  <1>6. \A y \in S : y <= most
    BY <1>5, LimitAssumption
  <1> QED BY <1>5, <1>6
-----------------------------------------------------------------------------
(* What is parsed again is in step, and what is not parsed never gets in.  *)
LEMMA ParsedInStep ==
  ASSUME NEW d \in Disks
  PROVE  /\ parseDirectories(d) \in Lists /\ InStep(parseDirectories(d), d, {})
         /\ \A p \in In(parseDirectories(d)) :
              parseDirectories(d)[p].raw = parseDirectories(d)[p].fields
  <1> DEFINE reqs == parseDirectories(d)
  <1>1. \A p \in Path : reqs[p] = IF Parses(d, p) THEN [raw |-> d[p], fields |-> d[p]] ELSE NoFile
    BY DEF parseDirectories
  <1>2. \A p \in Path : Parses(d, p) => d[p] \in {text \in Content : Titled(text)}
    BY DEF Parses, Disks
  <1>3. ASSUME NEW p \in Path, Parses(d, p)
        PROVE  reqs[p] \in Requirement /\ reqs[p].raw = d[p] /\ reqs[p].fields = d[p]
    <2>1. PICK r : r = [raw |-> d[p], fields |-> d[p]]
      OBVIOUS
    <2>2. reqs[p] = r
      BY <1>1, <1>3, <2>1
    <2>3. r \in Requirement /\ r.raw = d[p] /\ r.fields = d[p]
      BY <1>2, <1>3, <2>1 DEF Requirement
    <2> QED BY <2>2, <2>3
  <1>4. reqs \in Lists
    BY <1>1, <1>2 DEF Lists, Requirement, parseDirectories
  <1>5. \A p \in Path : reqs[p] # NoFile <=> Parses(d, p)
    BY <1>1, <1>3, NoFileAssumption
  <1> HIDE DEF reqs
  <1>6. InStep(reqs, d, {})
    BY <1>3, <1>5 DEF InStep, Parses
  <1>7. \A p \in In(reqs) : reqs[p].raw = reqs[p].fields
    BY <1>3, <1>5 DEF In
  <1> QED BY <1>4, <1>6, <1>7 DEF reqs

LEMMA AgainKeeps ==
  ASSUME FilesInv, NEW d \in Disks, ParsedAgain(d), writes' \in 0 .. MaxWrites
  PROVE  FilesInv'
  <1>1. /\ parseDirectories(d) \in Lists /\ InStep(parseDirectories(d), d, {})
    BY ParsedInStep
  <1>2. disk' = d /\ m_requirements' = parseDirectories(d) /\ failed' = {}
    BY DEF ParsedAgain
  <1>3. FilesTypeOK'
    BY <1>1, <1>2 DEF FilesTypeOK, Disks, Lists
  <1>4. InStep(m_requirements, disk, failed)'
    BY <1>1, <1>2
  <1> QED BY <1>3, <1>4 DEF FilesInv

(* What rewriting a file does, and moving it.                              *)
Rewrites(e, d, p, c) == e = [d EXCEPT ![p] = c]

LEMMA RewrittenOK ==
  ASSUME NEW d \in Disks, NEW p \in Path, NEW c \in Content, NEW e, Rewrites(e, d, p, c)
  PROVE  e \in Disks /\ e[p] = c /\ c # NoFile /\ \A q \in Path \ {p} : e[q] = d[q]
  BY NoFileAssumption DEF Disks, Rewrites

LEMMA MovedOK ==
  ASSUME NEW d \in Disks, NEW p \in Path, NEW e, e = Moved(d, p)
  PROVE  /\ e \in Disks /\ e[p] = NoFile /\ e[MovedPath(p)] = d[p]
         /\ \A q \in Path \ {p, MovedPath(p)} : e[q] = d[q]
  <1>1. MovedPath(p) \in Path /\ MovedPath(p) # p
    BY PathFacts
  <1>2. \A q \in Path : e[q] = IF q = p THEN NoFile ELSE IF q = MovedPath(p) THEN d[p] ELSE d[q]
    BY <1>1 DEF Disks, Moved
  <1>3. e \in Disks
    BY <1>1 DEF Disks, Moved
  <1> QED BY <1>1, <1>2, <1>3

(* The id that comes next is none of those in use (generateNextId).        *)
LEMMA NextIdIsNew ==
  ASSUME NEW d \in Disks
  PROVE  /\ generateNextId(d) \in Number
         /\ \A p \in Parsed(d) : d[p].id \in 1 .. Limit /\ d[p].id < generateNextId(d)
  <1> DEFINE S == {0} \cup {d[p].id : p \in Parsed(d)}
  <1>0. ASSUME NEW p \in Parsed(d) PROVE d[p].id \in 1 .. Limit
    <2>1. d[p] \in Content /\ Titled(d[p])
      BY <1>0 DEF Parsed, Parses, Disks
    <2>2. d[p].id \in Number /\ d[p].id <= Limit
      BY <2>1 DEF Content, Titled
    <2> QED BY <2>2, LimitAssumption DEF Number
  <1>1. S \in SUBSET (0 .. Limit) /\ S # {}
    BY <1>0, LimitAssumption
  <1>2. PICK most : most = Max(S)
    OBVIOUS
  <1>3. most \in S /\ \A x \in S : x <= most
    <2> HIDE DEF S
    <2> QED BY <1>1, <1>2, MaxOf
  <1>4. generateNextId(d) = 1 + most
    BY <1>2 DEF generateNextId
  <1>5. \A p \in Parsed(d) : d[p].id \in S
    OBVIOUS
  <1> HIDE DEF S
  <1>6. most \in 0 .. Limit
    BY <1>1, <1>3
  <1>7. 1 + most \in Number
    BY <1>6, LimitAssumption DEF Number
  <1>8. ASSUME NEW p \in Parsed(d) PROVE d[p].id < 1 + most
    <2>1. d[p].id \in 0 .. Limit /\ d[p].id <= most
      BY <1>1, <1>3, <1>5, <1>8
    <2> QED BY <1>6, <2>1
  <1> QED BY <1>0, <1>4, <1>7, <1>8

LEMMA NewOK ==
  ASSUME NEW d \in Disks, NEW status \in Status, NEW deps \in SUBSET (1 .. Limit),
         NEW e, e = writeFile(d, status, deps)
  PROVE  /\ e \in Disks /\ NewPath(d) \in Path
         /\ e[NewPath(d)] # NoFile /\ e[NewPath(d)].id = generateNextId(d)
         /\ \A q \in Path \ {NewPath(d)} : e[q] = d[q]
  <1>1. generateNextId(d) \in Number
    BY NextIdIsNew
  <1>2. PICK p : p = NewPath(d)
    OBVIOUS
  <1>3. p \in Path
    BY <1>1, <1>2 DEF NewPath, Path, Section
  <1>4. PICK c : c = [id |-> generateNextId(d), status |-> status, deps |-> deps, done |-> FALSE]
    OBVIOUS
  <1>5. c \in Content /\ c.id = generateNextId(d)
    BY <1>1, <1>4 DEF Content
  <1>6. Rewrites(e, d, p, c)
    BY <1>2, <1>4 DEF writeFile, Rewrites
  <1>7. e \in Disks /\ e[p] = c /\ c # NoFile /\ \A q \in Path \ {p} : e[q] = d[q]
    BY <1>3, <1>5, <1>6, RewrittenOK
  <1> QED BY <1>2, <1>3, <1>5, <1>7
-----------------------------------------------------------------------------
LEMMA EmptyText == Empty \in Content
  <1>1. Limit + 1 \in Number
    BY LimitAssumption DEF Number
  <1> QED BY <1>1, StatusAssumption DEF Empty, Content

(* What the slots make of the view.                                        *)
LEMMA DeselectedSees ==
  ASSUME NEW v \in Views, NEW tree
  PROVE  Sees(Deselected(v), tree) /\ Deselected(v).query = v.query
  <1>1. PICK editor : editor = [v.editor EXCEPT !.of = NoPath, !.text = Empty]
    OBVIOUS
  <1> editor \in Editors /\ editor.of = NoPath
    BY <1>1, EmptyText DEF Views, Editors, Maybe
  <1>2. PICK e : e = Deselected(v)
    OBVIOUS
  <1>3. e = [v EXCEPT !.current = NoPath, !.selected = NoPath, !.shown = NoPath, !.editor = editor]
    BY <1>1, <1>2 DEF Deselected, Views
  <1>4. e \in Views /\ e.current = NoPath /\ e.editor.of = NoPath /\ e.query = v.query
    BY <1>1, <1>3 DEF Views, Maybe
  <1> QED BY <1>2, <1>4 DEF Sees

(* A view that differs in what says nothing of the current requirement.    *)
LEMMA SetSees ==
  ASSUME NEW v, NEW tree, Sees(v, tree), NEW e \in Views,
         e.current = v.current, e.editor = v.editor, e.shown = v.shown
  PROVE  Sees(e, tree)
  BY DEF Sees

LEMMA PreviewSees ==
  ASSUME NEW v \in Views, NEW tree, v.current # NoPath => v.current \in tree,
         v.editor.of # NoPath => v.editor.of \in tree
  PROVE  Sees(showPreview(v), tree)
  <1>1. PICK editor : editor = [v.editor EXCEPT !.visible = FALSE]
    OBVIOUS
  <1> editor \in Editors /\ ~editor.visible /\ editor.of = v.editor.of
    BY <1>1 DEF Views, Editors
  <1>2. PICK e : e = showPreview(v)
    OBVIOUS
  <1>3. e = [v EXCEPT !.editor = editor, !.shown = v.current]
    BY <1>1, <1>2 DEF showPreview, Views
  <1>4. e \in Views /\ e.current = v.current /\ e.editor = editor /\ e.shown = v.current
    BY <1>3 DEF Views
  <1> QED BY <1>1, <1>2, <1>4 DEF Sees

LEMMA ChosenSees ==
  ASSUME NEW reqs \in Lists, NEW v \in Views, NEW tree, v.editor.of # NoPath => v.editor.of \in tree,
         NEW p \in tree, p \in In(reqs)
  PROVE  Sees(onSelectionChanged(reqs, v, p), tree)
  <1> DEFINE chosen == [v EXCEPT !.current = p, !.selected = p]
             filled == [chosen EXCEPT !.editor.of = p, !.editor.text = reqs[p].raw]
  <1>1. p \in Path /\ reqs[p] \in Requirement /\ reqs[p].raw \in Content
    BY DEF In, Lists, Requirement
  <1>2. chosen \in Views /\ chosen.current = p /\ chosen.editor = v.editor
    BY <1>1 DEF Views, Maybe
  <1>3. filled \in Views /\ filled.current = p /\ filled.editor.of = p
    <2>1. PICK editor : editor = [v.editor EXCEPT !.of = p, !.text = reqs[p].raw]
      OBVIOUS
    <2> editor \in Editors /\ editor.of = p
      BY <1>1, <2>1 DEF Views, Editors, Maybe
    <2>2. filled = [chosen EXCEPT !.editor = editor]
      <3> HIDE DEF chosen
      <3> QED BY <1>2, <2>1 DEF Views
    <2> HIDE DEF chosen, filled
    <2> QED BY <1>2, <2>1, <2>2 DEF Views
  <1>4. PICK w : w = IF v.editor.visible THEN filled ELSE chosen
    OBVIOUS
  <1>5. onSelectionChanged(reqs, v, p) = showPreview(w)
    BY <1>4 DEF onSelectionChanged
  <1> HIDE DEF chosen, filled
  <1>6. w \in Views /\ w.current \in tree /\ (w.editor.of # NoPath => w.editor.of \in tree)
    BY <1>2, <1>3, <1>4
  <1> QED BY <1>5, <1>6, PreviewSees

LEMMA FilteredIn ==
  ASSUME NEW reqs, NEW v
  PROVE  Filtered(reqs, v) \subseteq In(reqs)
  BY DEF Filtered, search, filterRequirementsByRepo, In

LEMMA ApplySees ==
  ASSUME NEW reqs, NEW v \in Views, applyViewFilters(reqs, v)
  PROVE  Sees(view', m_filtered') /\ m_filtered' \subseteq In(reqs)
  BY DeselectedSees, FilteredIn DEF applyViewFilters

(* Whoever is navigated to is in the tree, filtered anew or not, and shown.*)
LEMMA NavigateSees ==
  ASSUME NEW reqs \in Lists, NEW tree, tree \subseteq In(reqs), NEW v, Sees(v, tree),
         NEW id, NEW push, navigateToId(reqs, tree, v, id, push)
  PROVE  Sees(view', m_filtered') /\ m_filtered' \subseteq In(reqs)
  <1> DEFINE hidden  == v.query # "" /\ \A p \in tree : reqs[p].fields.id # id
             cleared == IF hidden THEN [v EXCEPT !.query = "", !.timer = TRUE] ELSE v
             rows    == IF hidden THEN Filtered(reqs, cleared) ELSE tree
             from    == IF hidden THEN Deselected(cleared) ELSE v
             found   == {p \in rows : reqs[p].fields.id = id}
  <1>1. /\ m_filtered' = rows
        /\ view' \in IF found = {} THEN {from} ELSE {Select(reqs, from, p) : p \in found}
    BY DEF navigateToId
  <1>2. v \in Views
    BY DEF Sees
  <1>3. cleared \in Views
    BY <1>2 DEF Views
  <1>4. rows \subseteq In(reqs)
    <2> HIDE DEF hidden, cleared
    <2> QED BY FilteredIn
  <1>5. Sees(from, rows)
    <2> HIDE DEF hidden, cleared
    <2>1. CASE hidden
      BY <1>3, <2>1, DeselectedSees
    <2>2. CASE ~hidden
      BY <2>2
    <2> QED BY <2>1, <2>2
  <1> HIDE DEF rows, from
  <1>6. ASSUME NEW p \in found PROVE Sees(Select(reqs, from, p), rows)
    <2>1. p \in rows /\ p \in In(reqs)
      BY <1>4
    <2>2. Sees(onSelectionChanged(reqs, from, p), rows)
      BY <1>5, <2>1, ChosenSees DEF Sees
    <2> QED BY <1>5, <2>2 DEF Select
  <1> HIDE DEF found
  <1>7. Sees(view', rows)
    BY <1>1, <1>5, <1>6
  <1> QED BY <1>1, <1>4, <1>7

LEMMA PushKeeps ==
  ASSUME HistoryInv, NEW id \in 1 .. Limit, pushNavHistory(id)
  PROVE  HistoryInv'
  <1> DEFINE kept == SubSeq(m_navHistory, 1, m_navHistoryPos)
  <1>1. /\ m_navHistory \in Seq(1 .. Limit) /\ m_navHistoryPos \in 0 .. Len(m_navHistory)
        /\ m_navHistoryPos \in Nat /\ Len(m_navHistory) \in Nat
    BY DEF HistoryInv
  <1>2. kept \in Seq(1 .. Limit) /\ Len(kept) = m_navHistoryPos
    <2>1. \A i \in 1 .. m_navHistoryPos : m_navHistory[i] \in 1 .. Limit
      <3> HIDE DEF kept
      <3>1. \A i \in 1 .. Len(m_navHistory) : m_navHistory[i] \in 1 .. Limit
        BY <1>1, ElementOfSeq
      <3>2. \A i \in 1 .. m_navHistoryPos : i \in 1 .. Len(m_navHistory)
        BY <1>1
      <3> QED BY <3>1, <3>2
    <2>2. Len(kept) = IF 1 <= m_navHistoryPos THEN m_navHistoryPos - 1 + 1 ELSE 0
      BY <1>1, <2>1, SubSeqProperties
    <2>3. kept \in Seq(1 .. Limit)
      BY <1>1, <2>1, SubSeqProperties
    <2> HIDE DEF kept
    <2> QED BY <1>1, <2>2, <2>3
  <1>3. \/ m_navHistory' = kept /\ m_navHistoryPos' = m_navHistoryPos
        \/ m_navHistory' = Append(kept, id) /\ m_navHistoryPos' = m_navHistoryPos + 1
    BY DEF pushNavHistory
  <1> HIDE DEF kept
  <1>4. Append(kept, id) \in Seq(1 .. Limit) /\ Len(Append(kept, id)) = m_navHistoryPos + 1
    BY <1>2
  <1>5. m_navHistoryPos + 1 \in 0 .. m_navHistoryPos + 1 /\ m_navHistoryPos \in 0 .. m_navHistoryPos
    BY <1>1
  <1> QED BY <1>2, <1>3, <1>4, <1>5 DEF HistoryInv
-----------------------------------------------------------------------------
(* The ways in which an operation ends.                                    *)
LEMMA ReloadKeeps ==
  ASSUME FilesInv, NEW d \in Disks, NEW v \in Views, reload(d, v),
         writes' \in 0 .. MaxWrites
  PROVE  FilesInv' /\ ViewInv'
  <1>1. ParsedAgain(d) /\ applyViewFilters(parseDirectories(d), v)
    BY DEF reload
  <1>2. FilesInv'
    BY <1>1, AgainKeeps
  <1>3. Sees(view', m_filtered') /\ m_filtered' \subseteq In(parseDirectories(d))
    BY <1>1, ApplySees
  <1>4. Listed' = In(parseDirectories(d))
    BY <1>1 DEF ParsedAgain, Listed, In
  <1> QED BY <1>2, <1>3, <1>4 DEF ViewInv

LEMMA WriteFailsKeeps ==
  ASSUME FilesInv, NEW p \in Path, m_requirements[p] # NoFile, NEW req \in Requirement,
         WriteFails(p, req), writes' \in 0 .. MaxWrites
  PROVE  FilesInv' /\ Listed' = Listed
  <1>1. /\ m_requirements' = [m_requirements EXCEPT ![p] = req]
        /\ failed' = failed \cup {p} /\ disk' = disk
    BY DEF WriteFails
  <1>2. /\ m_requirements \in Lists /\ failed \subseteq Path /\ disk \in Disks
        /\ InStep(m_requirements, disk, failed)
    BY DEF FilesInv, FilesTypeOK, Lists, Disks
  <1>3. req # NoFile
    BY NoFileAssumption
  <1>4. m_requirements' \in Lists /\ \A q \in Path : m_requirements'[q] = IF q = p THEN req ELSE m_requirements[q]
    BY <1>1, <1>2 DEF Lists
  <1>5. InStep(m_requirements', disk, failed')
    BY <1>1, <1>2, <1>3, <1>4 DEF InStep
  <1>6. Listed' = Listed
    BY <1>3, <1>4 DEF Listed
  <1>7. FilesTypeOK'
    BY <1>1, <1>2, <1>4 DEF FilesTypeOK, Lists, Disks
  <1> QED BY <1>1, <1>2, <1>5, <1>6, <1>7 DEF FilesInv

LEMMA RewriteKeeps ==
  ASSUME FilesInv, NEW p \in Path, m_requirements[p] # NoFile, NEW req \in Requirement,
         disk' = writeRequirement(p, req), m_requirements' = [m_requirements EXCEPT ![p] = req],
         failed' = failed \ {p}, writes' \in 0 .. MaxWrites
  PROVE  FilesInv' /\ Listed' = Listed
  <1>1. /\ m_requirements \in Lists /\ failed \subseteq Path /\ disk \in Disks
        /\ InStep(m_requirements, disk, failed)
    BY DEF FilesInv, FilesTypeOK, Lists, Disks
  <1>3. req # NoFile /\ req.raw \in Content
    BY NoFileAssumption DEF Requirement
  <1>4. /\ m_requirements' \in Lists
        /\ \A q \in Path : m_requirements'[q] = IF q = p THEN req ELSE m_requirements[q]
    BY <1>1 DEF Lists
  <1>5. disk' = [disk EXCEPT ![p] = req.raw]
    BY DEF writeRequirement
  <1>6. /\ disk' \in Disks /\ disk'[p] = req.raw /\ req.raw # NoFile
        /\ \A q \in Path \ {p} : disk'[q] = disk[q]
    <2>1. PICK c \in Content : c = req.raw
      BY <1>3
    <2>2. PICK e : e = disk'
      OBVIOUS
    <2>3. Rewrites(e, disk, p, c)
      BY <1>5, <2>1, <2>2 DEF Rewrites
    <2> QED BY <1>1, <2>1, <2>2, <2>3, RewrittenOK
  <1>8. InStep(m_requirements', disk', failed')
    <2> SUFFICES ASSUME NEW q \in Path
                 PROVE  /\ Parses(disk', q) => m_requirements'[q] # NoFile
                        /\ m_requirements'[q] # NoFile => disk'[q] # NoFile
                        /\ m_requirements'[q] # NoFile /\ q \notin failed' => m_requirements'[q].raw = disk'[q]
      BY DEF InStep
    <2>1. CASE q = p
      BY <1>3, <1>4, <1>6, <2>1
    <2>2. CASE q # p
      BY <1>1, <1>4, <1>6, <2>2 DEF InStep, Parses
    <2> QED BY <2>1, <2>2
  <1>9. Listed' = Listed
    BY <1>3, <1>4 DEF Listed
  <1>10. FilesTypeOK'
    BY <1>1, <1>4, <1>6 DEF FilesTypeOK, Lists, Disks
  <1> QED BY <1>6, <1>8, <1>9, <1>10 DEF FilesInv

(* The requirement that an operation is for.                               *)
LEMMA CurrentOK ==
  ASSUME WidgetInv, current # NoPath
  PROVE  /\ current \in Path /\ m_requirements[current] \in Requirement
         /\ m_requirements[current] # NoFile /\ disk[current] # NoFile
  <1>1. current \in Listed
    BY DEF WidgetInv, ViewInv, Sees, current
  <1> QED BY <1>1 DEF Listed, WidgetInv, FilesInv, FilesTypeOK, InStep

LEMMA Facts ==
  ASSUME WidgetInv
  PROVE  /\ FilesInv /\ ViewInv /\ HistoryInv /\ view \in Views
         /\ disk \in Disks /\ m_requirements \in Lists
         /\ Sees(view, m_filtered) /\ m_filtered \subseteq In(m_requirements)
         /\ (view.editor.of # NoPath => view.editor.of \in m_filtered)
         /\ writes \in 0 .. MaxWrites
  BY DEF WidgetInv, FilesInv, FilesTypeOK, ViewInv, Sees, Disks, Lists, Listed, In

(* A step that leaves the files alone.                                     *)
LEMMA FilesStay ==
  ASSUME WidgetInv, UNCHANGED files, Sees(view', m_filtered'),
         m_filtered' \subseteq In(m_requirements), HistoryInv'
  PROVE  WidgetInv'
  <1>1. FilesInv'
    BY DEF WidgetInv, FilesInv, FilesTypeOK, files
  <1>2. Listed' = In(m_requirements)
    BY DEF files, Listed, In
  <1> QED BY <1>1, <1>2 DEF WidgetInv, ViewInv

LEMMA HistoryStays ==
  ASSUME HistoryInv, UNCHANGED history
  PROVE  HistoryInv'
  BY DEF HistoryInv, history
-----------------------------------------------------------------------------
LEMMA InitWidgetInv == Init => WidgetInv
  <1> SUFFICES ASSUME Init PROVE WidgetInv
    OBVIOUS
  <1>0. PICK status \in {"ACTIVE", "DONE"} :
          disk = [p \in Path |->
                    IF p \in IF status = "DONE" THEN {<<"archive", 1>>} ELSE {"active"} \X (1 .. Limit)
                    THEN [id |-> NameOf(p), status |-> status, deps |-> {}, done |-> FALSE]
                    ELSE NoFile]
    BY DEF Init
  <1>1. \A p \in Path : [id |-> NameOf(p), status |-> status, deps |-> {}, done |-> FALSE] \in Content
    BY PathFacts, StatusAssumption DEF Content
  <1>4. disk \in Disks
    BY <1>0, <1>1 DEF Disks
  <1>6. /\ m_requirements = parseDirectories(disk) /\ failed = {} /\ writes = 0
        /\ m_filtered = Filtered(m_requirements, view)
        /\ m_navHistory = <<>> /\ m_navHistoryPos = 0
    BY DEF Init
  <1>7. FilesInv
    <2>1. m_requirements \in Lists /\ InStep(m_requirements, disk, {})
      BY <1>4, <1>6, ParsedInStep
    <2>2. FilesTypeOK
      BY <1>4, <1>6, <2>1, LimitAssumption DEF FilesTypeOK, Disks, Lists
    <2> QED BY <1>6, <2>1, <2>2 DEF FilesInv
  <1>8. ViewInv
    <2>1. view \in Views /\ view.current = NoPath /\ view.editor.of = NoPath
      <3>1. PICK editor : editor = [visible |-> FALSE, of |-> NoPath, text |-> Empty]
        OBVIOUS
      <3>2. editor \in Editors /\ editor.of = NoPath
        BY <3>1, EmptyText DEF Editors, Maybe
      <3>3. view = [current |-> NoPath, selected |-> NoPath, shown |-> NoPath, dialog |-> NoPath,
                    editor |-> editor, save |-> FALSE, repo |-> "", query |-> "", timer |-> FALSE]
        BY <3>1 DEF Init
      <3> QED BY <3>2, <3>3 DEF Views, Maybe
    <2>2. m_filtered \subseteq In(m_requirements)
      BY <1>6, FilteredIn
    <2> QED BY <2>1, <2>2 DEF ViewInv, Sees, In, Listed
  <1>9. HistoryInv
    BY <1>6 DEF HistoryInv
  <1> QED BY <1>7, <1>8, <1>9 DEF WidgetInv
-----------------------------------------------------------------------------
(* One step for every action.                                              *)
LEMMA ViewStays ==
  ASSUME WidgetInv, UNCHANGED <<files, m_filtered, history>>, Sees(view', m_filtered)
  PROVE  WidgetInv'
  <1>1. HistoryInv'
    BY Facts, HistoryStays
  <1> QED BY <1>1, Facts, FilesStay

LEMMA BrowseKeeps == WidgetInv /\ Browse => WidgetInv'
  <1> SUFFICES ASSUME WidgetInv, Browse PROVE WidgetInv'
    OBVIOUS
  <1> USE Facts
  <1>1. CASE ClickRow
    <2>1. PICK p \in m_filtered : view' = onSelectionChanged(m_requirements, view, p)
      BY <1>1 DEF ClickRow
    <2>2. Sees(view', m_filtered)
      BY <2>1, ChosenSees
    <2> QED BY <1>1, <2>2, ViewStays DEF ClickRow
  <1>2. CASE ClickSection
    <2>1. Sees(view', m_filtered)
      BY <1>2, DeselectedSees DEF ClickSection
    <2> QED BY <1>2, <2>1, ViewStays DEF ClickSection
  <1>3. CASE onViewModeChanged
    <2>1. view' \in Views /\ view'.current = view.current /\ view'.editor = view.editor /\ view'.shown = view.shown
      BY <1>3 DEF onViewModeChanged, Views, Maybe
    <2>2. Sees(view', m_filtered)
      BY <2>1, SetSees
    <2> QED BY <1>3, <2>2, ViewStays DEF onViewModeChanged
  <1>4. CASE onRepoFilterChanged
    <2>1. PICK repo \in {"", "public"} : applyViewFilters(m_requirements, [view EXCEPT !.repo = repo])
      BY <1>4 DEF onRepoFilterChanged
    <2>2. [view EXCEPT !.repo = repo] \in Views
      BY DEF Views
    <2>3. Sees(view', m_filtered') /\ m_filtered' \subseteq In(m_requirements)
      BY <2>1, <2>2, ApplySees
    <2> QED BY <1>4, <2>3, FilesStay, HistoryStays DEF onRepoFilterChanged
  <1>5. CASE onSearchTextChanged
    <2>1. PICK query \in {"", "status:DONE"} : view' = [view EXCEPT !.query = query, !.timer = TRUE]
      BY <1>5 DEF onSearchTextChanged
    <2>2. view' \in Views /\ view'.current = view.current /\ view'.editor = view.editor /\ view'.shown = view.shown
      BY <2>1 DEF Views
    <2>3. Sees(view', m_filtered)
      BY <2>2, SetSees
    <2> QED BY <1>5, <2>3, ViewStays DEF onSearchTextChanged
  <1>6. CASE SearchTimeout
    <2>1. [view EXCEPT !.timer = FALSE] \in Views
      BY DEF Views
    <2>2. Sees(view', m_filtered') /\ m_filtered' \subseteq In(m_requirements)
      BY <1>6, <2>1, ApplySees DEF SearchTimeout
    <2> QED BY <1>6, <2>2, FilesStay, HistoryStays DEF SearchTimeout
  <1>7. CASE FollowLink
    <2>1. PICK id \in 1 .. Limit : navigateToId(m_requirements, m_filtered, view, id, TRUE)
      BY <1>7 DEF FollowLink
    <2>2. Sees(view', m_filtered') /\ m_filtered' \subseteq In(m_requirements)
      BY <2>1, NavigateSees
    <2>3. UNCHANGED history \/ pushNavHistory(id)
      BY <2>1 DEF navigateToId
    <2>4. HistoryInv'
      BY <2>3, HistoryStays, PushKeeps
    <2> QED BY <1>7, <2>2, <2>4, FilesStay DEF FollowLink
  <1>8. ASSUME NEW pos \in 0 .. Len(m_navHistory), NavigateTo(pos) PROVE WidgetInv'
    <2>1. navigateToId(m_requirements, m_filtered, view, m_navHistory[pos], FALSE)
      BY <1>8 DEF NavigateTo
    <2>2. Sees(view', m_filtered') /\ m_filtered' \subseteq In(m_requirements)
      BY <2>1, NavigateSees
    <2>3. HistoryInv'
      BY <1>8 DEF NavigateTo, HistoryInv
    <2> QED BY <1>8, <2>2, <2>3, FilesStay DEF NavigateTo
  <1>9. CASE onNavBack
    <2>1. m_navHistoryPos - 1 \in 0 .. Len(m_navHistory)
      BY <1>9 DEF onNavBack, HistoryInv
    <2> QED BY <1>8, <1>9, <2>1 DEF onNavBack
  <1>10. CASE onNavForward
    <2>1. m_navHistoryPos + 1 \in 0 .. Len(m_navHistory)
      BY <1>10 DEF onNavForward, HistoryInv
    <2> QED BY <1>8, <1>10, <2>1 DEF onNavForward
  <1> QED BY <1>1, <1>2, <1>3, <1>4, <1>5, <1>6, <1>7, <1>9, <1>10 DEF Browse

(* A write is one of those that are left.                                  *)
LEMMA WriteCounted ==
  ASSUME writes \in 0 .. MaxWrites, CanWrite
  PROVE  writes' \in 0 .. MaxWrites
  BY LimitAssumption DEF CanWrite

(* The operations that rewrite a file and move it.                         *)
LEMMA RewriteAndMoveKeeps ==
  ASSUME WidgetInv, current # NoPath, CanWrite, NEW req \in Requirement, RewriteAndMove(req),
         UNCHANGED history
  PROVE  WidgetInv'
  <1> USE Facts
  <1>1. /\ current \in Path /\ m_requirements[current] # NoFile
        /\ writes' \in 0 .. MaxWrites /\ HistoryInv' /\ req.raw \in Content
        /\ disk \in Disks
    BY CurrentOK, WriteCounted, HistoryStays DEF Requirement
  <1>2. ASSUME FilesInv', Listed' = Listed, UNCHANGED <<m_filtered, view>> PROVE WidgetInv'
    BY <1>1, <1>2 DEF WidgetInv, ViewInv
  <1>3. CASE reload(Moved(writeRequirement(current, req), current), view)
    <2>1. PICK c \in Content : c = req.raw
      BY <1>1
    <2>0. PICK d : d = [disk EXCEPT ![current] = c]
      OBVIOUS
    <2>6. Rewrites(d, disk, current, c)
      BY <2>0 DEF Rewrites
    <2>2. d \in Disks
      BY <1>1, <2>6, RewrittenOK
    <2>3. PICK e : e = Moved(d, current)
      OBVIOUS
    <2>4. e \in Disks
      BY <1>1, <2>2, <2>3, MovedOK
    <2>5. reload(e, view)
      BY <1>3, <2>0, <2>1, <2>3 DEF writeRequirement
    <2> QED BY <1>1, <2>4, <2>5, ReloadKeeps DEF WidgetInv
  <1>4. CASE MoveFails(current, req) /\ UNCHANGED <<m_filtered, view>>
    BY <1>1, <1>2, <1>4, RewriteKeeps DEF MoveFails
  <1>5. CASE WriteFails(current, req) /\ UNCHANGED <<m_filtered, view>>
    BY <1>1, <1>2, <1>5, WriteFailsKeeps
  <1> QED BY <1>3, <1>4, <1>5 DEF RewriteAndMove

(* The operations that rewrite a file and parse the tree again.            *)
LEMMA RewriteAndReloadKeeps ==
  ASSUME WidgetInv, current # NoPath, CanWrite, NEW req \in Requirement, NEW v, Sees(v, m_filtered),
         \/ reload(writeRequirement(current, req), v)
         \/ WriteFails(current, req) /\ view' = v /\ UNCHANGED m_filtered,
         UNCHANGED history
  PROVE  WidgetInv'
  <1> USE Facts
  <1>1. /\ current \in Path /\ m_requirements[current] # NoFile
        /\ writes' \in 0 .. MaxWrites /\ HistoryInv' /\ req.raw \in Content
        /\ disk \in Disks
    BY CurrentOK, WriteCounted, HistoryStays DEF Requirement
  <1>2. CASE reload(writeRequirement(current, req), v)
    <2>1. PICK c \in Content : c = req.raw
      BY <1>1
    <2>0. PICK d : d = [disk EXCEPT ![current] = c]
      OBVIOUS
    <2>6. Rewrites(d, disk, current, c)
      BY <2>0 DEF Rewrites
    <2>2. d \in Disks
      BY <1>1, <2>6, RewrittenOK
    <2>3. reload(d, v) /\ v \in Views
      BY <1>2, <2>0, <2>1 DEF Sees, writeRequirement
    <2> QED BY <1>1, <2>2, <2>3, ReloadKeeps DEF WidgetInv
  <1>3. CASE WriteFails(current, req) /\ view' = v /\ UNCHANGED m_filtered
    <2>1. FilesInv' /\ Listed' = Listed
      BY <1>1, <1>3, WriteFailsKeeps
    <2> QED BY <1>1, <1>3, <2>1 DEF WidgetInv, ViewInv
  <1> QED BY <1>2, <1>3

(* The ids of the list fit their digits.                                   *)
LEMMA ListedIds ==
  ASSUME WidgetInv, NEW p \in Listed
  PROVE  IdOf(p) \in 1 .. Limit
  <1>1. m_requirements[p] \in Requirement
    BY DEF Listed, WidgetInv, FilesInv, FilesTypeOK
  <1> QED BY <1>1, LinesOK DEF IdOf

(* What is typed is a text, and no one's but that of the file edited.      *)
LEMMA RewrittenText ==
  ASSUME NEW text \in Content, NEW typed \in Rewritten(text)
  PROVE  typed \in Content
  <1>1. CASE \E id \in Number : typed = [text EXCEPT !.id = id]
    BY <1>1 DEF Content
  <1>2. CASE \E status \in Status : typed = [text EXCEPT !.status = status]
    BY <1>2 DEF Content
  <1>3. CASE \E deps \in {{}, 1 .. Limit} : typed = [text EXCEPT !.deps = deps]
    <2>1. PICK deps \in SUBSET (1 .. Limit) : typed = [text EXCEPT !.deps = deps]
      BY <1>3
    <2> QED BY <2>1 DEF Content
  <1> QED BY <1>1, <1>2, <1>3 DEF Rewritten

LEMMA EditKeeps == WidgetInv /\ Edit => WidgetInv'
  <1> SUFFICES ASSUME WidgetInv, Edit PROVE WidgetInv'
    OBVIOUS
  <1> USE Facts
  <1>0. current = view.current
    BY DEF current
  <1>1. CASE onEditToggled
    <2>1. CASE view.editor.visible
      <3>1. PICK v : v = showPreview(view)
        OBVIOUS
      <3>2. Sees(v, m_filtered)
        BY <3>1, PreviewSees DEF Sees
      <3>3. view' = [v EXCEPT !.save = FALSE]
        BY <1>1, <2>1, <3>1 DEF onEditToggled
      <3>4. view' \in Views /\ view'.current = v.current /\ view'.editor = v.editor /\ view'.shown = v.shown
        BY <3>2, <3>3 DEF Sees, Views
      <3>5. Sees(view', m_filtered)
        BY <3>2, <3>4, SetSees
      <3> QED BY <1>1, <3>5, ViewStays DEF onEditToggled
    <2>2. CASE ~view.editor.visible
      <3>1. current \in Path /\ m_requirements[current].raw \in Content /\ current \in m_filtered
        BY <1>0, <1>1, CurrentOK, LinesOK DEF onEditToggled, HasChosen, Sees
      <3>2. PICK editor :
              editor = [visible |-> TRUE, of |-> current, text |-> m_requirements[current].raw]
        OBVIOUS
      <3> editor \in Editors /\ editor.visible /\ editor.of = current
        BY <3>1, <3>2 DEF Editors, Maybe
      <3>3. view' = [view EXCEPT !.save = TRUE, !.editor = editor]
        BY <1>1, <2>2, <3>2 DEF onEditToggled
      <3>4. view' \in Views /\ view'.current = view.current /\ view'.editor = editor
        BY <3>3 DEF Views
      <3>5. Sees(view', m_filtered)
        BY <1>0, <3>1, <3>2, <3>4 DEF Sees
      <3> QED BY <1>1, <3>5, ViewStays DEF onEditToggled
    <2> QED BY <2>1, <2>2
  <1>2. CASE Type
    <2>1. PICK text \in Rewritten(m_requirements[view.editor.of].raw) :
            view' = [view EXCEPT !.editor.text = text]
      BY <1>2 DEF Type
    <2>2. m_requirements[view.editor.of] \in Requirement
      BY <1>2 DEF Type, In, Lists
    <2>3. text \in Content
      BY <2>2, LinesOK, RewrittenText
    <2>4. PICK editor : editor = [view.editor EXCEPT !.text = text]
      OBVIOUS
    <2> editor \in Editors /\ editor.of = view.editor.of /\ editor.visible = view.editor.visible
      BY <2>3, <2>4 DEF Views, Editors
    <2>5. view' = [view EXCEPT !.editor = editor]
      BY <2>1, <2>4 DEF Views, Editors
    <2>6. view' \in Views /\ view'.current = view.current /\ view'.shown = view.shown /\ view'.editor = editor
      BY <2>4, <2>5 DEF Views
    <2>7. Sees(view', m_filtered)
      BY <2>4, <2>6 DEF Sees
    <2> QED BY <1>2, <2>7, ViewStays DEF Type
  <1>3. CASE onCancel
    <2>1. PICK v : v = showPreview(view)
      OBVIOUS
    <2>2. Sees(v, m_filtered)
      BY <2>1, PreviewSees DEF Sees
    <2>3. view' = [v EXCEPT !.save = FALSE]
      BY <1>3, <2>1 DEF onCancel
    <2>4. view' \in Views /\ view'.current = v.current /\ view'.editor = v.editor /\ view'.shown = v.shown
      BY <2>2, <2>3 DEF Sees, Views
    <2>5. Sees(view', m_filtered)
      BY <2>2, <2>4, SetSees
    <2> QED BY <1>3, <2>5, ViewStays DEF onCancel
  <1>4. CASE onSave
    <2>1. /\ current # NoPath /\ CanWrite /\ view.editor.text \in Content /\ UNCHANGED history
      BY <1>0, <1>4 DEF onSave, HasChosen, Views, Editors
    <2>2. PICK req : req = [m_requirements[current] EXCEPT !.raw = view.editor.text]
      OBVIOUS
    <2>3. req \in Requirement
      BY <2>1, <2>2, CurrentOK, LinesOK
    <2>4. \/ reload(writeRequirement(current, req), [view EXCEPT !.save = FALSE])
          \/ WriteFails(current, req) /\ UNCHANGED <<m_filtered, view>>
      BY <1>4, <2>2 DEF onSave
    <2>5. PICK v : v = [view EXCEPT !.save = FALSE]
      OBVIOUS
    <2>6. v \in Views /\ v.current = view.current /\ v.editor = view.editor /\ v.shown = view.shown
      BY <2>5 DEF Views
    <2>7. Sees(v, m_filtered)
      BY <2>6, SetSees
    <2>8. CASE reload(writeRequirement(current, req), v)
      BY <2>1, <2>3, <2>7, <2>8, RewriteAndReloadKeeps
    <2>9. CASE WriteFails(current, req) /\ UNCHANGED <<m_filtered, view>>
      BY <2>1, <2>3, <2>9, RewriteAndReloadKeeps
    <2> QED BY <2>4, <2>5, <2>8, <2>9
  <1>5. CASE onCriterionToggled
    <2>1. /\ current # NoPath /\ CanWrite /\ UNCHANGED <<m_filtered, view, history>>
      BY <1>5 DEF onCriterionToggled, HasChosen
    <2>2. PICK req : req = setCriterionChecked(m_requirements[current], ~m_requirements[current].fields.done)
      OBVIOUS
    <2>3. /\ current \in Path /\ m_requirements[current] # NoFile /\ m_requirements[current] \in Requirement
          /\ writes' \in 0 .. MaxWrites /\ HistoryInv'
      BY <2>1, CurrentOK, WriteCounted, HistoryStays DEF history
    <2>4. req \in Requirement
      <3>1. m_requirements[current].fields.done \in BOOLEAN
        BY <2>3 DEF Requirement, Content
      <3>2. PICK done \in BOOLEAN : done = ~m_requirements[current].fields.done
        BY <3>1
      <3> QED BY <2>2, <2>3, <3>2, LinesOK
    <2>5. \/ /\ disk' = writeRequirement(current, req)
             /\ m_requirements' = [m_requirements EXCEPT ![current] = req]
             /\ failed' = failed \ {current}
          \/ WriteFails(current, req)
      BY <1>5, <2>2 DEF onCriterionToggled
    <2>6. FilesInv' /\ Listed' = Listed
      BY <2>3, <2>4, <2>5, RewriteKeeps, WriteFailsKeeps
    <2> QED BY <2>1, <2>3, <2>6 DEF WidgetInv, ViewInv
  <1>6. CASE onNewRequirement
    <2> PICK status \in Status, deps \in SUBSET {disk[p].id : p \in Parsed(disk)} :
          LET path == NewPath(disk)
              d    == writeFile(disk, status, deps)
              reqs == parseDirectories(d)
              v    == Deselected(view)
          IN  /\ ParsedAgain(d)
              /\ IF reqs[path] # NoFile
                 THEN navigateToId(reqs, Filtered(reqs, v), v, reqs[path].fields.id, TRUE)
                 ELSE applyViewFilters(reqs, v) /\ UNCHANGED history
      BY <1>6 DEF onNewRequirement
    <2> DEFINE path == NewPath(disk)
    <2>1. PICK d : d = writeFile(disk, status, deps)
      OBVIOUS
    <2>2. PICK reqs : reqs = parseDirectories(d)
      OBVIOUS
    <2>3. PICK v : v = Deselected(view)
      OBVIOUS
    <2>4. /\ ParsedAgain(d)
          /\ IF reqs[path] # NoFile
             THEN navigateToId(reqs, Filtered(reqs, v), v, reqs[path].fields.id, TRUE)
             ELSE applyViewFilters(reqs, v) /\ UNCHANGED history
      BY <2>1, <2>2, <2>3
    <2>5. deps \in SUBSET (1 .. Limit)
      BY NextIdIsNew
    <2>6. d \in Disks /\ path \in Path
      BY <2>1, <2>5, NewOK
    <2>7. FilesInv'
      BY <1>6, <2>4, <2>6, AgainKeeps, WriteCounted DEF onNewRequirement
    <2>8. reqs \in Lists
      BY <2>2, <2>6, ParsedInStep
    <2>9. Listed' = In(reqs)
      BY <2>2, <2>4 DEF ParsedAgain, Listed, In
    <2>10. Sees(v, Filtered(reqs, v)) /\ v \in Views
      BY <2>3, DeselectedSees DEF Sees
    <2> HIDE DEF path
    <2>11. CASE reqs[path] # NoFile
      <3>0. PICK id : id = reqs[path].fields.id
        OBVIOUS
      <3>1. navigateToId(reqs, Filtered(reqs, v), v, id, TRUE)
        BY <2>4, <2>11, <3>0
      <3>2. Sees(view', m_filtered') /\ m_filtered' \subseteq In(reqs)
        BY <2>8, <2>10, <3>1, FilteredIn, NavigateSees
      <3>3. id \in 1 .. Limit
        <4>1. reqs[path] \in Requirement
          BY <2>6, <2>8, <2>11 DEF Lists
        <4> QED BY <3>0, <4>1, LinesOK
      <3>4. UNCHANGED history \/ pushNavHistory(id)
        BY <3>1 DEF navigateToId
      <3>5. HistoryInv'
        BY <3>3, <3>4, HistoryStays, PushKeeps
      <3> QED BY <2>7, <2>9, <3>2, <3>5 DEF WidgetInv, ViewInv
    <2>12. CASE ~(reqs[path] # NoFile)
      <3>1. Sees(view', m_filtered') /\ m_filtered' \subseteq In(reqs)
        BY <2>4, <2>10, <2>12, ApplySees
      <3>2. HistoryInv'
        BY <2>4, <2>12, HistoryStays
      <3> QED BY <2>7, <2>9, <3>1, <3>2 DEF WidgetInv, ViewInv
    <2> QED BY <2>11, <2>12
  <1>7. CASE onMarkDoneAndArchive
    <2>1. setStatusLine(m_requirements[current], "DONE") \in Requirement
      BY <1>7, CurrentOK, LinesOK, StatusAssumption DEF onMarkDoneAndArchive, HasChosen
    <2> QED BY <1>7, <2>1, RewriteAndMoveKeeps DEF onMarkDoneAndArchive, HasChosen
  <1>8. CASE onReopen
    <2>1. setStatusLine(m_requirements[current], "ACTIVE") \in Requirement
      BY <1>8, CurrentOK, LinesOK, StatusAssumption DEF onReopen, HasChosen
    <2> QED BY <1>8, <2>1, RewriteAndMoveKeeps DEF onReopen, HasChosen
  <1>9. ASSUME NEW dialog \in Maybe, view' = [view EXCEPT !.dialog = dialog] PROVE Sees(view', m_filtered)
    <2>1. view' \in Views /\ view'.current = view.current /\ view'.editor = view.editor /\ view'.shown = view.shown
      BY <1>9 DEF Views
    <2> QED BY <2>1, SetSees
  <1>10. CASE OpenDependencies
    <2>1. current \in Maybe
      BY <1>0 DEF Views
    <2>2. Sees(view', m_filtered)
      BY <1>9, <1>10, <2>1 DEF OpenDependencies
    <2> QED BY <1>10, <2>2, ViewStays DEF OpenDependencies
  <1>11. CASE RejectDependencies
    <2>1. Sees(view', m_filtered)
      BY <1>9, <1>11 DEF RejectDependencies, Maybe
    <2> QED BY <1>11, <2>1, ViewStays DEF RejectDependencies
  <1>12. CASE AcceptDependencies
    <2> PICK deps \in SUBSET ({IdOf(p) : p \in Listed} \ {IdOf(view.dialog)}) :
          LET req == setDependenciesLine(m_requirements[current], deps)
              v   == [view EXCEPT !.dialog = NoPath]
          IN  \/ reload(writeRequirement(current, req), v)
              \/ WriteFails(current, req) /\ view' = v /\ UNCHANGED m_filtered
      BY <1>12 DEF AcceptDependencies
    <2>1. PICK req : req = setDependenciesLine(m_requirements[current], deps)
      OBVIOUS
    <2>2. PICK v : v = [view EXCEPT !.dialog = NoPath]
      OBVIOUS
    <2>3. \/ reload(writeRequirement(current, req), v)
          \/ WriteFails(current, req) /\ view' = v /\ UNCHANGED m_filtered
      BY <2>1, <2>2
    <2>4. deps \in SUBSET (1 .. Limit)
      BY ListedIds
    <2>5. current # NoPath /\ CanWrite /\ UNCHANGED history
      BY <1>12 DEF AcceptDependencies
    <2>6. req \in Requirement
      BY <2>1, <2>4, <2>5, CurrentOK, LinesOK
    <2>7. Sees(v, m_filtered)
      <3>1. v \in Views /\ v.current = view.current /\ v.editor = view.editor /\ v.shown = view.shown
        BY <2>2 DEF Views, Maybe
      <3> QED BY <3>1, SetSees
    <2> QED BY <2>3, <2>5, <2>6, <2>7, RewriteAndReloadKeeps
  <1> QED BY <1>1, <1>2, <1>3, <1>4, <1>5, <1>6, <1>7, <1>8, <1>10, <1>11, <1>12 DEF Edit

(* What stutters keeps everything.                                         *)
LEMMA NextWidgetInv == WidgetInv /\ [Next]_vars => WidgetInv'
  <1>1. ASSUME WidgetInv, UNCHANGED vars PROVE WidgetInv'
    <2>1. Sees(view', m_filtered)
      BY <1>1, Facts DEF vars
    <2> QED BY <1>1, <2>1, ViewStays DEF vars, files, history
  <1> QED BY <1>1, BrowseKeeps, EditKeeps DEF Next
-----------------------------------------------------------------------------
(* What a step does to the files: there are as many as before, or a new    *)
(* one, or the current one is rewritten and moved.                         *)
SameFiles == \A q \in Path : disk'[q] = NoFile <=> disk[q] = NoFile

NewFile == \E status \in Status, deps \in SUBSET (1 .. Limit) : disk' = writeFile(disk, status, deps)

MovesCurrent ==
  /\ current \in Path /\ m_requirements[current] \in Requirement /\ disk[current] # NoFile
  /\ \E status \in Status :
       /\ \/ onMarkDoneAndArchive /\ status = "DONE"
          \/ onReopen
       /\ disk' = Moved(writeRequirement(current, setStatusLine(m_requirements[current], status)), current)

LEMMA WrittenIsSame ==
  ASSUME WidgetInv, current # NoPath, NEW req \in Requirement, disk' = writeRequirement(current, req)
  PROVE  SameFiles
  <1>1. /\ current \in Path /\ disk \in Disks /\ disk[current] # NoFile
        /\ req.raw \in Content /\ req.raw # NoFile
    BY CurrentOK, Facts, NoFileAssumption DEF Requirement
  <1>2. \A q \in Path : disk'[q] = IF q = current THEN req.raw ELSE disk[q]
    BY <1>1 DEF writeRequirement, Disks
  <1> QED BY <1>1, <1>2 DEF SameFiles

LEMMA ReloadIsSame ==
  ASSUME WidgetInv, current # NoPath, NEW req \in Requirement, NEW v,
         \/ reload(writeRequirement(current, req), v)
         \/ WriteFails(current, req)
  PROVE  SameFiles
  <1>1. disk' = writeRequirement(current, req) \/ disk' = disk
    BY DEF reload, ParsedAgain, WriteFails
  <1> QED BY <1>1, WrittenIsSame DEF SameFiles

LEMMA MoveIsMove ==
  ASSUME WidgetInv, current # NoPath, NEW status \in Status,
         RewriteAndMove(setStatusLine(m_requirements[current], status)),
         (onMarkDoneAndArchive /\ status = "DONE") \/ onReopen
  PROVE  SameFiles \/ MovesCurrent
  <1>1. PICK req : req = setStatusLine(m_requirements[current], status)
    OBVIOUS
  <1>2. req \in Requirement
    BY <1>1, CurrentOK, LinesOK
  <1>3. CASE reload(Moved(writeRequirement(current, req), current), view)
    BY <1>1, <1>3, CurrentOK DEF reload, ParsedAgain, MovesCurrent
  <1>4. CASE MoveFails(current, req)
    BY <1>2, <1>4, WrittenIsSame DEF MoveFails
  <1>5. CASE WriteFails(current, req)
    BY <1>5 DEF WriteFails, SameFiles
  <1> QED BY <1>1, <1>3, <1>4, <1>5 DEF RewriteAndMove

LEMMA FilesStep ==
  ASSUME WidgetInv, [Next]_vars
  PROVE  SameFiles \/ NewFile \/ MovesCurrent
  <1>1. ASSUME UNCHANGED files PROVE SameFiles
    BY <1>1 DEF files, SameFiles
  <1>2. CASE UNCHANGED vars \/ Browse
    <2>1. UNCHANGED files
      BY <1>2 DEF vars, Browse, ClickRow, ClickSection, onViewModeChanged, onRepoFilterChanged,
                  onSearchTextChanged, SearchTimeout, FollowLink, onNavBack, onNavForward, NavigateTo
    <2> QED BY <1>1, <2>1
  <1>3. CASE onEditToggled \/ Type \/ onCancel \/ OpenDependencies \/ RejectDependencies
    BY <1>1, <1>3 DEF onEditToggled, Type, onCancel, OpenDependencies, RejectDependencies
  <1>4. CASE onSave
    <2>1. current # NoPath /\ view.editor.text \in Content
      BY <1>4, Facts DEF onSave, HasChosen, current, Views, Editors
    <2>2. PICK req : req = [m_requirements[current] EXCEPT !.raw = view.editor.text]
      OBVIOUS
    <2>3. req \in Requirement
      BY <2>1, <2>2, CurrentOK, LinesOK
    <2>4. \/ reload(writeRequirement(current, req), [view EXCEPT !.save = FALSE])
          \/ WriteFails(current, req)
      BY <1>4, <2>2 DEF onSave
    <2> QED BY <2>1, <2>3, <2>4, ReloadIsSame
  <1>5. CASE AcceptDependencies
    <2>1. current # NoPath
      BY <1>5 DEF AcceptDependencies
    <2>2. PICK deps \in SUBSET ({IdOf(p) : p \in Listed} \ {IdOf(view.dialog)}) :
            LET req == setDependenciesLine(m_requirements[current], deps)
            IN  \/ reload(writeRequirement(current, req), [view EXCEPT !.dialog = NoPath])
                \/ WriteFails(current, req)
      BY <1>5 DEF AcceptDependencies
    <2>3. PICK req : req = setDependenciesLine(m_requirements[current], deps)
      OBVIOUS
    <2>4. deps \in SUBSET (1 .. Limit)
      BY ListedIds
    <2>5. req \in Requirement
      BY <2>1, <2>3, <2>4, CurrentOK, LinesOK
    <2>6. \/ reload(writeRequirement(current, req), [view EXCEPT !.dialog = NoPath])
          \/ WriteFails(current, req)
      BY <2>2, <2>3
    <2> QED BY <2>1, <2>5, <2>6, ReloadIsSame
  <1>6. CASE onCriterionToggled
    <2>1. current # NoPath
      BY <1>6 DEF onCriterionToggled, HasChosen
    <2>2. m_requirements[current] \in Requirement
      BY <2>1, CurrentOK
    <2>3. PICK done \in BOOLEAN : done = ~m_requirements[current].fields.done
      <3>1. m_requirements[current].fields.done \in BOOLEAN
        BY <2>2 DEF Requirement, Content
      <3> QED BY <3>1
    <2>4. PICK req : req = setCriterionChecked(m_requirements[current], done)
      OBVIOUS
    <2>5. req \in Requirement
      BY <2>2, <2>4, LinesOK
    <2>6. disk' = writeRequirement(current, req) \/ disk' = disk
      BY <1>6, <2>3, <2>4 DEF onCriterionToggled, WriteFails
    <2> QED BY <2>1, <2>5, <2>6, WrittenIsSame DEF SameFiles
  <1>7. CASE onNewRequirement
    <2>1. PICK status \in Status, deps \in SUBSET {disk[p].id : p \in Parsed(disk)} :
            ParsedAgain(writeFile(disk, status, deps))
      BY <1>7 DEF onNewRequirement
    <2>2. deps \in SUBSET (1 .. Limit)
      BY Facts, NextIdIsNew
    <2> QED BY <2>1, <2>2 DEF ParsedAgain, NewFile
  <1>8. CASE onMarkDoneAndArchive
    BY <1>8, MoveIsMove, StatusAssumption DEF onMarkDoneAndArchive, HasChosen
  <1>9. CASE onReopen
    BY <1>9, MoveIsMove, StatusAssumption DEF onReopen, HasChosen
  <1> QED BY <1>2, <1>3, <1>4, <1>5, <1>6, <1>7, <1>8, <1>9 DEF Next, Edit

(* The file that is moved, and what becomes of the others.                 *)
LEMMA MovesOne ==
  ASSUME WidgetInv, MovesCurrent
  PROVE  \E status \in Status :
           /\ (onMarkDoneAndArchive /\ status = "DONE") \/ onReopen
           /\ current \in Path /\ m_requirements[current] \in Requirement /\ disk[current] # NoFile
           /\ MovedPath(current) \in Path /\ disk'[current] = NoFile
           /\ disk'[MovedPath(current)] = setStatusLine(m_requirements[current], status).raw
           /\ disk'[MovedPath(current)] # NoFile
           /\ \A q \in Path \ {current, MovedPath(current)} : disk'[q] = disk[q]
  <1>1. /\ current \in Path /\ m_requirements[current] \in Requirement /\ disk[current] # NoFile
        /\ disk \in Disks /\ MovedPath(current) \in Path /\ MovedPath(current) # current
    BY Facts, PathFacts DEF MovesCurrent
  <1>2. PICK status \in Status :
          /\ (onMarkDoneAndArchive /\ status = "DONE") \/ onReopen
          /\ disk' = Moved(writeRequirement(current, setStatusLine(m_requirements[current], status)), current)
    BY DEF MovesCurrent
  <1>3. PICK req : req = setStatusLine(m_requirements[current], status)
    OBVIOUS
  <1>4. req \in Requirement /\ req.raw \in Content
    BY <1>1, <1>3, LinesOK
  <1>5. PICK d : d = [disk EXCEPT ![current] = req.raw]
    OBVIOUS
  <1>6. /\ d \in Disks /\ d[current] = req.raw /\ req.raw # NoFile
        /\ \A q \in Path \ {current} : d[q] = disk[q]
    <2>1. PICK c \in Content : c = req.raw
      BY <1>4
    <2>2. Rewrites(d, disk, current, c)
      BY <1>5, <2>1 DEF Rewrites
    <2> QED BY <1>1, <2>1, <2>2, RewrittenOK
  <1>7. PICK e : e = Moved(d, current)
    OBVIOUS
  <1>8. disk' = e
    BY <1>2, <1>3, <1>5, <1>7 DEF writeRequirement
  <1>9. /\ e[current] = NoFile /\ e[MovedPath(current)] = d[current]
        /\ \A q \in Path \ {current, MovedPath(current)} : e[q] = d[q]
    BY <1>1, <1>6, <1>7, MovedOK
  <1> QED BY <1>1, <1>2, <1>3, <1>6, <1>8, <1>9

(* Of the active files, a step takes away the one that is archived.        *)
LEMMA ActiveStay ==
  ASSUME WidgetInv, [Next]_vars, NEW q \in Path, SectionOf(q) = "active",
         disk[q] # NoFile, disk'[q] = NoFile
  PROVE  /\ onMarkDoneAndArchive /\ q = current
         /\ disk'[MovedPath(q)] = setStatusLine(m_requirements[q], "DONE").raw
  <1>1. ~SameFiles
    BY DEF SameFiles
  <1>2. ~NewFile
    <2> SUFFICES ASSUME NewFile PROVE FALSE
      OBVIOUS
    <2>1. PICK status \in Status, deps \in SUBSET (1 .. Limit) : disk' = writeFile(disk, status, deps)
      BY DEF NewFile
    <2>2. PICK e : e = writeFile(disk, status, deps)
      OBVIOUS
    <2>3. /\ e[NewPath(disk)] # NoFile
          /\ \A r \in Path \ {NewPath(disk)} : e[r] = disk[r]
      BY <2>2, NewOK, Facts
    <2> QED BY <2>1, <2>2, <2>3
  <1>3. MovesCurrent
    BY <1>1, <1>2, FilesStep
  <1>4. PICK status \in Status :
          /\ (onMarkDoneAndArchive /\ status = "DONE") \/ onReopen
          /\ disk'[MovedPath(current)] = setStatusLine(m_requirements[current], status).raw
          /\ disk'[MovedPath(current)] # NoFile
          /\ \A r \in Path \ {current, MovedPath(current)} : disk'[r] = disk[r]
    BY <1>3, MovesOne
  <1>5. q = current
    BY <1>4
  <1>6. ~onReopen
    BY <1>5 DEF onReopen
  <1> QED BY <1>4, <1>5, <1>6

(* What was checked is what the file says, whoever was written and parsed. *)
LEMMA ArchivedIsFinished ==
  ASSUME WidgetInv, [Next]_vars, NEW p \in Path \ Edited, SectionOf(p) = "active",
         disk[p] # NoFile, disk'[p] = NoFile, NEW dep \in disk'[MovedPath(p)].deps
  PROVE  \E q \in Listed :
           /\ IdOf(q) = dep
           /\ q \in failed \cup Edited \/ (disk[q].id = dep /\ disk[q].status = "DONE")
  <1>1. /\ onMarkDoneAndArchive /\ p = current
        /\ disk'[MovedPath(p)] = setStatusLine(m_requirements[p], "DONE").raw
    BY ActiveStay
  <1>2. current # NoPath /\ Finished(current)
    BY <1>1 DEF onMarkDoneAndArchive, HasChosen
  <1>3. p \in Listed /\ m_requirements[p] \in Requirement
    BY <1>1, <1>2, CurrentOK DEF Listed
  <1>4. m_requirements[p].raw = m_requirements[p].fields
    BY <1>3 DEF Edited
  <1>5. setStatusLine(m_requirements[p], "DONE").raw.deps = m_requirements[p].raw.deps
    BY <1>3, LinesOK, StatusAssumption
  <1>6. dep \in m_requirements[p].fields.deps
    BY <1>1, <1>4, <1>5
  <1>7. PICK q \in Listed : IdOf(q) = dep /\ m_requirements[q].fields.status = "DONE"
    BY <1>1, <1>2, <1>6 DEF Finished
  <1>8. q \notin failed => m_requirements[q].raw = disk[q]
    BY <1>7 DEF Listed, WidgetInv, FilesInv, InStep
  <1>9. q \notin Edited => m_requirements[q].raw = m_requirements[q].fields
    BY <1>7 DEF Edited
  <1>10. q \notin failed \cup Edited => disk[q].status = "DONE" /\ disk[q].id = dep
    BY <1>7, <1>8, <1>9 DEF IdOf
  <1> QED BY <1>7, <1>10

(* Files that keep their ids keep them apart, and a new one is apart.      *)
LEMMA StaysDistinct ==
  ASSUME WidgetInv, [Next]_vars, Distinct(disk), KeepsIds
  PROVE  Distinct(disk')
  <1>1. CASE SameFiles
    <2>1. ASSUME NEW q \in Parsed(disk') PROVE q \in Parsed(disk) /\ disk'[q].id = disk[q].id
      <3>1. q \in Path /\ disk'[q] # NoFile /\ disk[q] # NoFile
        BY <1>1, <2>1 DEF SameFiles, Parsed, Parses
      <3>2. disk'[q].id = disk[q].id
        BY <3>1 DEF KeepsIds
      <3> QED BY <2>1, <3>1, <3>2 DEF Parsed, Parses, Titled
    <2> QED BY <2>1 DEF Distinct
  <1>2. CASE NewFile
    <2>1. PICK status \in Status, deps \in SUBSET (1 .. Limit) : disk' = writeFile(disk, status, deps)
      BY <1>2 DEF NewFile
    <2>2. PICK e : e = writeFile(disk, status, deps)
      OBVIOUS
    <2>3. /\ e[NewPath(disk)].id = generateNextId(disk)
          /\ \A q \in Path \ {NewPath(disk)} : e[q] = disk[q]
      BY <2>2, NewOK, Facts
    <2>4. PICK new : new = generateNextId(disk)
      OBVIOUS
    <2>5. new \in Number /\ \A q \in Parsed(disk) : disk[q].id \in 1 .. Limit /\ disk[q].id < new
      BY <2>4, NextIdIsNew, Facts
    <2>6. \A q \in Parsed(disk) : disk[q].id # new
      BY <2>5, LimitAssumption DEF Number
    <2>7. \A q \in Parsed(e) : q # NewPath(disk) => q \in Parsed(disk) /\ e[q].id = disk[q].id
      BY <2>3 DEF Parsed, Parses
    <2>8. Distinct(e)
      <3> SUFFICES ASSUME NEW q \in Parsed(e), NEW r \in Parsed(e), e[q].id = e[r].id
                   PROVE  q = r
        BY DEF Distinct
      <3> QED BY <2>3, <2>4, <2>6, <2>7 DEF Distinct
    <2> QED BY <2>1, <2>2, <2>8
  <1>3. CASE MovesCurrent
    <2>1. /\ current \in Path /\ disk[current] # NoFile
          /\ MovedPath(current) \in Path /\ disk'[current] = NoFile
          /\ disk'[MovedPath(current)] # NoFile
          /\ \A q \in Path \ {current, MovedPath(current)} : disk'[q] = disk[q]
      BY <1>3, MovesOne
    <2>2. disk'[MovedPath(current)].id = disk[current].id
      BY <2>1 DEF KeepsIds
    <2> DEFINE Was(q) == IF q = MovedPath(current) THEN current ELSE q
    <2>3. ASSUME NEW q \in Parsed(disk')
          PROVE  /\ Was(q) \in Parsed(disk) /\ disk'[q].id = disk[Was(q)].id
                 /\ q # current
      BY <2>1, <2>2, <2>3 DEF Parsed, Parses, Titled
    <2> QED BY <2>3 DEF Distinct
  <1> QED BY <1>1, <1>2, <1>3, FilesStep
-----------------------------------------------------------------------------
(* The list and the files, the view and the history fit together whatever  *)
(* the user does: RequirementsWidget.                                      *)
THEOREM WidgetInvariant == Spec => []WidgetInv
  BY InitWidgetInv, NextWidgetInv, PTL DEF Spec

(* Every variable keeps its type, the text of the editor included.         *)
THEOREM WidgetTypes == Spec => []TypeOK
  <1>1. WidgetInv => TypeOK
    BY DEF WidgetInv, FilesInv, ViewInv, Sees, Views, Editors, HistoryInv, TypeOK, Listed
  <1> QED BY <1>1, WidgetInvariant, PTL

(* m_requirements holds the text of the files, but for those that could    *)
(* not be written: writeRequirement, reload.                               *)
THEOREM ListStaysDisk == Spec => []ListIsDisk
  <1>1. WidgetInv => ListIsDisk
    BY DEF WidgetInv, FilesInv, InStep, ListIsDisk, Listed, Parses
  <1> QED BY <1>1, WidgetInvariant, PTL

(* What an operation acts on, m_currentIndex, is what the preview or the   *)
(* editor shows, and a row of the tree.                                    *)
THEOREM ActsOnShown == Spec => []ActsOnWhatIsShown
  <1>1. WidgetInv => ActsOnWhatIsShown
    BY DEF WidgetInv, ViewInv, Sees, ActsOnWhatIsShown, current
  <1> QED BY <1>1, WidgetInvariant, PTL

(* generateNextId never gives an id that a parsed file has, and a move     *)
(* keeps the id: so a step after which two requirements share one is a     *)
(* text with another title that was saved.                                 *)
THEOREM IdsStayUnique == Spec => IdsAreUnique
  <1>1. WidgetInv /\ [Next]_vars => [Distinct(disk) /\ KeepsIds => Distinct(disk')]_vars
    BY StaysDistinct
  <1> QED BY <1>1, WidgetInvariant, PTL DEF Spec, IdsAreUnique

(* onMarkDoneAndArchive archives a requirement only when what it depends   *)
(* on is DONE in its file, and no other operation takes an active one.    *)
THEOREM ArchivesFinished == Spec => FinishedFirst
  <1>1. WidgetInv /\ [Next]_vars =>
          [\A p \in Path \ Edited :
             (/\ SectionOf(p) = "active" /\ disk[p] # NoFile /\ disk'[p] = NoFile)
             => \A dep \in disk'[MovedPath(p)].deps :
                  \E q \in Listed :
                    /\ IdOf(q) = dep
                    /\ q \in failed \cup Edited \/ (disk[q].id = dep /\ disk[q].status = "DONE")]_vars
    BY ArchivedIsFinished
  <1> QED BY <1>1, WidgetInvariant, PTL DEF Spec, FinishedFirst
=============================================================================
