-------------------------- MODULE RequirementsWidget --------------------------
(***************************************************************************)
(* The viewer and editor of requirements: the selection in the tree, the   *)
(* preview and the editor that share its details, the filters above the    *)
(* tree, the history of links followed, and the operations on the selected *)
(* requirement.  The tree shows the filtered set; every operation goes by  *)
(* m_currentIndex, which is kept apart from the selection.                 *)
(***************************************************************************)
EXTENDS RequirementFiles, Sequences

CONSTANTS
  Public,               \* the ids of the repository "public"
  Careful,              \* the user only saves what he sees, and opens no
                        \* dialog within 150 ms of a change of the search
  MaxHistory,           \* bound: the links followed
  NoPath

ASSUME NoPathAssumption == NoPath \notin Path

VARIABLES
  m_filtered,           \* the paths that the tree shows
  view,
  m_navHistory, m_navHistoryPos

vars == <<files, m_filtered, view, m_navHistory, m_navHistoryPos>>
history == <<m_navHistory, m_navHistoryPos>>

(* current: m_currentIndex, as a path; selected: the current index of the  *)
(* tree; shown: whom the preview shows; editor: is it visible, and whose   *)
(* text it holds; save: is the Save button enabled; query, timer: search;  *)
(* dialog: for whom the dialog of dependencies is open.                    *)
Maybe == Path \cup {NoPath}

TypeOK ==
  /\ FilesTypeOK
  /\ m_filtered \subseteq Path
  /\ view \in [current : Maybe, selected : Maybe, shown : Maybe, dialog : Maybe,
               editor : [visible : BOOLEAN, of : Maybe, text : Content],
               save : BOOLEAN, repo : {"", "public"}, query : {"", "status:DONE"},
               timer : BOOLEAN]
  /\ m_navHistory \in Seq(1 .. Limit) /\ m_navHistoryPos \in 0 .. Len(m_navHistory)

filterRequirementsByRepo(reqs, repo) ==
  {p \in Path : reqs[p] # NoFile /\ (repo = "public" => reqs[p].fields.id \in Public)}

(* Every term of the query must match; one of the form key:value, its key. *)
search(reqs, paths, query) ==
  {p \in paths : query = "status:DONE" => reqs[p].fields.status = "DONE"}

Filtered(reqs, v) == search(reqs, filterRequirementsByRepo(reqs, v.repo), v.query)

(* The selection goes, m_currentIndex stays.                               *)
DeselectedMut(v) ==
  [v EXCEPT !.selected = NoPath, !.shown = NoPath, !.editor.of = NoPath, !.editor.text = Empty]

Deselected(v) ==
  [v EXCEPT !.current = NoPath, !.selected = NoPath, !.shown = NoPath,
            !.editor.of = NoPath, !.editor.text = Empty]

(* The trees to start with: all active, or one requirement, archived.      *)
Init ==
  /\ \E status \in {"ACTIVE", "DONE"} :
       LET present == IF status = "DONE" THEN {<<"archive", 1>>} ELSE {"active"} \X (1 .. Limit)
       IN  disk = [p \in Path |-> IF p \in present
                                  THEN [id |-> NameOf(p), status |-> status, deps |-> {}, done |-> FALSE]
                                  ELSE NoFile]
  /\ m_requirements = parseDirectories(disk)
  /\ failed = {} /\ writes = 0
  /\ view = [current |-> NoPath, selected |-> NoPath, shown |-> NoPath, dialog |-> NoPath,
             editor |-> [visible |-> FALSE, of |-> NoPath, text |-> Empty],
             save |-> FALSE, repo |-> "", query |-> "", timer |-> FALSE]
  /\ m_filtered = Filtered(m_requirements, view)
  /\ m_navHistory = <<>> /\ m_navHistoryPos = 0
-----------------------------------------------------------------------------
NoDialog  == view.dialog = NoPath
current   == view.current
HasChosen == NoDialog /\ current # NoPath

(* The tree is filled again from reqs under the filters of v, with nothing *)
(* selected; the editor is emptied, but stays visible if it was.           *)
applyViewFilters(reqs, v) ==
  /\ m_filtered' = Filtered(reqs, v)
  /\ view' = Deselected(v)

showPreview(v) == [v EXCEPT !.editor.visible = FALSE, !.shown = v.current]

(* An editor that is visible gets the text before the preview replaces it. *)
onSelectionChanged(reqs, v, p) ==
  LET chosen == [v EXCEPT !.current = p, !.selected = p]
  IN  showPreview(IF v.editor.visible
                  THEN [chosen EXCEPT !.editor.of = p, !.editor.text = reqs[p].raw]
                  ELSE chosen)

(* setCurrentIndex signals a change only.                                  *)
Select(reqs, v, p) == IF v.selected = p THEN v ELSE onSelectionChanged(reqs, v, p)

ClickRow ==
  /\ NoDialog
  /\ \E p \in m_filtered \ {view.selected} : view' = onSelectionChanged(m_requirements, view, p)
  /\ UNCHANGED <<files, m_filtered, history>>

(* The sections of the tree are rows too.                                  *)
ClickSection ==
  /\ NoDialog /\ view.selected # NoPath
  /\ view' = Deselected(view)
  /\ UNCHANGED <<files, m_filtered, history>>

(* Resets the model, and with it the tree's selection, without a signal.   *)
onViewModeChanged ==
  /\ NoDialog
  /\ view' = [view EXCEPT !.selected = NoPath]
  /\ UNCHANGED <<files, m_filtered, history>>

onRepoFilterChanged ==
  /\ NoDialog
  /\ \E repo \in {"", "public"} \ {view.repo} :
       applyViewFilters(m_requirements, [view EXCEPT !.repo = repo])
  /\ UNCHANGED <<files, history>>

onSearchTextChanged ==
  /\ NoDialog
  /\ \E query \in {"", "status:DONE"} \ {view.query} :
       view' = [view EXCEPT !.query = query, !.timer = TRUE]
  /\ UNCHANGED <<files, m_filtered, history>>

SearchTimeout ==
  /\ view.timer
  /\ applyViewFilters(m_requirements, [view EXCEPT !.timer = FALSE])
  /\ UNCHANGED <<files, history>>
-----------------------------------------------------------------------------
pushNavHistory(id) ==
  LET kept == SubSeq(m_navHistory, 1, m_navHistoryPos)
  IN  IF m_navHistoryPos > 0 /\ kept[m_navHistoryPos] = id
      THEN m_navHistory' = kept /\ UNCHANGED m_navHistoryPos
      ELSE m_navHistory' = Append(kept, id) /\ m_navHistoryPos' = m_navHistoryPos + 1

(* Goes to a requirement of the tree, dropping the search if that hides it;*)
(* to clear its text starts the timer of the search.                       *)
navigateToId(reqs, tree, v, id, addToHistory) ==
  LET hidden  == v.query # "" /\ \A p \in tree : reqs[p].fields.id # id
      cleared == IF hidden THEN [v EXCEPT !.query = "", !.timer = TRUE] ELSE v
      rows    == IF hidden THEN Filtered(reqs, cleared) ELSE tree
      from    == IF hidden THEN Deselected(cleared) ELSE v
      found   == {p \in rows : reqs[p].fields.id = id}
  IN  /\ m_filtered' = rows
      /\ view' \in IF found = {} THEN {from} ELSE {Select(reqs, from, p) : p \in found}
      /\ addToHistory => IF found = {} THEN UNCHANGED history ELSE pushNavHistory(id)

(* A link of the preview, a node of the graph, a line of the report.       *)
FollowLink ==
  /\ NoDialog /\ m_navHistoryPos < MaxHistory
  /\ \E id \in 1 .. Limit : navigateToId(m_requirements, m_filtered, view, id, TRUE)
  /\ UNCHANGED files

NavigateTo(pos) ==
  /\ NoDialog
  /\ m_navHistoryPos' = pos
  /\ navigateToId(m_requirements, m_filtered, view, m_navHistory[pos], FALSE)
  /\ UNCHANGED <<files, m_navHistory>>

onNavBack    == m_navHistoryPos > 1 /\ NavigateTo(m_navHistoryPos - 1)
onNavForward == m_navHistoryPos < Len(m_navHistory) /\ NavigateTo(m_navHistoryPos + 1)
-----------------------------------------------------------------------------
onEditToggled ==
  /\ HasChosen
  /\ view' = IF view.editor.visible
             THEN [showPreview(view) EXCEPT !.save = FALSE]
             ELSE [view EXCEPT !.save = TRUE,
                               !.editor = [visible |-> TRUE, of |-> current,
                                           text |-> m_requirements[current].raw]]
  /\ UNCHANGED <<files, m_filtered, history>>

(* The lines of a text that an operation reads: its title, its status and  *)
(* its dependencies, of which none or all stand for the others.            *)
Rewritten(text) ==
  {[text EXCEPT !.id = id] : id \in Number} \cup {[text EXCEPT !.status = status] : status \in Status}
    \cup {[text EXCEPT !.deps = deps] : deps \in {{}, 1 .. Limit}}

(* The text becomes that of the file with one of its lines another.        *)
Type ==
  /\ NoDialog /\ view.editor.visible /\ view.editor.of # NoPath
  /\ \E text \in Rewritten(m_requirements[view.editor.of].raw) : view' = [view EXCEPT !.editor.text = text]
  /\ UNCHANGED <<files, m_filtered, history>>

onCancel ==
  /\ HasChosen /\ view.save
  /\ view' = [showPreview(view) EXCEPT !.save = FALSE]
  /\ UNCHANGED <<files, m_filtered, history>>

reload(d, v) == ParsedAgain(d) /\ applyViewFilters(parseDirectories(d), v)

onSave ==
  /\ HasChosen /\ view.save
  /\ Careful => view.editor.visible
  /\ CanWrite
  /\ LET req == [m_requirements[current] EXCEPT !.raw = view.editor.text]
     IN  \/ reload(writeRequirement(current, req), [view EXCEPT !.save = FALSE])
         \/ WriteFails(current, req) /\ UNCHANGED <<m_filtered, view>>
  /\ UNCHANGED history

(* The criterion is checked in the list, but not written.                  *)
onCriterionToggledMut ==
  /\ HasChosen /\ view.shown = current /\ ~view.editor.visible
  /\ CanWrite
  /\ m_requirements' = [m_requirements EXCEPT ![current] =
                          setCriterionChecked(@, ~m_requirements[current].fields.done)]
  /\ UNCHANGED <<disk, failed, m_filtered, view, history>>

(* The result of the write is not looked at.                               *)
onCriterionToggled ==
  /\ HasChosen /\ view.shown = current /\ ~view.editor.visible
  /\ CanWrite
  /\ LET req == setCriterionChecked(m_requirements[current], ~m_requirements[current].fields.done)
     IN  \/ /\ disk' = writeRequirement(current, req)
            /\ m_requirements' = [m_requirements EXCEPT ![current] = req]
            /\ failed' = failed \ {current}
         \/ WriteFails(current, req)
  /\ UNCHANGED <<m_filtered, view, history>>

onNewRequirement ==
  /\ NoDialog /\ CanWrite
  /\ \E status \in Status, deps \in SUBSET {disk[p].id : p \in Parsed(disk)} :
       LET path == NewPath(disk)
           d    == writeFile(disk, status, deps)
           reqs == parseDirectories(d)
           v    == Deselected(view)
       IN  /\ ParsedAgain(d)
           /\ IF reqs[path] # NoFile
              THEN navigateToId(reqs, Filtered(reqs, v), v, reqs[path].fields.id, TRUE)
              ELSE applyViewFilters(reqs, v) /\ UNCHANGED history

(* Rewritten and moved; any of the two steps may fail.                     *)
RewriteAndMove(req) ==
  \/ reload(Moved(writeRequirement(current, req), current), view)
  \/ MoveFails(current, req) /\ UNCHANGED <<m_filtered, view>>
  \/ WriteFails(current, req) /\ UNCHANGED <<m_filtered, view>>

onMarkDoneAndArchive ==
  /\ HasChosen /\ SectionOf(current) = "active" /\ Finished(current)
  /\ CanWrite
  /\ RewriteAndMove(setStatusLine(m_requirements[current], "DONE"))
  /\ UNCHANGED history

onReopen ==
  /\ HasChosen /\ SectionOf(current) = "archive"
  /\ CanWrite
  /\ RewriteAndMove(setStatusLine(m_requirements[current], "ACTIVE"))
  /\ UNCHANGED history

(* onEditDependencies runs an event loop of its own, in which the search   *)
(* timer can fire; what it chose is then written to the current one.       *)
OpenDependencies ==
  /\ HasChosen /\ (Careful => ~view.timer)
  /\ view' = [view EXCEPT !.dialog = current]
  /\ UNCHANGED <<files, m_filtered, history>>

RejectDependencies ==
  /\ ~NoDialog
  /\ view' = [view EXCEPT !.dialog = NoPath]
  /\ UNCHANGED <<files, m_filtered, history>>

(* With no current requirement the code reads m_requirements[-1]; the      *)
(* behaviour ends there.                                                   *)
AcceptDependencies ==
  /\ ~NoDialog /\ current # NoPath
  /\ CanWrite
  /\ \E deps \in SUBSET ({IdOf(p) : p \in Listed} \ {IdOf(view.dialog)}) :
       LET req == setDependenciesLine(m_requirements[current], deps)
           v   == [view EXCEPT !.dialog = NoPath]
       IN  \/ reload(writeRequirement(current, req), v)
           \/ WriteFails(current, req) /\ view' = v /\ UNCHANGED m_filtered
  /\ UNCHANGED history

Browse ==
  \/ ClickRow \/ ClickSection \/ onViewModeChanged \/ onRepoFilterChanged
  \/ onSearchTextChanged \/ SearchTimeout \/ FollowLink \/ onNavBack \/ onNavForward

Edit ==
  \/ onEditToggled \/ Type \/ onCancel \/ onSave \/ onCriterionToggled
  \/ onNewRequirement \/ onMarkDoneAndArchive \/ onReopen
  \/ OpenDependencies \/ RejectDependencies \/ AcceptDependencies

Next == Browse \/ Edit
Spec == Init /\ [][Next]_vars
-----------------------------------------------------------------------------
(* The list holds the text of the files, but for files that could not be   *)
(* written ("bidirectional sync"), and misses none that can be parsed.     *)
ListIsDisk ==
  \A p \in Path \ failed :
    /\ Parses(disk, p) => p \in Listed
    /\ p \in Listed => m_requirements[p].raw = disk[p]

(* An operation acts on m_currentIndex, and that is the requirement the    *)
(* user looks at, in the preview or in the editor, and one of the tree.    *)
ActsOnWhatIsShown ==
  current # NoPath =>
    /\ current \in m_filtered
    /\ IF view.editor.visible THEN view.editor.of = current ELSE view.shown = current

(* A file keeps its id where it is and when it moves.                      *)
KeepsIds ==
  \A p \in Path : disk[p] # NoFile =>
    disk[p].id = IF disk'[p] # NoFile THEN disk'[p].id ELSE disk'[MovedPath(p)].id

(* No two requirements come to have the same id, so that a link and a      *)
(* dependency are those of one, by anything but another title typed into   *)
(* the text of a file: not by creating one while others are archived, and  *)
(* not by moving one over another.                                         *)
Distinct(d) == \A p, q \in Parsed(d) : d[p].id = d[q].id => p = q

IdsAreUnique == [][Distinct(disk) /\ KeepsIds => Distinct(disk')]_vars

(* The requirements whose text is not the one their fields were parsed     *)
(* from: Save keeps in the list what it could not write.                   *)
Edited == {p \in Listed : m_requirements[p].raw # m_requirements[p].fields}

(* A requirement goes to the archive when those it depends on are DONE in  *)
(* their files, as far as the files could be written and a text that could *)
(* not be saved was parsed again.                                          *)
FinishedFirst ==
  [][\A p \in Path \ Edited :
       (/\ SectionOf(p) = "active" /\ disk[p] # NoFile /\ disk'[p] = NoFile)
       => \A dep \in disk'[MovedPath(p)].deps :
            \E q \in Listed :
              /\ IdOf(q) = dep
              /\ q \in failed \cup Edited \/ (disk[q].id = dep /\ disk[q].status = "DONE")]_vars

(* Save writes the text of a requirement to the file of that requirement.  *)
SavesToItsOwnFile ==
  [][view.save /\ ~view'.save /\ disk' # disk => view.editor.of = current]_vars
=============================================================================
