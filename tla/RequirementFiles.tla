--------------------------- MODULE RequirementFiles ---------------------------
(***************************************************************************)
(* The requirements on disk and what RequirementsParser does with them: it *)
(* reads a tree of Markdown files, rewrites single lines of a file, moves  *)
(* files between active/ and archive/ and numbers new ones.  The text of a *)
(* file is the id in its title, its status, its dependencies and whether   *)
(* its one criterion is checked.  One root and one family of ids are       *)
(* modelled.  A file is named after the id it is created with, and all are *)
(* given the same title, so that a path is a section and a number; the id  *)
(* in the title may become another when the text is edited.                *)
(***************************************************************************)
EXTENDS Integers, FiniteSets, FiniteSetsExt

CONSTANTS
  Limit,                \* the largest number that fits the digits of an id
  Status,               \* the statuses the dialog for a new requirement has
  MaxWrites,            \* bound: the files written
  NoFile

ASSUME LimitAssumption == Limit \in Nat \ {0} /\ MaxWrites \in Nat
ASSUME StatusAssumption == {"ACTIVE", "DONE"} \subseteq Status

Number  == 1 .. Limit + 1
Section == {"active", "archive"}
Path    == Section \X Number
Content == [id : Number, status : Status, deps : SUBSET (1 .. Limit), done : BOOLEAN]

(* The title wants an id of exactly so many digits: Limit + 1 stands for   *)
(* every title without one, the empty text's among them.                   *)
Titled(text) == text.id <= Limit

Empty == [id |-> Limit + 1, status |-> "ACTIVE", deps |-> {}, done |-> FALSE]

(* A parsed requirement: the text it came from, and its fields.            *)
Requirement == [raw : Content, fields : {text \in Content : Titled(text)}]

ASSUME NoFileAssumption == NoFile \notin Content \cup Requirement

VARIABLES
  disk,                 \* the files
  m_requirements,       \* the parsed set, by filePath
  failed,               \* history: files whose last write failed
  writes

files == <<disk, m_requirements, failed, writes>>

FilesTypeOK ==
  /\ disk \in [Path -> Content \cup {NoFile}]
  /\ m_requirements \in [Path -> Requirement \cup {NoFile}]
  /\ failed \subseteq Path
  /\ writes \in 0 .. MaxWrites

SectionOf(p) == p[1]
NameOf(p)    == p[2]

(* parseFile.                                                              *)
Parses(d, p) == d[p] # NoFile /\ Titled(d[p])

Parsed(d) == {p \in Path : Parses(d, p)}

parseDirectories(d) ==
  [p \in Path |-> IF Parses(d, p) THEN [raw |-> d[p], fields |-> d[p]] ELSE NoFile]

Listed == {p \in Path : m_requirements[p] # NoFile}

(* Requirement::id.                                                        *)
IdOf(p) == m_requirements[p].fields.id

(* Counts the files of active/ only.                                       *)
generateNextIdMut(d) ==
  1 + Max({0} \cup {d[p].id : p \in {q \in Parsed(d) : SectionOf(q) = "active"}})

generateNextId(d) == 1 + Max({0} \cup {d[p].id : p \in Parsed(d)})

(* What the dialog for a new requirement writes, and where.                *)
NewPath(d) == <<"active", generateNextId(d)>>

writeFile(d, status, deps) ==
  [d EXCEPT ![NewPath(d)] = [id |-> generateNextId(d), status |-> status, deps |-> deps, done |-> FALSE]]
-----------------------------------------------------------------------------
(* The line of a requirement that an action rewrites, in text and fields.  *)
setStatusLine(req, status) ==
  [req EXCEPT !.raw.status = status, !.fields.status = status]

setDependenciesLine(req, deps) ==
  [req EXCEPT !.raw.deps = deps, !.fields.deps = deps]

setCriterionChecked(req, done) ==
  [req EXCEPT !.raw.done = done, !.fields.done = done]

CanWrite == writes < MaxWrites /\ writes' = writes + 1

(* writeRequirement: the file holds the text, or could not be opened.      *)
writeRequirement(p, req) == [disk EXCEPT ![p] = req.raw]

WriteFails(p, req) ==
  /\ m_requirements' = [m_requirements EXCEPT ![p] = req]
  /\ failed' = failed \cup {p}
  /\ UNCHANGED disk

MovedPath(p) == <<IF SectionOf(p) = "active" THEN "archive" ELSE "active", NameOf(p)>>

(* moveToArchive, moveToActive: a file in the way is removed first.  That  *)
(* the move fails after that is left out.                                  *)
Moved(d, p) == [d EXCEPT ![MovedPath(p)] = d[p], ![p] = NoFile]

(* Rewritten, but not moved: the list is not parsed again.                 *)
MoveFails(p, req) ==
  /\ disk' = writeRequirement(p, req)
  /\ m_requirements' = [m_requirements EXCEPT ![p] = req]
  /\ failed' = failed \ {p}

(* reload: what the next list holds follows from the files it is read from.*)
ParsedAgain(d) ==
  /\ disk' = d
  /\ m_requirements' = parseDirectories(d)
  /\ failed' = {}

(* It is enough that the dependencies exist.                               *)
FinishedMut(p) ==
  \A dep \in m_requirements[p].fields.deps : \E q \in Listed : IdOf(q) = dep

(* onMarkDoneAndArchive lets a requirement go whose dependencies are DONE. *)
(* Of two with the same id it asks the first: it may be either.            *)
Finished(p) ==
  \A dep \in m_requirements[p].fields.deps :
    \E q \in Listed : IdOf(q) = dep /\ m_requirements[q].fields.status = "DONE"
=============================================================================
