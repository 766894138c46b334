--------------------------- MODULE RequirementTree ---------------------------
(***************************************************************************)
(* RequirementsModel, the tree that the list of requirements is shown as:  *)
(* an item is a section or a requirement at a row below its parent.  Rows  *)
(* and requirements are numbered from 1.                                   *)
(***************************************************************************)
EXTENDS RequirementGraph

(* A requirement hangs under its parent of the same section and            *)
(* repository ...                                                          *)
immediateParentIndex(reqs, i) ==
  LET p == indexOfId(reqs, reqs[i].parent)
  IN  IF \/ p = 0 \/ reqs[i].parent = reqs[i].id
         \/ reqs[i].section # reqs[p].section \/ reqs[i].repo # reqs[p].repo
      THEN 0 ELSE p

RECURSIVE ChainReturns(_, _, _)
ChainReturns(reqs, seen, cursor) ==
  LET parent == immediateParentIndex(reqs, cursor)
  IN  parent # 0 /\ (parent \in seen \/ ChainReturns(reqs, seen \cup {parent}, parent))

(* The parent, unless the chain of parents comes back.                     *)
resolveHierarchyParent(reqs, i) ==
  IF ChainReturns(reqs, {i}, i) THEN 0 ELSE immediateParentIndex(reqs, i)
-----------------------------------------------------------------------------
Item(row, id) == [row |-> row, id |-> id]

(* The invalid index, and the internal id of a section.                    *)
Root           == Item(0, -1)
SectionItem(row) == Item(row, 0)

Sections(reqs) == Ascending({reqs[i].section : i \in DOMAIN reqs})

SectionRow(reqs, i) == CHOOSE row \in DOMAIN Sections(reqs) : Sections(reqs)[row] = reqs[i].section

Those(reqs, Test(_)) == SelectSeq([i \in DOMAIN reqs |-> i], Test)

(* rebuildHierarchy: the requirements without a parent, by section, and    *)
(* the children of each requirement.                                       *)
Siblings(reqs, parent, section) ==
  Those(reqs, LAMBDA i : /\ resolveHierarchyParent(reqs, i) = parent
                         /\ parent = 0 => reqs[i].section = section)

siblingRow(reqs, i) ==
  LET siblings == Siblings(reqs, resolveHierarchyParent(reqs, i), reqs[i].section)
  IN  CHOOSE row \in DOMAIN siblings : siblings[row] = i

(* The requirements below an item, by rowCount and index.                  *)
Rows(reqs, mode, item) ==
  IF item.id = 0
  THEN LET section == Sections(reqs)[item.row]
       IN  IF mode = "sections" THEN Those(reqs, LAMBDA i : reqs[i].section = section)
           ELSE Siblings(reqs, 0, section)
  ELSE IF mode = "sections" THEN <<>> ELSE Siblings(reqs, item.id, reqs[item.id].section)

rowCount(reqs, mode, item) ==
  IF item = Root THEN Len(Sections(reqs)) ELSE Len(Rows(reqs, mode, item))

index(reqs, mode, row, item) ==
  IF item = Root THEN SectionItem(row) ELSE Item(row, Rows(reqs, mode, item)[row])

parentItem(reqs, mode, item) ==
  IF item.id = 0 THEN Root
  ELSE LET parent == resolveHierarchyParent(reqs, item.id)
       IN  IF mode = "sections" \/ parent = 0 THEN SectionItem(SectionRow(reqs, item.id))
           ELSE Item(siblingRow(reqs, parent), parent)

indexForId(reqs, mode, id) ==
  LET i == indexOfId(reqs, id)
  IN  IF i = 0 THEN Root
      ELSE IF mode = "sections"
           THEN Item(Cardinality({j \in 1 .. i : reqs[j].section = reqs[i].section}), i)
           ELSE Item(siblingRow(reqs, i), i)
=============================================================================
