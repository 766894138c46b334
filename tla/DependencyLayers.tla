-------------------------- MODULE DependencyLayers --------------------------
(***************************************************************************)
(* The picture of the dependencies of requirements: which requirement a    *)
(* reference means, the layers of the graph, and the places of its nodes   *)
(* (DependencyGraphData, DependencyGraphLayout).  A requirement is its id, *)
(* parent, dependencies, section and repository.  Ids are numbers as they  *)
(* are spelled: one of them and another Respelled above it differ only in  *)
(* upper and lower case.                                                   *)
(***************************************************************************)
EXTENDS Integers, Sequences, FiniteSets, SequencesExt, FiniteSetsExt

NoId      == 0        \* an empty reference
Respelled == 100

lower(id) == id % Respelled

(* The first requirement of that id, in any letters: what the validator,   *)
(* the tree and the exporter resolve a reference to.                       *)
indexOfId(reqs, id) ==
  LET matches == {i \in DOMAIN reqs : lower(reqs[i].id) = lower(id)}
  IN  IF id = NoId \/ matches = {} THEN 0 ELSE Min(matches)

(* What the graph resolves it to: the first of the same repository.        *)
resolve(reqs, id, repo) ==
  LET near == {i \in DOMAIN reqs : lower(reqs[i].id) = lower(id) /\ reqs[i].repo = repo}
  IN  IF id # NoId /\ near # {} THEN Min(near) ELSE indexOfId(reqs, id)

(* DependencyGraphData::build: the edges of dependencies.                  *)
DepEdges(reqs) ==
  {e \in (DOMAIN reqs) \X (DOMAIN reqs) :
     e[1] # e[2] /\ e[2] \in {resolve(reqs, dep, reqs[e[1]].repo) : dep \in reqs[e[1]].deps}}
-----------------------------------------------------------------------------
(* Kahn's layers: what has no edge left into it is placed next.            *)

(* A node is free as soon as one edge into it is gone.                     *)
FreeMut(edges, placed, left) ==
  {v \in left : \A e \in edges : e[2] = v => \E f \in edges : f[2] = v /\ f[1] \in placed}

Free(edges, placed, left) == {v \in left : \A e \in edges : e[2] = v => e[1] \in placed}

NextRound(edges, nodes, round) ==
  LET frontier == Free(edges, nodes \ round.left, round.left)
  IN  IF frontier = {} THEN round
      ELSE [layers |-> Append(round.layers, frontier), left |-> round.left \ frontier]

(* The rounds end when no node is free, at the latest when none is left.   *)
Kahn(edges, nodes) ==
  LET after[k \in 0 .. Cardinality(nodes)] ==
        IF k = 0 THEN [layers |-> <<>>, left |-> nodes] ELSE NextRound(edges, nodes, after[k - 1])
  IN  after[Cardinality(nodes)]

(* What never becomes free goes to one last layer.                         *)
Layers(reqs) ==
  LET end == Kahn(DepEdges(reqs), DOMAIN reqs)
  IN  IF end.left = {} THEN end.layers ELSE Append(end.layers, end.left)

hasCycle(reqs) == Kahn(DepEdges(reqs), DOMAIN reqs).left # {}
-----------------------------------------------------------------------------
Row(order, l, v) == CHOOSE row \in DOMAIN order[l] : order[l][row] = v

(* assignCoordinates, in tens of pixels, the last half of one dropped: the *)
(* centre of each node.  From one layer to the next it goes the width of   *)
(* the wider nodes on the left, and the rows of the shorter layers are     *)
(* centred.                                                                *)
kHorizontalSpacing == 26
kVerticalSpacing   == 11
kLayerPadding      == 4

Step(order, widths, l) ==
  LET widest == Max({0} \cup {widths[v] : v \in ToSet(order[l])})
  IN  IF widest + kLayerPadding > kHorizontalSpacing THEN widest + kLayerPadding
      ELSE kHorizontalSpacing

LayerX(order, widths, l) ==
  LET cursor[k \in 0 .. l - 1] == IF k = 0 THEN 0 ELSE cursor[k - 1] + Step(order, widths, k)
  IN  cursor[l - 1]

assignCoordinates(order, widths) ==
  LET tallest == Max({0} \cup {Len(order[l]) : l \in DOMAIN order})
      Y(l, row) == (row - 1) * kVerticalSpacing + ((tallest - Len(order[l])) * kVerticalSpacing) \div 2
  IN  [v \in UNION {ToSet(order[l]) : l \in DOMAIN order} |->
         LET l == CHOOSE l \in DOMAIN order : v \in ToSet(order[l])
         IN  [x |-> LayerX(order, widths, l), y |-> Y(l, Row(order, l, v))]]
=============================================================================
