--------------------------- MODULE RequirementGraph ---------------------------
(***************************************************************************)
(* What else the Requirements Manager computes from a parsed list: the     *)
(* errors of the validator, the order of the nodes within the layers of    *)
(* the dependency graph, and the exporter's count of cycles.               *)
(***************************************************************************)
EXTENDS DependencyLayers, Graphs

DepTargets(reqs, i) == {indexOfId(reqs, dep) : dep \in reqs[i].deps} \ {0, i}

ParentTargets(reqs, i) == {indexOfId(reqs, reqs[i].parent)} \ {0, i}
-----------------------------------------------------------------------------
(* collectCycles: a depth-first search that reports the chain on the stack *)
(* for every edge that leads back into it.                                 *)
Ascending(S) == SelectSeq([i \in 1 .. Max(S \cup {0}) |-> i], LAMBDA i : i \in S)

RECURSIVE dfs(_, _, _)
dfs(adjacency, acc, u) ==
  LET Edge(a, v) ==
        CASE a.state[v] = "stack" ->
               LET from == CHOOSE k \in DOMAIN a.stack : a.stack[k] = v
               IN  [a EXCEPT !.chains = @ \cup
                      {Append(SubSeq(a.stack, from, Len(a.stack)), v)}]
          [] a.state[v] = "new"  -> dfs(adjacency, a, v)
          [] a.state[v] = "done" -> a
      entered == [acc EXCEPT !.state[u] = "stack", !.stack = Append(@, u)]
      left    == FoldLeft(Edge, entered, Ascending(adjacency[u]))
  IN  [left EXCEPT !.state[u] = "done", !.stack = Front(@)]

(* Starts from the requirements that nothing refers to.                    *)
collectCyclesMut(adjacency) ==
  LET Start(acc, u) == IF acc.state[u] = "new" /\ \A v \in DOMAIN adjacency : u \notin adjacency[v]
                       THEN dfs(adjacency, acc, u) ELSE acc
  IN  FoldLeft(Start, [state |-> [u \in DOMAIN adjacency |-> "new"], stack |-> <<>>,
                       chains |-> {}], Ascending(DOMAIN adjacency)).chains

collectCycles(adjacency) ==
  LET Start(acc, u) == IF acc.state[u] = "new" THEN dfs(adjacency, acc, u) ELSE acc
  IN  FoldLeft(Start, [state |-> [u \in DOMAIN adjacency |-> "new"], stack |-> <<>>,
                       chains |-> {}], Ascending(DOMAIN adjacency)).chains

DepCycles(reqs)    == collectCycles([i \in DOMAIN reqs |-> DepTargets(reqs, i)])
ParentCycles(reqs) == collectCycles([i \in DOMAIN reqs |-> ParentTargets(reqs, i)])

(* The requirements that validate reports an Error for, by field; the      *)
(* chains of cycles are reported for the requirement they close at.  A     *)
(* reference to the requirement itself is one only in the same letters.    *)
Errors(reqs) ==
  LET Refers(i, ref) == ref = reqs[i].id \/ indexOfId(reqs, ref) = 0
  IN  {<<i, "id">> : i \in {i \in DOMAIN reqs : indexOfId(reqs, reqs[i].id) # i}}
      \cup {<<i, "parentId">> : i \in {i \in DOMAIN reqs :
              reqs[i].parent # NoId /\ Refers(i, reqs[i].parent)}}
      \cup {<<i, "dependencies">> : i \in {i \in DOMAIN reqs :
              \E dep \in reqs[i].deps : Refers(i, dep)}}
      \cup {<<Last(c), "dependencies">> : c \in DepCycles(reqs)}
      \cup {<<Last(c), "parentId">> : c \in ParentCycles(reqs)}
-----------------------------------------------------------------------------
(* The exporter's search for a way back to a requirement.                  *)
RECURSIVE FindsItself(_, _, _, _)
FindsItself(out, start, seen, stack) ==
  /\ stack # {}
  /\ \/ start \in stack
     \/ LET u == CHOOSE u \in stack : TRUE
        IN  FindsItself(out, start, seen \cup {u}, (stack \cup out[u]) \ (seen \cup {u}))

cyclicRequirementCount(reqs) ==
  LET out == [i \in DOMAIN reqs |-> {indexOfId(reqs, dep) : dep \in reqs[i].deps} \ {0}]
  IN  Cardinality({i \in DOMAIN reqs : FindsItself(out, i, {}, out[i])})
-----------------------------------------------------------------------------
(* DependencyGraphLayout: the order of the nodes within their layers.      *)
OtherEnd(e, v) == IF e[1] = v THEN e[2] ELSE e[1]

(* The mean row of the neighbours, one for each edge, as a fraction; a     *)
(* node without any keeps its place.                                       *)
Barycenter(order, edges, l, beside, v) ==
  LET near   == {k \in DOMAIN edges : /\ v \in ToSet(edges[k])
                                      /\ OtherEnd(edges[k], v) \in ToSet(order[beside])}
      RowOf(k) == Row(order, beside, OtherEnd(edges[k], v))
  IN  IF near = {} THEN <<Row(order, l, v), 1>>
      ELSE <<MapThenSumSet(RowOf, near), Cardinality(near)>>

sortLayerByBary(order, edges, l, beside) ==
  LET bary == [v \in ToSet(order[l]) |-> Barycenter(order, edges, l, beside, v)]
      Before(a, b) == LET x == bary[a][1] * bary[b][2]
                          y == bary[b][1] * bary[a][2]
                      IN  x < y \/ (x = y /\ a < b)
  IN  [order EXCEPT ![l] = SortSeq(@, Before)]

sweepLeftRight(order, edges) ==
  FoldLeft(LAMBDA o, l : sortLayerByBary(o, edges, l + 1, l), order,
           [l \in 1 .. Len(order) - 1 |-> l])

sweepRightLeft(order, edges) ==
  FoldLeft(LAMBDA o, l : sortLayerByBary(o, edges, Len(order) - l, Len(order) - l + 1), order,
           [l \in 1 .. Len(order) - 1 |-> l])

Spans(order, edges, l) ==
  LET Between == SelectSeq(edges, LAMBDA e :
                   \/ e[1] \in ToSet(order[l]) /\ e[2] \in ToSet(order[l + 1])
                   \/ e[2] \in ToSet(order[l]) /\ e[1] \in ToSet(order[l + 1]))
      Span(e) == IF e[1] \in ToSet(order[l])
                 THEN <<Row(order, l, e[1]), Row(order, l + 1, e[2])>>
                 ELSE <<Row(order, l, e[2]), Row(order, l + 1, e[1])>>
  IN  SortSeq([k \in DOMAIN Between |-> Span(Between[k])],
              LAMBDA a, b : a[1] < b[1] \/ (a[1] = b[1] /\ a[2] < b[2]))

(* The Fenwick tree that counts the ends below a row; rows are numbered    *)
(* from 1 here, as its cells are.                                          *)
LowBit(i) == Max({p \in {1, 2, 4, 8} : i % p = 0})

RECURSIVE update(_, _), query(_, _)
update(bit, i) == IF i \notin DOMAIN bit THEN bit ELSE update([bit EXCEPT ![i] = @ + 1], i + LowBit(i))
query(bit, i)  == IF i = 0 THEN 0 ELSE bit[i] + query(bit, i - LowBit(i))

CountBelow(bit, right) == query(bit, right - 1)

crossingCount(order, edges) ==
  LET Count(spans) ==
        FoldRight(LAMBDA span, acc : [bit   |-> update(acc.bit, span[2]),
                                      count |-> acc.count + CountBelow(acc.bit, span[2])],
                  spans, [bit |-> [i \in 1 .. 8 |-> 0], count |-> 0]).count
  IN  FoldLeft(LAMBDA sum, l : sum + Count(Spans(order, edges, l)), 0,
               [l \in 1 .. Len(order) - 1 |-> l])

kSweepIterations == 5

(* Keeps the order of the last sweep.                                      *)
KeepMut(best, order, edges) == order

Keep(best, order, edges) ==
  IF crossingCount(order, edges) < crossingCount(best, edges) THEN order ELSE best

RECURSIVE Sweeps(_, _, _, _)
Sweeps(n, order, best, edges) ==
  IF n = 0 \/ (n < kSweepIterations /\ crossingCount(best, edges) = 0) THEN best
  ELSE LET swept == sweepRightLeft(sweepLeftRight(order, edges), edges)
       IN  Sweeps(n - 1, swept, Keep(best, swept, edges), edges)

(* From the order of the ids.                                              *)
orderLayers(layers, edges) ==
  LET order == [l \in DOMAIN layers |-> Ascending(layers[l])]
  IN  Sweeps(kSweepIterations, order, order, edges)
=============================================================================
