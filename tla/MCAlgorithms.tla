---------------------------- MODULE MCAlgorithms ----------------------------
(***************************************************************************)
(* The pure computations of the requirements manager, of the expression    *)
(* parser, of the decoder of samples and of the video effects, called once *)
(* on every input of a small set, and compared with a definition of what   *)
(* they should return.  The number nodes, which work with the parser, live *)
(* beside them: a behaviour is a call, or a life of the nodes without one. *)
(***************************************************************************)
EXTENDS RequirementTree, Conversions, MCNumberNodes

NoCall == [kind |-> "none"]
-----------------------------------------------------------------------------
(* Four requirements with up to MaxDeps dependencies among them, and two   *)
(* of one id among three, in two repositories, with one to nothing.        *)
Requirement(id, parent, deps, section, repo) ==
  [id |-> id, parent |-> parent, deps |-> deps, section |-> section, repo |-> repo]

Dangling == 9

MaxDeps == 6

DistinctLists ==
  {[i \in 1 .. 4 |-> Requirement(i, NoId, deps[i], 1, "public")] :
     deps \in {deps \in [1 .. 4 -> SUBSET (1 .. 4)] :
                 /\ \A i \in 1 .. 4 : i \notin deps[i]
                 /\ Cardinality({<<i, j>> \in (1 .. 4) \X (1 .. 4) : j \in deps[i]}) <= MaxDeps}}

AmbiguousLists ==
  {[i \in 1 .. 3 |-> Requirement(<<1, 1, 2>>[i], parents[i], deps[i], 1,
                                 <<"public", "private", "private">>[i])] :
     deps \in [1 .. 3 -> SUBSET {1, 2, Dangling}], parents \in [1 .. 3 -> {NoId, 2}]}

(* Two requirements that refer to each other and to themselves in the      *)
(* letters of the id and in others.                                        *)
SpelledLists ==
  {[i \in 1 .. 2 |-> Requirement(i, parents[i], deps[i], 1, "public")] :
     deps \in [1 .. 2 -> SUBSET {1, 2, Respelled + 1, Respelled + 2}],
     parents \in [1 .. 2 -> {NoId, 1, Respelled + 1}]}

Lists == DistinctLists \cup AmbiguousLists \cup SpelledLists

Trees ==
  {[i \in 1 .. 3 |-> Requirement(ids[i], parents[i], {}, sections[i], repos[i])] :
     ids \in {<<1, 2, 3>>, <<1, 1, 2>>}, parents \in [1 .. 3 -> {NoId, 1, 2, 3, Respelled + 1}],
     sections \in {<<1, 1, 1>>, <<2, 1, 1>>}, repos \in {<<1, 1, 1>>, <<1, 1, 2>>}}

(* Two layers of three with every set of edges, and layers of two, three   *)
(* and two with at least nine edges, where a sweep can make things worse.  *)
ThreeByThree == <<<<1, 4>>, <<1, 5>>, <<1, 6>>, <<2, 4>>, <<2, 5>>, <<2, 6>>, <<3, 4>>, <<3, 5>>, <<3, 6>>>>
TwoByThreeByTwo ==
  <<<<1, 3>>, <<1, 4>>, <<1, 5>>, <<2, 3>>, <<2, 4>>, <<2, 5>>,
    <<3, 6>>, <<3, 7>>, <<4, 6>>, <<4, 7>>, <<5, 6>>, <<5, 7>>>>

Some(edges, S) == [k \in 1 .. Cardinality(S) |-> edges[Ascending(S)[k]]]

Layouts ==
  {<<<<{1, 2, 3}, {4, 5, 6}>>, Some(ThreeByThree, S)>> : S \in SUBSET (1 .. 9)}
  \cup {<<<<{1, 2}, {3, 4, 5}, {6, 7}>>, Some(TwoByThreeByTwo, S)>> :
          S \in {S \in SUBSET (1 .. 12) : Cardinality(S) >= 9}}

Widths == {[v \in 1 .. 6 |-> IF v = wide THEN 60 ELSE 12] : wide \in 0 .. 6}

Fields == UNION {[1 .. k -> Character] : k \in 0 .. 2}

(* Every pair of operators, either inside the other.                       *)
Binary == UNION {Level[k] : k \in DOMAIN Level}
Leaf(name) == <<name>>
Small == {<<op, Leaf("a"), Leaf("1")>> : op \in Binary} \cup {<<op, Leaf("b")>> : op \in Unary}
         \cup {<<"?", Leaf("a"), Leaf("b"), Leaf("2")>>, Leaf("c")}
Terms ==
  {<<op, l, Leaf("c")>> : op \in Binary, l \in Small}
  \cup {<<op, Leaf("c"), r>> : op \in Binary, r \in Small}
  \cup {<<op, s>> : op \in Unary, s \in Small}
  \cup {<<"?", s, Leaf("c"), Leaf("0")>> : s \in Small}
  \cup {<<"?", Leaf("c"), s, Leaf("0")>> : s \in Small}
  \cup {<<"?", Leaf("c"), Leaf("0"), s>> : s \in Small}

(* Effects at the values that their sliders and their arithmetic turn at,  *)
(* and chains of up to three nodes; a blur in a chain has the radius 0.    *)
Bytes == {0, 1, 100, 128, 129, 254, 255}
Scaled == {[id |-> "brightness", value |-> v] : v \in {-100, -37, -1, 0, 1, 50, 100}}
          \cup {[id |-> "contrast", value |-> v] : v \in {0, 1, 50, 99, 100, 150, 200}}
Mixing == {[id |-> id, value |-> 0] : id \in {"grayscale", "sepia", "invert", "channelSwap"}}
Turning == {[id |-> "flip", value |-> h] : h \in BOOLEAN}
EffectStages ==
  {[effect |-> e, custom |-> FALSE, hardwareGL |-> gl] :
     e \in Turning \cup {[id |-> "channelSwap", value |-> 0]}, gl \in BOOLEAN}
Stages ==
  EffectStages \cup {[effect |-> [id |-> "blur", value |-> 0], custom |-> c, hardwareGL |-> TRUE] : c \in BOOLEAN}
Chains == UNION {[1 .. k -> Stages] : k \in 0 .. 3}
FirstPicture == <<<<<<0, 10, 20>>, <<30, 40, 50>>>>, <<<<60, 70, 80>>, <<90, 100, 110>>>>>>
OtherPicture == <<<<<<2, 11, 19>>, <<33, 41, 48>>>>, <<<<60, 72, 85>>, <<91, 99, 110>>>>>>
Pictures == {FirstPicture, <<<<<<5, 0, 250>>>>, <<<<255, 9, 7>>>>, <<<<1, 2, 3>>>>>>,
             <<<<<<8, 8, 8>>, <<99, 0, 255>>, <<200, 1, 17>>, <<64, 128, 255>>>>>>}

(* Samples of one or two channels of every type: the numbers where a type  *)
(* ends, and around the middle of it.                                      *)
Probes(type) == {Lowest(type) + i : i \in {0, 1, Size(type.bytes) \div 2 - 1, Size(type.bytes) \div 2, Size(type.bytes) - 1}}

Recording(channels, frames, bigEndian, whole) ==
  [kind |-> "samples", channels |-> channels, frames |-> frames, bigEndian |-> bigEndian,
   tail |-> IF whole THEN <<>> ELSE [i \in 1 .. bytesPerFrame(channels) - 1 |-> 1]]

Recordings ==
  {Recording(<<type>>, <<<<a>>, <<b>>>>, big, whole) :
     <<type, a, b>> \in UNION {{type} \X Probes(type) \X Probes(type) : type \in SampleType},
     big, whole \in BOOLEAN}
  \cup
  {Recording(<<c[1], d[1]>>, <<<<c[2], d[2]>>, <<c[2], d[2]>>>>, big, whole) :
     c, d \in UNION {{type} \X Probes(type) : type \in SampleType}, big, whole \in BOOLEAN}

(* The inputs of Conversions.                                              *)
Conversion ==
  {[kind |-> "csv", fields |-> <<f, g>>] : f, g \in Fields}
  \cup {[kind |-> "effect", effect |-> effect, picture |-> <<<<<<b, b, b>>>>>>] : effect \in Scaled, b \in Bytes}
  \cup {[kind |-> "effect", effect |-> effect, picture |-> <<<<p>>>>] :
           effect \in Mixing, p \in {<<x, y, z>> : x, y, z \in {0, 1, 100, 255}}}
  \cup {[kind |-> "chain", picture |-> FirstPicture, shaded |-> OtherPicture, stages |-> chain,
          planar |-> planar, gl |-> gl] :
           chain \in Chains, planar, gl \in BOOLEAN}
  \cup {[kind |-> "blur", picture |-> picture, radius |-> radius] : picture \in Pictures, radius \in 1 .. 3}
  \cup {[kind |-> "settings", params |-> SliderParams(e, b, c, h, radius, kernel)] :
           e \in Effects \cup {"canny"}, b \in {-100, 7, 100}, c \in {0, 100, 101, 200}, h \in BOOLEAN,
           radius \in {0, 10}, kernel \in {1, 4, 30, 31}}
  \cup Recordings
  \cup {[kind |-> "graph", reqs |-> reqs] : reqs \in Lists}
  \cup {[kind |-> "places", order |-> order, widths |-> w] :
           order \in {<<<<1, 2, 3>>, <<4, 5, 6>>>>, <<<<4, 1>>, <<6>>, <<2, 5, 3>>>>}, w \in Widths}

(* They are among those that the theorems are about.                       *)
ASSUME ConversionAssumption == Conversion \subseteq Request
-----------------------------------------------------------------------------
Called ==
  /\ answer = <<>>
  /\ \/ \E reqs \in Lists : request = [kind |-> "list", reqs |-> reqs]
     \/ \E reqs \in Trees, mode \in {"sections", "hierarchy"} :
          request = [kind |-> "tree", reqs |-> reqs, mode |-> mode]
     \/ \E l \in Layouts :
          request = [kind |-> "layout", layers |-> l[1], edges |-> l[2]]
     \/ \E t \in Terms : request = [kind |-> "expression", ast |-> t]
     \/ \E conversion \in Conversion : request = conversion

(* C++'s operators, each with how tightly it binds.                        *)
Binding(op) ==
  CASE op = "?"  -> 0
    [] op = "||" -> 1
    [] op = "&&" -> 2
    [] op = "|"  -> 3
    [] op = "^"  -> 4
    [] op = "&"  -> 5
    [] op \in {"==", "!="} -> 6
    [] op \in {"<", ">", "<=", ">="} -> 7
    [] op \in {"<<", ">>"} -> 8
    [] op \in {"+", "-"} -> 9
    [] op \in {"*", "/", "%"} -> 10

Tightness(t) == IF Len(t) <= 2 THEN 11 ELSE Binding(t[1])

(* The text of a term with no more parentheses than C++ needs.             *)
RECURSIVE Printed(_)
Printed(t) ==
  LET In(s, least) == IF Tightness(s) < least THEN <<"(">> \o Printed(s) \o <<")">>
                      ELSE Printed(s)
  IN  CASE Len(t) = 1 -> t
        [] Len(t) = 2 -> <<t[1]>> \o In(t[2], 11)
        [] Len(t) = 3 -> In(t[2], Binding(t[1])) \o <<t[1]>> \o In(t[3], Binding(t[1]) + 1)
        [] Len(t) = 4 -> In(t[2], 1) \o <<"?">> \o Printed(t[3]) \o <<":">> \o Printed(t[4])

Check ==
  /\ request.kind = "list"
  /\ LET reqs == request.reqs
     IN  answer' = <<[errors |-> Errors(reqs), cycles |-> DepCycles(reqs),
                      hasCycle |-> hasCycle(reqs),
                      cyclic |-> cyclicRequirementCount(reqs)]>>

(* A view asks for the rows below every item it has.                       *)
Expand ==
  /\ request.kind = "tree"
  /\ LET Below(S) == UNION {{index(request.reqs, request.mode, row, item) :
                               row \in 1 .. rowCount(request.reqs, request.mode, item)} : item \in S}
         shown[k \in 0 .. 4] == IF k = 0 THEN {Root} ELSE Below(shown[k - 1])
     IN  answer' = <<UNION {shown[k] : k \in 0 .. 4}>>

Arrange ==
  /\ request.kind = "layout"
  /\ answer' = <<orderLayers(request.layers, request.edges)>>

Parse ==
  /\ request.kind = "expression"
  /\ answer' = <<parse(Printed(request.ast))>>

Call ==
  /\ \/ /\ answer = <<>>
        /\ \/ Check \/ Expand \/ Arrange \/ Parse
        /\ UNCHANGED request
     \/ Convert
  /\ UNCHANGED vars

NodesRest ==
  /\ Init /\ node = ArithmeticLogicModel
  /\ \A s \in Sources : source[s] = NumberSourceDataModel(0)

NodesLive == request = NoCall /\ Next /\ UNCHANGED <<request, answer>>

AlgorithmsInit == \/ Called /\ NodesRest
                  \/ Init /\ request = NoCall /\ answer = <<>>

AlgorithmsSpec == AlgorithmsInit /\ [][Call \/ NodesLive]_<<request, answer, vars>>

-----------------------------------------------------------------------------
(* The validator, the graph and the exporter look for cycles each in its   *)
(* own way, and resolve an ambiguous id differently: of a list that the    *)
(* validator finds no error in, the graph has no cycle, the exporter       *)
(* counts only the requirements that name themselves in other letters,     *)
(* which the validator takes for no self reference, and every other        *)
(* dependency is an edge of the graph.                                     *)
NoErrorsMeansSound ==
  Answers("list") /\ answer[1].errors = {} =>
    LET reqs == request.reqs
        NamesItself(i, dep) == lower(dep) = lower(reqs[i].id)
    IN  /\ ~answer[1].hasCycle
        /\ answer[1].cyclic =
             Cardinality({i \in DOMAIN reqs : \E dep \in reqs[i].deps : NamesItself(i, dep)})
        /\ \A i \in DOMAIN reqs : \A dep \in reqs[i].deps : NamesItself(i, dep) \/
             \E e \in DepEdges(reqs) : e[1] = i /\ lower(reqs[e[2]].id) = lower(dep)

(* A chain that the validator reports is a cycle of dependencies, and      *)
(* every requirement on a cycle shares one with a reported chain.          *)
CyclesReported ==
  Answers("list") =>
    LET nodes == DOMAIN request.reqs
        edges == {e \in nodes \X nodes : e[2] \in DepTargets(request.reqs, e[1])}
    IN  /\ \A c \in answer[1].cycles :
             Head(c) = Last(c) /\ \A k \in 1 .. Len(c) - 1 : <<c[k], c[k + 1]>> \in edges
        /\ \A v \in Cyclic(edges, nodes) :
             \E c \in answer[1].cycles : c[1] \in ReachedFrom(edges, nodes, v) /\ v \in ReachedFrom(edges, nodes, c[1])

(* A view that expands everything shows each section and each requirement  *)
(* once, even when parents form a cycle; an item knows the item it was     *)
(* found under, and the index found for an id is that of its row.          *)
TreeShowsEachOnce ==
  Answers("tree") =>
    LET reqs == request.reqs
        mode == request.mode
        Shown(i) == {item \in answer[1] : item.id = i}
    IN  /\ \A i \in DOMAIN reqs : Cardinality(Shown(i)) = 1
        /\ \A item \in answer[1] : \A row \in 1 .. rowCount(reqs, mode, item) :
             parentItem(reqs, mode, index(reqs, mode, row, item)) = item
        /\ \A i \in DOMAIN reqs : indexOfId(reqs, reqs[i].id) = i =>
             indexForId(reqs, mode, reqs[i].id) \in Shown(i)

Crossings(order, edges) ==
  LET Crosses(e, f, l) ==
        /\ {e[1], f[1]} \subseteq ToSet(order[l]) /\ {e[2], f[2]} \subseteq ToSet(order[l + 1])
        /\ Row(order, l, e[1]) < Row(order, l, f[1])
        /\ Row(order, l + 1, e[2]) > Row(order, l + 1, f[2])
  IN  Cardinality({x \in (DOMAIN edges) \X (DOMAIN edges) \X (1 .. Len(order) - 1) :
                     Crosses(edges[x[1]], edges[x[2]], x[3])})

(* The count of crossings by the Fenwick tree is the number of pairs of    *)
(* edges that cross.                                                       *)
CrossingsCounted ==
  Answers("layout") =>
    \A order \in {answer[1], [l \in DOMAIN request.layers |-> Ascending(request.layers[l])]} :
      crossingCount(order, request.edges) = Crossings(order, request.edges)

(* The sweeps reorder each layer and never end with more crossings than    *)
(* the order by id they began with.                                        *)
OrderingIsNoWorse ==
  Answers("layout") =>
    LET first == [l \in DOMAIN request.layers |-> Ascending(request.layers[l])]
    IN  /\ DOMAIN answer[1] = DOMAIN first
        /\ \A l \in DOMAIN first : IsInjective(answer[1][l]) /\ ToSet(answer[1][l]) = request.layers[l]
        /\ Crossings(answer[1], request.edges) <= Crossings(first, request.edges)

(* An expression written with the parentheses C++ needs is understood as   *)
(* C++ does.                                                               *)
ParsesAsPrinted ==
  Answers("expression") => answer[1] = request.ast

(* The three searches for cycles and the tree agree, the sweeps never make *)
(* the drawing worse, and the parser reads what is written.                *)
AnswersAreRight ==
  /\ NoErrorsMeansSound /\ CyclesReported /\ TreeShowsEachOnce
  /\ CrossingsCounted /\ OrderingIsNoWorse /\ ParsesAsPrinted
=============================================================================
