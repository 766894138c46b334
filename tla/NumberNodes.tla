----------------------------- MODULE NumberNodes -----------------------------
(***************************************************************************)
(* Number sources wired to one operator, an Arithmetic/Logic node or a     *)
(* Modulo node, that feeds a Number Display.  The calls from node to node  *)
(* are direct, so that an edit at a source is worked out as far as the     *)
(* display before the next.  The graph itself, the QtNodes library, is     *)
(* modelled from its use: wires join ports of one type, an input takes one *)
(* wire, a new wire delivers what its source holds, a deleted one delivers *)
(* nothing, and portsAboutToBeDeleted deletes the wires of those ports.    *)
(* A stored input is a weak pointer to the number of a source, which       *)
(* replaces it only together with an update: the model stores the number.  *)
(***************************************************************************)
EXTENDS Integers, Sequences, FiniteSets

CONSTANTS Sources, Values,   \* the numbers that are typed or drawn
          Expressions,       \* token sequences
          Meaning(_, _),     \* what m_parser makes of an expression, with the
                             \* variable 'a' + i at the place i of a function
          MaxInputs,         \* bound on the input count, below the array's 8
          MaxWires           \* bound on the wires to the operator

(* Before it evaluates, the parser sets every variable of the expression   *)
(* to 0: those that the node does not set count as 0.                      *)
Unset ==
  \A expr \in Expressions, at \in [0 .. MaxInputs - 1 -> Values \cup {0}] :
    \A count \in 2 .. MaxInputs :
      (\A port \in count .. MaxInputs - 1 : at[port] = 0)
      => Meaning(expr, [port \in 0 .. count - 1 |-> at[port]]) = Meaning(expr, at)

ASSUME NumberNodesAssumption ==
  /\ Values \subseteq Nat /\ MaxInputs \in 2 .. 7
  /\ <<"a", "+", "b">> \in Expressions /\ Unset
  /\ \A expr \in Expressions, at \in [0 .. MaxInputs - 1 -> Values \cup {0}] :
       Meaning(expr, at) \in Seq(Int)

VARIABLES
  source,    \* of each source its type, text, number and random check box
  node,      \* the operator
  wires,     \* pairs of a source and an input port of the operator
  feeds,     \* whether the operator is wired to the display
  display    \* the type of the display and what its label shows

vars == <<source, node, wires, feeds, display>>

Types == {"int", "double"}

None == <<>>         \* no number; a number is <<value>>

Number == {<<v>> : v \in Values}
-----------------------------------------------------------------------------
NoInputs == [port \in 0 .. MaxInputs |-> None]

ArithmeticLogicModel ==
  [kind |-> "arithmetic", type |-> "int", count |-> 2, strobed |-> FALSE, strobe |-> None,
   inputs |-> NoInputs, expr |-> <<"a", "+", "b">>, result |-> None]

ModuloModel == [ArithmeticLogicModel EXCEPT !.kind = "modulo"]

NumberSourceDataModel(first) ==
  [type |-> "double", text |-> <<first>>, number |-> <<first>>, random |-> FALSE]

Init ==
  /\ \E first \in Values : source = [s \in Sources |-> NumberSourceDataModel(first)]
  /\ node \in {ArithmeticLogicModel, ModuloModel}
  /\ wires = {} /\ feeds = FALSE
  /\ display = [type |-> "double", shown |-> None]

nPorts(n) == IF n.strobed THEN n.count + 1 ELSE n.count
-----------------------------------------------------------------------------
(* recompute: an input without a number counts as 0.  The node of type     *)
(* double looks for the strobe among its inputs, where setInData does not  *)
(* put it.                                                                 *)
Result(n) ==
  LET strobe == IF n.type = "int" THEN n.strobe ELSE n.inputs[n.count]
  IN  IF n.strobed /\ strobe \in {None, <<0>>} THEN None
      ELSE Meaning(n.expr, [port \in 0 .. n.count - 1 |->
                              IF n.inputs[port] = None THEN 0 ELSE n.inputs[port][1]])

(* Without the reset of a result that is no longer one.                    *)
ModuloResultMut(n) ==
  IF None \in {n.inputs[0], n.inputs[1]} THEN n.result
  ELSE IF n.inputs[1] = <<0>> THEN None
  ELSE <<n.inputs[0][1] % n.inputs[1][1]>>

ModuloResult(n) ==
  IF None \in {n.inputs[0], n.inputs[1]} \/ n.inputs[1] = <<0>> THEN None
  ELSE <<n.inputs[0][1] % n.inputs[1][1]>>

recompute(n) ==
  [n EXCEPT !.result = IF n.kind = "modulo" THEN ModuloResult(n) ELSE Result(n)]

(* setInData at each of some ports, up to its recompute.                   *)
StoredAt(n, ports, number) ==
  [n EXCEPT !.inputs = [p \in DOMAIN @ |-> IF p \in ports /\ p < n.count THEN number ELSE @[p]],
            !.strobe = IF n.strobed /\ n.count \in ports THEN number ELSE @]

(* Each delivery recomputes and updates the display with the result.       *)
Updated(n, ports, number) ==
  IF ports = {} THEN n ELSE recompute(StoredAt(n, ports, number))

setInData(d, number) == [d EXCEPT !.shown = number]

Displayed(n) == display' = IF feeds THEN setInData(display, n.result) ELSE display

PortsOf(s, w) == {wire[2] : wire \in {wire \in w : wire[1] = s}}

(* A change of a source's number reaches the inputs wired to it.           *)
Emits(s, changed) ==
  /\ source' = [source EXCEPT ![s] = changed]
  /\ node' = Updated(node, PortsOf(s, wires), changed.number)
  /\ Displayed(node')
  /\ UNCHANGED <<wires, feeds>>
-----------------------------------------------------------------------------
(* NumberSource: a text that is no number keeps the old number.            *)
onTextEdited(s, text) ==
  /\ ~source[s].random
  /\ IF text # None THEN Emits(s, [source[s] EXCEPT !.text = text, !.number = text])
     ELSE source' = [source EXCEPT ![s].text = text] /\ UNCHANGED <<node, wires, feeds, display>>

onRandomToggled(s) ==
  /\ source' = [source EXCEPT ![s].random = ~@]
  /\ UNCHANGED <<node, wires, feeds, display>>

generateRandom(s, number) ==
  /\ source[s].random
  /\ Emits(s, [source[s] EXCEPT !.text = number, !.number = number])

(* switchType of a source: its wires are deleted, and it starts from its   *)
(* text unless it is random.                                               *)
switchSourceType(s) ==
  /\ source' = [source EXCEPT ![s].type   = IF @ = "int" THEN "double" ELSE "int",
                              ![s].number = IF source[s].random THEN None ELSE source[s].text]
  /\ wires' = {wire \in wires : wire[1] # s}
  /\ node' = Updated(node, PortsOf(s, wires), None)
  /\ Displayed(node')
  /\ UNCHANGED feeds
-----------------------------------------------------------------------------
(* The graph editor.                                                       *)
Connect(s, port) ==
  /\ Cardinality(wires) < MaxWires
  /\ port < nPorts(node) /\ \A wire \in wires : wire[2] # port
  /\ source[s].type = node.type
  /\ wires' = wires \cup {<<s, port>>}
  /\ node' = Updated(node, {port}, source[s].number)
  /\ Displayed(node')
  /\ UNCHANGED <<source, feeds>>

Disconnect(wire) ==
  /\ wires' = wires \ {wire}
  /\ node' = Updated(node, {wire[2]}, None)
  /\ Displayed(node')
  /\ UNCHANGED <<source, feeds>>

Feed ==
  /\ ~feeds /\ display.type = node.type
  /\ feeds' = TRUE
  /\ display' = setInData(display, node.result)
  /\ UNCHANGED <<source, node, wires>>

Unfeed ==
  /\ feeds
  /\ feeds' = FALSE
  /\ display' = setInData(display, None)
  /\ UNCHANGED <<source, node, wires>>
-----------------------------------------------------------------------------
(* What deleting the wires of the first n input ports leaves.              *)
Cut(n) == {wire \in wires : wire[2] >= n}

(* switchType: the wires of all ports are deleted, the output's too, and   *)
(* the display is told so.  A Modulo node has nothing to compute then.     *)
switchType ==
  LET cleared == [node EXCEPT !.type = IF @ = "int" THEN "double" ELSE "int",
                              !.inputs = NoInputs, !.strobe = None, !.result = None]
  IN  /\ node' = IF node.kind = "modulo" THEN cleared ELSE recompute(cleared)
      /\ wires' = Cut(nPorts(node))
      /\ feeds' = FALSE
      /\ display' = IF feeds THEN setInData(display, None) ELSE display
      /\ UNCHANGED source

(* switchInputCount.                                                       *)
switchInputCount(count) ==
  /\ node.kind = "arithmetic" /\ count # node.count
  /\ LET cut == [node EXCEPT !.strobe = IF \E wire \in wires : wire[2] = node.count THEN None ELSE @]
     IN  node' = recompute([cut EXCEPT !.inputs = NoInputs, !.count = count])
  /\ wires' = Cut(nPorts(node))
  /\ Displayed(node')
  /\ UNCHANGED <<source, feeds>>

(* onStrobeToggled: the check box counts before the ports are told, so     *)
(* that the wire of a strobe that is switched off stays.                   *)
onStrobeToggled ==
  LET toggled == [node EXCEPT !.strobed = ~@, !.strobe = None]
      cut     == [port \in DOMAIN node.inputs |->
                    IF \E wire \in wires : wire[2] = port THEN None ELSE node.inputs[port]]
  IN  /\ node.kind = "arithmetic"
      /\ node' = recompute([toggled EXCEPT !.inputs = cut])
      /\ wires' = Cut(nPorts(toggled))
      /\ Displayed(node')
      /\ UNCHANGED <<source, feeds>>

onExpressionChanged(expr) ==
  /\ node.kind = "arithmetic"
  /\ node' = recompute([node EXCEPT !.expr = expr])
  /\ Displayed(node')
  /\ UNCHANGED <<source, wires, feeds>>

switchDisplayType ==
  /\ display' = [type |-> IF display.type = "int" THEN "double" ELSE "int", shown |-> None]
  /\ feeds' = FALSE
  /\ UNCHANGED <<source, node, wires>>

Next ==
  \/ \E s \in Sources :
       \/ \E text \in Number \cup {None} : onTextEdited(s, text)
       \/ \E number \in Number : generateRandom(s, number)
       \/ onRandomToggled(s)
       \/ switchSourceType(s)
       \/ \E port \in 0 .. MaxInputs : Connect(s, port)
  \/ \E wire \in wires : Disconnect(wire)
  \/ Feed
  \/ Unfeed
  \/ switchType
  \/ \E count \in 2 .. MaxInputs : switchInputCount(count)
  \/ onStrobeToggled
  \/ \E expr \in Expressions : onExpressionChanged(expr)
  \/ switchDisplayType

Spec == Init /\ [][Next]_vars
-----------------------------------------------------------------------------
(* No node works with what is no longer there: a stored input, and a       *)
(* stored strobe, is the number of a source wired to that port, and what a *)
(* wired input lacks is a number that its source lacks too, unless the     *)
(* wire is one that a strobe left behind and a longer list of inputs took  *)
(* over.                                                                   *)
InputsAreWired ==
  /\ \A port \in 0 .. node.count - 1 :
       node.inputs[port] # None =>
         \E s \in Sources : <<s, port>> \in wires /\ source[s].number = node.inputs[port]
  /\ node.strobe # None =>
       \E s \in Sources : <<s, node.count>> \in wires /\ source[s].number = node.strobe
  /\ \A wire \in wires : wire[2] < 2 => node.inputs[wire[2]] = source[wire[1]].number

(* What the sources wired to a port hold now; an input that a strobe's     *)
(* left-over wire has become holds nothing until its source changes.       *)
Held(port) ==
  {source[wire[1]].number : wire \in {wire \in wires : wire[2] = port}} \ {None}

Operand(port) ==
  IF port >= node.count \/ Held(port) = {} \/ (port >= 2 /\ node.inputs[port] = None) THEN 0
  ELSE (CHOOSE number \in Held(port) : TRUE)[1]

Expected ==
  IF node.kind = "modulo"
  THEN IF Held(0) = {} \/ Held(1) = {} \/ Operand(1) = 0 THEN None ELSE <<Operand(0) % Operand(1)>>
  ELSE IF node.strobed /\ (node.type = "double" \/ node.strobe \in {None, <<0>>}) THEN None
  ELSE Meaning(node.expr, [port \in 0 .. MaxInputs - 1 |-> Operand(port)])

(* The display shows the value of the operator over what the sources hold  *)
(* now, and nothing where there is none: an error, a division by zero, a   *)
(* modulo without both operands, a strobe that is missing or 0 (for a node *)
(* of type double, any strobe).  An operator that nothing is wired to may  *)
(* not have computed yet.                                                  *)
DisplayIsCurrent ==
  \/ display.shown = IF feeds THEN Expected ELSE None
  \/ display.shown = None /\ wires = {}

(* A node with a strobe lets its value through while the strobe is not 0.  *)
StrobeLetsThrough ==
  node.kind = "arithmetic" /\ node.strobed /\ Meaning(node.expr, [port \in {} |-> 0]) # None
    /\ (\E s \in Sources : <<s, node.count>> \in wires /\ source[s].number = <<1>>)
    => node.result # None

(* No node works with what is gone, and the display shows what is there.   *)
NumbersAreCurrent == InputsAreWired /\ DisplayIsCurrent

=============================================================================
