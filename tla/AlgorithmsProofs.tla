-------------------------- MODULE AlgorithmsProofs --------------------------
(***************************************************************************)
(* Theorems about NumberNodes, for any sources, numbers, expressions and   *)
(* counts of inputs, and about Conversions, for every request.             *)
(*                                                                         *)
(* What the display shows is the result of the operator, and the result is *)
(* what recompute makes of the inputs that are stored: it is enough that   *)
(* these are what the wires carry, through every change of the ports.      *)
(*                                                                         *)
(* Of a conversion it is enough that its answer is what the operators make *)
(* of the request.  These are recursive functions: what they return is     *)
(* shown by induction on sets of numbers (SetInduction), one lemma each,   *)
(* and the lemmas meet in HandledWell, with one case for each request.     *)
(* Kahn's layers need an invariant of their rounds (Sound), and that what  *)
(* is left is what the cycles reach: a walk against the edges within what  *)
(* is left comes back, as it is longer than there are nodes.               *)
(***************************************************************************)
EXTENDS NumberNodes, Conversions, FiniteSetTheorems, WellFoundedInduction, SequenceTheorems, TLAPS

Stored == Number \cup {None}

SourceRecord == [type : Types, text : Stored, number : Stored, random : BOOLEAN]

Operators ==
  [kind : {"arithmetic", "modulo"}, type : Types, count : 2 .. MaxInputs, strobed : BOOLEAN,
   strobe : Stored, inputs : [0 .. MaxInputs -> Stored], expr : Expressions, result : Seq(Int)]

TypesOK ==
  /\ source \in [Sources -> SourceRecord]
  /\ node \in Operators
  /\ wires \subseteq Sources \X (0 .. MaxInputs)
  /\ feeds \in BOOLEAN
  /\ display \in [type : Types, shown : Seq(Int)]

(* One wire ends at a port.  No number is stored beyond the inputs, and no *)
(* strobe by a node without one, as nobody would take it away again.       *)
PortsOK ==
  /\ \A v, w \in wires : v[2] = w[2] => v = w
  /\ \A port \in 0 .. MaxInputs : port >= node.count => node.inputs[port] = None
  /\ node.strobe # None => node.strobed

ResultIsOfInputs ==
  \/ node.result = recompute(node).result
  \/ node.result = None /\ wires = {}

NumberInv ==
  /\ TypesOK /\ PortsOK /\ InputsAreWired /\ ResultIsOfInputs
  /\ node.kind = "modulo" => ~node.strobed
  /\ display.shown = IF feeds THEN node.result ELSE None
-----------------------------------------------------------------------------
LEMMA NumberFacts ==
  /\ Values \subseteq Nat /\ MaxInputs \in 2 .. 7 /\ MaxInputs \in Nat
  /\ <<"a", "+", "b">> \in Expressions /\ None \in Seq(Int)
  BY NumberNodesAssumption DEF None

LEMMA StoredIs ==
  ASSUME NEW number \in Stored
  PROVE  /\ number # None => number[1] \in Values /\ number = <<number[1]>>
         /\ number \in Seq(Int)
<1>1. CASE number = None
  BY <1>1, NumberFacts
<1>2. CASE number # None
  <2>1. PICK v \in Values : number = <<v>>
    BY <1>2 DEF Stored, Number
  <2>2. v \in Int
    BY NumberFacts
  <2> QED BY <2>1, <2>2
<1> QED BY <1>1, <1>2

(* What the parser is given, with and without zeros for the rest.          *)
LEMMA MeaningIs ==
  ASSUME NEW expr \in Expressions, NEW count \in 2 .. MaxInputs,
         NEW at \in [0 .. count - 1 -> Values \cup {0}]
  PROVE  /\ Meaning(expr, at) \in Seq(Int)
         /\ Meaning(expr, [port \in 0 .. MaxInputs - 1 |-> IF port < count THEN at[port] ELSE 0])
              = Meaning(expr, at)
<1> DEFINE all == [port \in 0 .. MaxInputs - 1 |-> IF port < count THEN at[port] ELSE 0]
<1>1. all \in [0 .. MaxInputs - 1 -> Values \cup {0}]
  BY NumberFacts
<1>2. \A port \in count .. MaxInputs - 1 : all[port] = 0
  BY NumberFacts
<1>3. [port \in 0 .. count - 1 |-> all[port]] = at
  BY NumberFacts
<1> HIDE DEF all
<1>4. Meaning(expr, [port \in 0 .. count - 1 |-> all[port]]) = Meaning(expr, all)
  BY <1>1, <1>2, NumberNodesAssumption DEF Unset
<1>5. Meaning(expr, all) \in Seq(Int)
  BY <1>1, NumberNodesAssumption
<1> QED BY <1>3, <1>4, <1>5 DEF all

(* The result depends on everything but the result before.                 *)
LEMMA RecomputeIs ==
  ASSUME NEW n \in Operators
  PROVE  /\ recompute(n) \in Operators
         /\ recompute(n) = [n EXCEPT !.result = recompute(n).result]
         /\ recompute(recompute(n)).result = recompute(n).result
<1> DEFINE Input(port) == IF n.inputs[port] = None THEN 0 ELSE n.inputs[port][1]
           at == [port \in 0 .. n.count - 1 |-> Input(port)]
<1>1. at \in [0 .. n.count - 1 -> Values \cup {0}]
  BY StoredIs, NumberFacts DEF Operators
<1>2. Meaning(n.expr, at) \in Seq(Int)
  <2> HIDE DEF at
  <2> QED BY <1>1, MeaningIs DEF Operators
<1>3. Result(n) \in Seq(Int)
  BY <1>2, NumberFacts DEF Result
<1>4. ModuloResult(n) \in Seq(Int)
  <2>1. n.inputs[0] \in Stored /\ n.inputs[1] \in Stored
    BY NumberFacts DEF Operators
  <2>2. CASE None \in {n.inputs[0], n.inputs[1]} \/ n.inputs[1] = <<0>>
    BY <2>2, NumberFacts DEF ModuloResult
  <2>3. CASE ~(None \in {n.inputs[0], n.inputs[1]} \/ n.inputs[1] = <<0>>)
    <3>1. /\ n.inputs[0][1] \in Nat /\ n.inputs[1][1] \in Nat
          /\ n.inputs[1] = <<n.inputs[1][1]>>
      BY <2>1, <2>3, StoredIs, NumberFacts
    <3>2. n.inputs[0][1] % n.inputs[1][1] \in Int
      BY <2>3, <3>1
    <3> QED BY <2>3, <3>2 DEF ModuloResult
  <2> QED BY <2>2, <2>3
<1>5. /\ recompute(n) = [n EXCEPT !.result = recompute(n).result]
      /\ recompute(n) \in Operators
  BY <1>3, <1>4 DEF recompute, Operators
<1>6. ASSUME NEW r \in Seq(Int)
      PROVE  Result([n EXCEPT !.result = r]) = Result(n) /\ ModuloResult([n EXCEPT !.result = r]) = ModuloResult(n)
  BY DEF Result, ModuloResult, Operators
<1>7. recompute(recompute(n)).result = recompute(n).result
  <2> DEFINE r == recompute(n).result
  <2>1. r \in Seq(Int)
    BY <1>5 DEF Operators
  <2>2. recompute([n EXCEPT !.result = r]).result = r
    <3>1. r = IF n.kind = "modulo" THEN ModuloResult(n) ELSE Result(n)
      BY DEF recompute, Operators
    <3> HIDE DEF r
    <3>2. [n EXCEPT !.result = r].kind = n.kind /\ [n EXCEPT !.result = r] \in Operators
      BY <2>1 DEF Operators
    <3>3. \A m \in Operators : recompute(m).result = IF m.kind = "modulo" THEN ModuloResult(m) ELSE Result(m)
      BY DEF recompute, Operators
    <3> QED BY <1>6, <2>1, <3>1, <3>2, <3>3
  <2> QED BY <1>5, <2>2
<1> QED BY <1>5, <1>7

(* A port that stores a number is wired to a source of that number, and    *)
(* otherwise counts as 0.                                                  *)
LEMMA OperandIs ==
  ASSUME NumberInv, NEW port \in 0 .. MaxInputs
  PROVE  /\ Operand(port) = IF port < node.count /\ node.inputs[port] # None THEN node.inputs[port][1] ELSE 0
         /\ port < 2 => (Held(port) = {} <=> node.inputs[port] = None)
<1> DEFINE stored == node.inputs[port]
<1>1. node.count \in 2 .. MaxInputs /\ stored \in Stored /\ wires \subseteq Sources \X (0 .. MaxInputs)
  BY DEF NumberInv, TypesOK, Operators
<1>2. ASSUME stored # None, port < node.count
      PROVE  Held(port) = {stored}
  <2>1. PICK s \in Sources : <<s, port>> \in wires /\ source[s].number = stored
    BY <1>1, <1>2 DEF NumberInv, InputsAreWired
  <2>2. \A wire \in wires : wire[2] = port => wire = <<s, port>>
    BY <2>1 DEF NumberInv, PortsOK
  <2> QED BY <1>2, <2>1, <2>2 DEF Held
<1>3. ASSUME stored = None, port < 2
      PROVE  Held(port) = {}
  BY <1>3 DEF NumberInv, InputsAreWired, Held
<1>4. port < 2 => port < node.count
  BY <1>1
<1>5. CASE stored # None /\ port < node.count
  <2>1. Held(port) = {stored}
    BY <1>2, <1>5
  <2>2. (CHOOSE number \in Held(port) : TRUE) = stored
    BY <2>1
  <2> QED BY <1>1, <1>5, <2>1, <2>2 DEF Operand
<1>6. CASE stored = None \/ ~(port < node.count)
  <2>1. Operand(port) = 0
    BY <1>1, <1>3, <1>6 DEF Operand
  <2> QED BY <1>3, <1>4, <1>6, <2>1
<1> QED BY <1>5, <1>6

(* What the sources hold now gives what the operator works out from what   *)
(* it stores.                                                              *)
LEMMA ExpectedIs ==
  ASSUME NumberInv
  PROVE  Expected = recompute(node).result
<1>1. /\ node \in Operators /\ node.count \in 2 .. MaxInputs
      /\ recompute(node).result = IF node.kind = "modulo" THEN ModuloResult(node) ELSE Result(node)
  BY DEF NumberInv, TypesOK, Operators, recompute
<1>2. CASE node.kind = "modulo"
  <2>1. 0 \in 0 .. MaxInputs /\ 1 \in 0 .. MaxInputs /\ 0 < node.count /\ 1 < node.count
    BY <1>1, NumberFacts
  <2>2. node.inputs[0] \in Stored /\ node.inputs[1] \in Stored
    BY <1>1, <2>1 DEF Operators
  <2>3. /\ Held(0) = {} <=> node.inputs[0] = None
        /\ Held(1) = {} <=> node.inputs[1] = None
        /\ node.inputs[0] # None => Operand(0) = node.inputs[0][1]
        /\ node.inputs[1] # None => Operand(1) = node.inputs[1][1]
    BY <2>1, OperandIs
  <2>4. node.inputs[1] # None => (node.inputs[1] = <<0>> <=> node.inputs[1][1] = 0)
    BY <2>2, StoredIs
  <2> QED BY <1>1, <1>2, <2>3, <2>4 DEF Expected, ModuloResult
<1>3. CASE node.kind = "arithmetic"
  <2> DEFINE at == [port \in 0 .. node.count - 1 |->
                      IF node.inputs[port] = None THEN 0 ELSE node.inputs[port][1]]
             all == [port \in 0 .. MaxInputs - 1 |-> IF port < node.count THEN at[port] ELSE 0]
  <2>1. at \in [0 .. node.count - 1 -> Values \cup {0}]
    BY <1>1, StoredIs, NumberFacts DEF Operators
  <2>2. Meaning(node.expr, all) = Meaning(node.expr, at)
    <3> HIDE DEF at
    <3> QED BY <1>1, <2>1, MeaningIs DEF Operators
  <2>3. [port \in 0 .. MaxInputs - 1 |-> Operand(port)] = all
    BY <1>1, OperandIs, NumberFacts
  <2>4. node.type = "double" => node.inputs[node.count] = None
    BY <1>1 DEF NumberInv, PortsOK
  <2>5. node.type \in {"int", "double"}
    BY <1>1 DEF Operators, Types
  <2> HIDE DEF all
  <2>6. Expected = IF node.strobed /\ (node.type = "double" \/ node.strobe \in {None, <<0>>}) THEN None
                   ELSE Meaning(node.expr, all)
    BY <1>3, <2>3 DEF Expected
  <2>7. Result(node) = IF node.strobed /\ (node.type = "double" \/ node.strobe \in {None, <<0>>}) THEN None
                       ELSE Meaning(node.expr, at)
    BY <2>4, <2>5 DEF Result
  <2> QED BY <1>1, <1>3, <2>2, <2>6, <2>7
<1> QED BY <1>1, <1>2, <1>3 DEF Operators
-----------------------------------------------------------------------------
(* A number delivered at some ports.                                       *)
LEMMA UpdatedIs ==
  ASSUME NEW n \in Operators, NEW ports, NEW number \in Stored, NEW m, m = Updated(n, ports, number)
  PROVE  /\ m \in Operators
         /\ m.kind = n.kind /\ m.type = n.type /\ m.count = n.count /\ m.strobed = n.strobed
         /\ \A port \in 0 .. MaxInputs :
              m.inputs[port] = IF port \in ports /\ port < n.count THEN number ELSE n.inputs[port]
         /\ m.strobe = IF n.strobed /\ n.count \in ports THEN number ELSE n.strobe
         /\ IF ports = {} THEN m = n ELSE recompute(m).result = m.result
<1> DEFINE put == StoredAt(n, ports, number)
<1>1. /\ put \in Operators
      /\ put.kind = n.kind /\ put.type = n.type /\ put.count = n.count /\ put.strobed = n.strobed
      /\ \A port \in 0 .. MaxInputs :
           put.inputs[port] = IF port \in ports /\ port < n.count THEN number ELSE n.inputs[port]
      /\ put.strobe = IF n.strobed /\ n.count \in ports THEN number ELSE n.strobe
  BY DEF StoredAt, Operators
<1>2. CASE ports = {}
  BY <1>2 DEF Updated
<1>3. CASE ports # {}
  <2>1. m = recompute(put)
    BY <1>3 DEF Updated
  <2> HIDE DEF put
  <2>2. /\ recompute(put) \in Operators
        /\ recompute(put) = [put EXCEPT !.result = recompute(put).result]
        /\ recompute(recompute(put)).result = recompute(put).result
    BY <1>1, RecomputeIs
  <2>3. /\ m.kind = put.kind /\ m.type = put.type /\ m.count = put.count /\ m.strobed = put.strobed
        /\ m.inputs = put.inputs /\ m.strobe = put.strobe
    BY <1>1, <2>1, <2>2 DEF Operators
  <2> QED BY <1>1, <1>3, <2>1, <2>2, <2>3
<1> QED BY <1>2, <1>3

(* Deliveries that tell of all that the sources and the wires change.      *)
LEMMA DeliveryKeeps ==
  ASSUME NumberInv, NEW ports, NEW number \in Stored,
         node' = Updated(node, ports, number), Displayed(node'), feeds' = feeds,
         source' \in [Sources -> SourceRecord], wires' \subseteq Sources \X (0 .. MaxInputs),
         \A v, w \in wires' : v[2] = w[2] => v = w,
         number # None =>
           \A port \in ports : \E s \in Sources : <<s, port>> \in wires' /\ source'[s].number = number,
         \A w \in wires : w[2] \notin ports =>
           w \in wires' /\ source'[w[1]].number = source[w[1]].number,
         \A w \in wires' :
           IF w[2] \in ports THEN source'[w[1]].number = number
           ELSE w \in wires /\ source'[w[1]].number = source[w[1]].number
  PROVE  NumberInv'
<1>1. /\ node \in Operators /\ node.count \in 2 .. MaxInputs
      /\ display \in [type : Types, shown : Seq(Int)] /\ feeds \in BOOLEAN
  BY DEF NumberInv, TypesOK, Operators
<1>2. /\ node' \in Operators
      /\ node'.kind = node.kind /\ node'.type = node.type /\ node'.count = node.count
      /\ node'.strobed = node.strobed
      /\ \A port \in 0 .. MaxInputs :
           node'.inputs[port] = IF port \in ports /\ port < node.count THEN number ELSE node.inputs[port]
      /\ node'.strobe = IF node.strobed /\ node.count \in ports THEN number ELSE node.strobe
      /\ IF ports = {} THEN node' = node ELSE recompute(node').result = node'.result
  BY <1>1, UpdatedIs
<1>3. /\ display' \in [type : Types, shown : Seq(Int)]
      /\ display'.shown = IF feeds THEN node'.result ELSE None
  <2>1. node'.result \in Seq(Int)
    BY <1>2 DEF Operators
  <2> QED BY <1>1, <2>1 DEF Displayed, setInData, NumberInv
<1>4. TypesOK'
  BY <1>1, <1>2, <1>3 DEF TypesOK
<1>5. PortsOK'
  <2>1. \A port \in 0 .. MaxInputs : port >= node.count => node'.inputs[port] = None
    BY <1>1, <1>2 DEF NumberInv, PortsOK
  <2>2. node'.strobe # None => node.strobed
    BY <1>2 DEF NumberInv, PortsOK
  <2> QED BY <1>2, <2>1, <2>2 DEF PortsOK
<1>6. InputsAreWired'
  <2>1. ASSUME NEW port \in ports, number # None
        PROVE  \E s \in Sources : <<s, port>> \in wires' /\ source'[s].number = number
    BY <2>1
  <2>2. ASSUME NEW port \in 0 .. MaxInputs, port \notin ports, NEW stored,
               \E s \in Sources : <<s, port>> \in wires /\ source[s].number = stored
        PROVE  \E s \in Sources : <<s, port>> \in wires' /\ source'[s].number = stored
    BY <2>2
  <2>3. ASSUME NEW port \in 0 .. node.count - 1, node'.inputs[port] # None
        PROVE  \E s \in Sources : <<s, port>> \in wires' /\ source'[s].number = node'.inputs[port]
    <3>1. port \in 0 .. MaxInputs /\ port < node.count
      BY <1>1, NumberFacts
    <3>2. CASE port \in ports
      <4>1. node'.inputs[port] = number
        BY <1>2, <3>1, <3>2
      <4> QED BY <2>3, <2>1, <3>2, <4>1
    <3>3. CASE port \notin ports
      <4>1. node'.inputs[port] = node.inputs[port]
        BY <1>2, <3>1, <3>3
      <4>2. \E s \in Sources : <<s, port>> \in wires /\ source[s].number = node.inputs[port]
        BY <2>3, <4>1 DEF NumberInv, InputsAreWired
      <4> QED BY <2>2, <3>1, <3>3, <4>1, <4>2
    <3> QED BY <3>2, <3>3
  <2>4. ASSUME node'.strobe # None
        PROVE  \E s \in Sources : <<s, node.count>> \in wires' /\ source'[s].number = node'.strobe
    <3>1. node.count \in 0 .. MaxInputs
      BY <1>1, NumberFacts
    <3>2. CASE node.strobed /\ node.count \in ports
      <4>1. node'.strobe = number
        BY <1>2, <3>2
      <4> QED BY <2>4, <2>1, <3>2, <4>1
    <3>3. CASE ~(node.strobed /\ node.count \in ports)
      <4>1. node.strobed /\ node.count \notin ports /\ node'.strobe = node.strobe
        BY <1>2, <2>4, <3>3 DEF NumberInv, PortsOK
      <4> QED BY <2>2, <2>4, <3>1, <4>1 DEF NumberInv, InputsAreWired
    <3> QED BY <3>2, <3>3
  <2>5. ASSUME NEW wire \in wires', wire[2] < 2
        PROVE  node'.inputs[wire[2]] = source'[wire[1]].number
    <3>1. wire[2] \in 0 .. MaxInputs /\ wire[2] < node.count
      BY <1>1, <2>5, NumberFacts
    <3> QED BY <1>2, <2>5, <3>1 DEF NumberInv, InputsAreWired
  <2> QED BY <1>2, <2>3, <2>4, <2>5 DEF InputsAreWired
<1>7. ResultIsOfInputs'
  <2>1. CASE ports = {}
    <3>1. node' = node /\ wires' \subseteq wires
      BY <1>2, <2>1
    <3> QED BY <3>1 DEF NumberInv, ResultIsOfInputs
  <2>2. CASE ports # {}
    BY <1>2, <2>2 DEF ResultIsOfInputs
  <2> QED BY <2>1, <2>2
<1> QED BY <1>2, <1>3, <1>4, <1>5, <1>6, <1>7 DEF NumberInv

(* Ports that are made anew hold nothing; wires beyond the second may stay.*)
LEMMA NewPortsKeep ==
  ASSUME NumberInv, NEW n \in Operators, \A port \in 0 .. MaxInputs : n.inputs[port] = None,
         n.strobe = None, n.kind = "modulo" => ~n.strobed, node' = recompute(n),
         wires' \subseteq wires, \A wire \in wires' : wire[2] >= 2, source' = source,
         feeds' \in BOOLEAN, display' \in [type : Types, shown : Seq(Int)],
         display'.shown = IF feeds' THEN node'.result ELSE None
  PROVE  NumberInv'
<1>1. /\ node' \in Operators /\ node' = [n EXCEPT !.result = recompute(n).result]
      /\ recompute(node').result = node'.result
  BY RecomputeIs
<1>2. /\ node'.kind = n.kind /\ node'.count = n.count /\ node'.strobed = n.strobed
      /\ node'.inputs = n.inputs /\ node'.strobe = None /\ n.count \in 2 .. MaxInputs
  BY <1>1 DEF Operators
<1>3. TypesOK'
  BY <1>1 DEF NumberInv, TypesOK
<1>4. PortsOK'
  BY <1>2, NumberFacts DEF NumberInv, PortsOK
<1>5. InputsAreWired'
  <2>1. \A wire \in wires' : ~(wire[2] < 2)
    BY DEF NumberInv, TypesOK
  <2>2. \A port \in 0 .. n.count - 1 : node'.inputs[port] = None
    BY <1>2, NumberFacts
  <2> QED BY <1>2, <2>1, <2>2 DEF InputsAreWired
<1>6. ResultIsOfInputs'
  BY <1>1 DEF ResultIsOfInputs
<1> QED BY <1>2, <1>3, <1>4, <1>5, <1>6 DEF NumberInv
-----------------------------------------------------------------------------
LEMMA InitNumberInv == Init => NumberInv
<1> SUFFICES ASSUME Init PROVE NumberInv
  OBVIOUS
<1>1. NoInputs \in [0 .. MaxInputs -> Stored] /\ None \in Stored /\ \A p \in 0 .. MaxInputs : NoInputs[p] = None
  BY DEF NoInputs, Stored
<1>2. ArithmeticLogicModel \in Operators /\ ModuloModel \in Operators
  <2>1. 2 \in 2 .. MaxInputs /\ "int" \in Types
    BY NumberFacts DEF Types
  <2> HIDE DEF None, NoInputs
  <2>2. ArithmeticLogicModel \in Operators
    BY <1>1, <2>1, NumberFacts DEF Operators, ArithmeticLogicModel
  <2>3. ModuloModel \in Operators
    BY <2>2 DEF Operators, ModuloModel
  <2> QED BY <2>2, <2>3
<1>3. /\ node \in Operators /\ node.inputs = NoInputs /\ node.strobe = None /\ node.result = None
      /\ ~node.strobed
  <2>1. /\ ArithmeticLogicModel.inputs = NoInputs /\ ModuloModel.inputs = NoInputs
        /\ ArithmeticLogicModel.strobe = None /\ ModuloModel.strobe = None
        /\ ArithmeticLogicModel.result = None /\ ModuloModel.result = None
        /\ ~ArithmeticLogicModel.strobed /\ ~ModuloModel.strobed
    BY DEF ArithmeticLogicModel, ModuloModel
  <2> QED BY <1>2, <2>1 DEF Init
<1>4. source \in [Sources -> SourceRecord]
  BY DEF Init, SourceRecord, NumberSourceDataModel, Stored, Number, Types
<1>5. TypesOK
  BY <1>3, <1>4, NumberFacts DEF Init, TypesOK, Types
<1>6. PortsOK
  BY <1>1, <1>3 DEF Init, PortsOK
<1>7. InputsAreWired
  <2>1. \A port \in 0 .. node.count - 1 : node.inputs[port] = None
    BY <1>1, <1>3, NumberFacts DEF Operators
  <2> QED BY <1>3, <2>1 DEF Init, InputsAreWired
<1> QED BY <1>3, <1>5, <1>6, <1>7 DEF Init, ResultIsOfInputs, NumberInv

(* What a source does reaches the inputs that are wired to it.             *)
LEMMA SourceSteps ==
  ASSUME NumberInv, NEW s \in Sources
  PROVE  /\ \A changed \in SourceRecord : Emits(s, changed) => NumberInv'
         /\ switchSourceType(s) => NumberInv'
<1> DEFINE ports == PortsOf(s, wires)
<1>1. /\ source \in [Sources -> SourceRecord] /\ wires \subseteq Sources \X (0 .. MaxInputs)
      /\ \A v, w \in wires : v[2] = w[2] => v = w
      /\ None \in Stored
  BY DEF NumberInv, TypesOK, PortsOK, Stored
<1>2. /\ \A port \in ports : <<s, port>> \in wires
      /\ \A w \in wires : w[2] \in ports <=> w[1] = s
  <2>1. \A w \in wires : w = <<w[1], w[2]>>
    BY <1>1
  <2>2. \A port \in ports : <<s, port>> \in wires
    BY <2>1 DEF PortsOf
  <2>3. ASSUME NEW w \in wires, w[2] \in ports PROVE w[1] = s
    <3>1. PICK v \in wires : v = <<s, w[2]>>
      BY <2>2, <2>3
    <3> QED BY <1>1, <3>1
  <2> QED BY <2>2, <2>3 DEF PortsOf
<1> HIDE DEF ports
<1>3. ASSUME NEW changed \in SourceRecord, Emits(s, changed)
      PROVE  NumberInv'
  <2>1. /\ source' = [source EXCEPT ![s] = changed] /\ wires' = wires /\ feeds' = feeds
        /\ node' = Updated(node, ports, changed.number) /\ Displayed(node')
    BY <1>3 DEF Emits, ports
  <2>2. changed.number \in Stored /\ source' \in [Sources -> SourceRecord]
    BY <1>1, <2>1 DEF SourceRecord
  <2>3. PICK number \in Stored : number = changed.number
    BY <2>2
  <2>4. node' = Updated(node, ports, number)
    BY <2>1, <2>3
  <2>5. /\ \A w \in wires : w[2] \notin ports =>
             w \in wires' /\ source'[w[1]].number = source[w[1]].number
        /\ \A w \in wires' : IF w[2] \in ports THEN source'[w[1]].number = number
                              ELSE w \in wires /\ source'[w[1]].number = source[w[1]].number
    BY <1>1, <1>2, <2>1, <2>3
  <2>6. \A port \in ports : \E t \in Sources : <<t, port>> \in wires' /\ source'[t].number = number
    BY <1>1, <1>2, <2>1, <2>3
  <2>7. wires' \subseteq Sources \X (0 .. MaxInputs) /\ \A v, w \in wires' : v[2] = w[2] => v = w
    BY <1>1, <2>1
  <2>8. feeds' = feeds /\ Displayed(node') /\ source' \in [Sources -> SourceRecord]
    BY <2>1, <2>2
  <2> QED BY <2>4, <2>5, <2>6, <2>7, <2>8, DeliveryKeeps
<1>4. ASSUME switchSourceType(s)
      PROVE  NumberInv'
  <2>1. /\ wires' = {wire \in wires : wire[1] # s} /\ feeds' = feeds
        /\ node' = Updated(node, ports, None) /\ Displayed(node')
    BY <1>4 DEF switchSourceType, ports
  <2>2. /\ source' \in [Sources -> SourceRecord]
        /\ \A t \in Sources : t # s => source'[t] = source[t]
    <3>1. PICK type \in Types, number \in Stored :
            source' = [source EXCEPT ![s] = [source[s] EXCEPT !.type = type, !.number = number]]
      <4> DEFINE type   == IF source[s].type = "int" THEN "double" ELSE "int"
                 number == IF source[s].random THEN None ELSE source[s].text
      <4>1. type \in Types /\ number \in Stored
        BY <1>1 DEF SourceRecord, Types
      <4>2. source' = [source EXCEPT ![s] = [source[s] EXCEPT !.type = type, !.number = number]]
        BY <1>1, <1>4 DEF switchSourceType, SourceRecord
      <4> QED BY <4>1, <4>2
    <3>2. [source[s] EXCEPT !.type = type, !.number = number] \in SourceRecord
      BY <1>1, <3>1 DEF SourceRecord
    <3> QED BY <1>1, <3>1, <3>2
  <2>3. \A w \in wires' : w \in wires /\ w[2] \notin ports /\ source'[w[1]].number = source[w[1]].number
    BY <1>1, <1>2, <2>1, <2>2
  <2>4. \A w \in wires : w[2] \notin ports => w \in wires' /\ source'[w[1]].number = source[w[1]].number
    BY <1>1, <1>2, <2>1, <2>2
  <2>5. wires' \subseteq Sources \X (0 .. MaxInputs) /\ \A v, w \in wires' : v[2] = w[2] => v = w
    BY <1>1, <2>1
  <2>6. PICK number \in Stored : number = None
    BY <1>1
  <2>7. node' = Updated(node, ports, number)
    BY <2>1, <2>6
  <2> QED BY <2>1, <2>2, <2>3, <2>4, <2>5, <2>6, <2>7, DeliveryKeeps
<1> QED BY <1>3, <1>4

(* A wire more delivers, and a wire less takes away, at its own port.      *)
LEMMA WireSteps ==
  ASSUME NumberInv
  PROVE  /\ \A s \in Sources, port \in 0 .. MaxInputs : Connect(s, port) => NumberInv'
         /\ \A wire \in wires : Disconnect(wire) => NumberInv'
<1>1. /\ source \in [Sources -> SourceRecord] /\ wires \subseteq Sources \X (0 .. MaxInputs)
      /\ \A v, w \in wires : v[2] = w[2] => v = w
      /\ None \in Stored
  BY DEF NumberInv, TypesOK, PortsOK, Stored
<1>2. ASSUME NEW s \in Sources, NEW port \in 0 .. MaxInputs, Connect(s, port)
      PROVE  NumberInv'
  <2>1. /\ wires' = wires \cup {<<s, port>>} /\ feeds' = feeds /\ source' = source
        /\ node' = Updated(node, {port}, source[s].number) /\ Displayed(node')
        /\ \A w \in wires : w[2] # port
    BY <1>2 DEF Connect
  <2>2. source[s].number \in Stored
    BY <1>1 DEF SourceRecord
  <2>3. wires' \subseteq Sources \X (0 .. MaxInputs) /\ \A v, w \in wires' : v[2] = w[2] => v = w
    BY <1>1, <2>1
  <2>4. \A w \in wires' : IF w[2] \in {port} THEN source'[w[1]].number = source[s].number
                           ELSE w \in wires /\ source'[w[1]].number = source[w[1]].number
    BY <2>1
  <2>5. \A w \in wires : w \in wires' /\ source'[w[1]].number = source[w[1]].number
    BY <2>1
  <2>6. \A p \in {port} : \E t \in Sources : <<t, p>> \in wires' /\ source'[t].number = source[s].number
    BY <2>1
  <2> QED BY <1>1, <2>1, <2>2, <2>3, <2>4, <2>5, <2>6, DeliveryKeeps
<1>3. ASSUME NEW wire \in wires, Disconnect(wire)
      PROVE  NumberInv'
  <2>1. /\ wires' = wires \ {wire} /\ feeds' = feeds /\ source' = source
        /\ node' = Updated(node, {wire[2]}, None) /\ Displayed(node')
    BY <1>3 DEF Disconnect
  <2>2. wires' \subseteq Sources \X (0 .. MaxInputs) /\ \A v, w \in wires' : v[2] = w[2] => v = w
    BY <1>1, <2>1
  <2>3. \A w \in wires' : w \in wires /\ w[2] \notin {wire[2]} /\ source'[w[1]].number = source[w[1]].number
    BY <1>1, <2>1
  <2>4. \A w \in wires : w[2] \notin {wire[2]} => w \in wires' /\ source'[w[1]].number = source[w[1]].number
    BY <2>1
  <2> HIDE DEF None
  <2> QED BY <1>1, <2>1, <2>2, <2>3, <2>4, DeliveryKeeps
<1> QED BY <1>2, <1>3
(* The slots of a source.                                                  *)
LEMMA TextSteps ==
  ASSUME NumberInv, NEW s \in Sources
  PROVE  /\ \A text \in Stored : onTextEdited(s, text) => NumberInv'
         /\ \A number \in Number : generateRandom(s, number) => NumberInv'
         /\ onRandomToggled(s) => NumberInv'
<1>1. source \in [Sources -> SourceRecord]
  BY DEF NumberInv, TypesOK
<1>2. ASSUME source' \in [Sources -> SourceRecord], \A t \in Sources : source'[t].number = source[t].number,
             UNCHANGED <<node, wires, feeds, display>>
      PROVE  NumberInv'
  <2>1. TypesOK' /\ PortsOK' /\ ResultIsOfInputs'
    BY <1>2 DEF NumberInv, TypesOK, PortsOK, ResultIsOfInputs
  <2>2. \A wire \in wires : wire[1] \in Sources
    BY DEF NumberInv, TypesOK
  <2>3. InputsAreWired'
    <3>1. \A port, number : (\E t \in Sources : <<t, port>> \in wires /\ source[t].number = number)
                             => \E t \in Sources : <<t, port>> \in wires' /\ source'[t].number = number
      BY <1>2
    <3>2. \A wire \in wires : source'[wire[1]].number = source[wire[1]].number
      BY <1>2, <2>2
    <3> QED BY <1>2, <3>1, <3>2 DEF NumberInv, InputsAreWired
  <2> QED BY <1>2, <2>1, <2>3 DEF NumberInv
<1>3. \A text \in Stored : [source[s] EXCEPT !.text = text] \in SourceRecord
  BY <1>1 DEF SourceRecord
<1>4. \A number \in Stored : [source[s] EXCEPT !.text = number, !.number = number] \in SourceRecord
  BY <1>1 DEF SourceRecord
<1>5. ASSUME NEW text \in Stored, onTextEdited(s, text)
      PROVE  NumberInv'
  <2>1. CASE text # None
    BY <1>4, <1>5, <2>1, SourceSteps DEF onTextEdited
  <2>2. CASE text = None
    <3>1. source' = [source EXCEPT ![s] = [source[s] EXCEPT !.text = text]]
      BY <1>1, <1>5, <2>2 DEF onTextEdited
    <3>2. source' \in [Sources -> SourceRecord]
      BY <1>1, <1>3, <3>1
    <3>3. \A t \in Sources : source'[t].number = source[t].number
      BY <1>1, <3>1 DEF SourceRecord
    <3> QED BY <1>2, <1>5, <2>2, <3>2, <3>3 DEF onTextEdited
  <2> QED BY <2>1, <2>2
<1>6. ASSUME NEW number \in Number, generateRandom(s, number)
      PROVE  NumberInv'
  BY <1>4, <1>6, SourceSteps DEF generateRandom, Stored
<1>7. ASSUME onRandomToggled(s)
      PROVE  NumberInv'
  <2>1. source' \in [Sources -> SourceRecord]
    BY <1>1, <1>7 DEF onRandomToggled, SourceRecord
  <2>2. \A t \in Sources : source'[t].number = source[t].number
    BY <1>1, <1>7 DEF onRandomToggled, SourceRecord
  <2> QED BY <1>2, <1>7, <2>1, <2>2 DEF onRandomToggled
<1> QED BY <1>5, <1>6, <1>7

(* The slots of the operator that make its ports anew.                     *)
LEMMA PortSteps ==
  ASSUME NumberInv
  PROVE  /\ switchType => NumberInv'
         /\ \A count \in 2 .. MaxInputs : switchInputCount(count) => NumberInv'
         /\ onStrobeToggled => NumberInv'
<1>1. /\ node \in Operators /\ node.count \in 2 .. MaxInputs /\ nPorts(node) >= 2
      /\ display \in [type : Types, shown : Seq(Int)] /\ feeds \in BOOLEAN
  BY DEF NumberInv, TypesOK, Operators, nPorts
<1>2. /\ NoInputs \in [0 .. MaxInputs -> Stored] /\ None \in Stored
      /\ \A port \in 0 .. MaxInputs : NoInputs[port] = None
  BY DEF NoInputs, Stored
<1>3. \A n \in 2 .. MaxInputs + 1 : Cut(n) \subseteq wires /\ \A wire \in Cut(n) : wire[2] >= 2
  BY NumberFacts DEF Cut, NumberInv, TypesOK
<1>4. \A n \in Operators : nPorts(n) \in 2 .. MaxInputs + 1
  BY NumberFacts DEF nPorts, Operators
<1>5. ASSUME node' \in Operators, feeds' = feeds, Displayed(node')
      PROVE  /\ feeds' \in BOOLEAN /\ display' \in [type : Types, shown : Seq(Int)]
             /\ display'.shown = IF feeds' THEN node'.result ELSE None
  <2>1. node'.result \in Seq(Int)
    BY <1>5 DEF Operators
  <2> QED BY <1>1, <1>5, <2>1 DEF Displayed, setInData, NumberInv
<1>6. ASSUME switchType
      PROVE  NumberInv'
  <2> DEFINE n == [node EXCEPT !.type = IF @ = "int" THEN "double" ELSE "int",
                               !.inputs = NoInputs, !.strobe = None, !.result = None]
  <2> HIDE DEF None
  <2>1. /\ n \in Operators /\ n.inputs = NoInputs /\ n.strobe = None /\ n.result = None
        /\ n.kind = node.kind /\ n.strobed = node.strobed
    BY <1>1, <1>2, NumberFacts DEF Operators, Types
  <2>2. node' = (IF node.kind = "modulo" THEN n ELSE recompute(n)) /\ wires' = Cut(nPorts(node))
    BY <1>6 DEF switchType
  <2> HIDE DEF n
  <2>3. n.kind = "modulo" => recompute(n) = n
    <3>1. n.inputs[0] = None
      BY <1>2, <2>1, NumberFacts
    <3>2. ModuloResult(n) = n.result
      BY <2>1, <3>1 DEF ModuloResult
    <3> QED BY <2>1, <3>2 DEF recompute, Operators
  <2>4. node' = recompute(n)
    BY <2>1, <2>2, <2>3
  <2>5. /\ feeds' \in BOOLEAN /\ display' \in [type : Types, shown : Seq(Int)]
        /\ display'.shown = IF feeds' THEN node'.result ELSE None
    BY <1>1, <1>6, NumberFacts DEF switchType, setInData, NumberInv
  <2>6. source' = source
    BY <1>6 DEF switchType
  <2>7. \A port \in 0 .. MaxInputs : n.inputs[port] = None
    BY <1>2, <2>1
  <2>8. n.kind = "modulo" => ~n.strobed
    BY <2>1 DEF NumberInv
  <2> QED BY <1>1, <1>3, <1>4, <2>1, <2>2, <2>4, <2>5, <2>6, <2>7, <2>8, NewPortsKeep
<1>7. ASSUME NEW count \in 2 .. MaxInputs, switchInputCount(count)
      PROVE  NumberInv'
  <2> DEFINE strobe == IF \E wire \in wires : wire[2] = node.count THEN None ELSE node.strobe
             n == [node EXCEPT !.strobe = strobe, !.inputs = NoInputs, !.count = count]
  <2>1. strobe = None
    BY DEF NumberInv, InputsAreWired
  <2>2. node' = recompute([[node EXCEPT !.strobe = strobe] EXCEPT !.inputs = NoInputs, !.count = count])
    BY <1>1, <1>7 DEF switchInputCount, Operators
  <2> HIDE DEF strobe
  <2>3. /\ n \in Operators /\ n.inputs = NoInputs /\ n.strobe = None
        /\ n.kind = "arithmetic"
        /\ n = [[node EXCEPT !.strobe = strobe] EXCEPT !.inputs = NoInputs, !.count = count]
    BY <1>1, <1>2, <1>7, <2>1 DEF switchInputCount, Operators
  <2> HIDE DEF n
  <2>4. node' = recompute(n) /\ node' \in Operators
    BY <2>2, <2>3, RecomputeIs
  <2>5. wires' = Cut(nPorts(node)) /\ source' = source /\ feeds' = feeds /\ Displayed(node')
    BY <1>7 DEF switchInputCount
  <2>6. \A port \in 0 .. MaxInputs : n.inputs[port] = None
    BY <1>2, <2>3
  <2> QED BY <1>1, <1>3, <1>4, <1>5, <2>3, <2>4, <2>5, <2>6, NewPortsKeep
<1>8. ASSUME onStrobeToggled
      PROVE  NumberInv'
  <2> DEFINE cut == [port \in DOMAIN node.inputs |->
                       IF \E wire \in wires : wire[2] = port THEN None ELSE node.inputs[port]]
             toggled == [node EXCEPT !.strobed = ~@, !.strobe = None]
             n == [toggled EXCEPT !.inputs = cut]
  <2>1. cut = NoInputs
    <3>1. ASSUME NEW port \in 0 .. MaxInputs, node.inputs[port] # None
          PROVE  \E wire \in wires : wire[2] = port
      <4>1. port \in 0 .. node.count - 1
        BY <1>1, <3>1 DEF NumberInv, PortsOK
      <4>2. PICK s \in Sources : <<s, port>> \in wires
        BY <3>1, <4>1 DEF NumberInv, InputsAreWired
      <4> QED BY <4>2
    <3>2. DOMAIN node.inputs = 0 .. MaxInputs
      BY <1>1 DEF Operators
    <3> QED BY <3>1, <3>2 DEF NoInputs
  <2>2. node' = recompute(n) /\ wires' = Cut(nPorts(toggled)) /\ node.kind = "arithmetic"
    BY <1>8 DEF onStrobeToggled
  <2> HIDE DEF cut
  <2>3. toggled \in Operators /\ toggled.kind = node.kind /\ toggled.strobe = None
    BY <1>1, <1>2 DEF Operators
  <2>4. nPorts(toggled) \in 2 .. MaxInputs + 1
    <3> HIDE DEF toggled
    <3> QED BY <1>4, <2>3
  <2> HIDE DEF toggled
  <2>5. n \in Operators /\ n.inputs = NoInputs /\ n.strobe = None /\ n.kind = "arithmetic"
    BY <1>2, <2>1, <2>2, <2>3 DEF Operators
  <2> HIDE DEF n
  <2>6. node' \in Operators
    BY <2>2, <2>5, RecomputeIs
  <2>7. source' = source /\ feeds' = feeds /\ Displayed(node')
    BY <1>8 DEF onStrobeToggled
  <2>8. \A port \in 0 .. MaxInputs : n.inputs[port] = None
    BY <1>2, <2>5
  <2> QED BY <1>3, <1>5, <2>2, <2>4, <2>5, <2>6, <2>7, <2>8, NewPortsKeep
<1> QED BY <1>6, <1>7, <1>8

(* The slots that leave the ports alone.                                   *)
LEMMA OtherSteps ==
  ASSUME NumberInv
  PROVE  /\ \A expr \in Expressions : onExpressionChanged(expr) => NumberInv'
         /\ Feed \/ Unfeed \/ switchDisplayType => NumberInv'
<1>1. /\ node \in Operators /\ display \in [type : Types, shown : Seq(Int)] /\ feeds \in BOOLEAN
      /\ node.result \in Seq(Int)
  BY DEF NumberInv, TypesOK, Operators
<1>2. ASSUME NEW expr \in Expressions, onExpressionChanged(expr)
      PROVE  NumberInv'
  <2> DEFINE n == [node EXCEPT !.expr = expr]
  <2>1. /\ n \in Operators /\ n.inputs = node.inputs /\ n.strobe = node.strobe /\ n.count = node.count
        /\ n.strobed = node.strobed /\ n.kind = node.kind
    BY <1>1 DEF Operators
  <2>2. node' = recompute(n)
    BY <1>2 DEF onExpressionChanged
  <2> HIDE DEF n
  <2>3. /\ node' \in Operators /\ node' = [n EXCEPT !.result = recompute(n).result]
        /\ recompute(node').result = node'.result
    BY <2>1, <2>2, RecomputeIs
  <2>4. /\ node'.inputs = node.inputs /\ node'.strobe = node.strobe /\ node'.count = node.count
        /\ node'.strobed = node.strobed /\ node'.kind = node.kind /\ node'.result \in Seq(Int)
    BY <2>1, <2>3 DEF Operators
  <2>5. /\ display' \in [type : Types, shown : Seq(Int)]
        /\ display'.shown = IF feeds' THEN node'.result ELSE None
    BY <1>1, <1>2, <2>4 DEF onExpressionChanged, Displayed, setInData, NumberInv
  <2>6. UNCHANGED <<source, wires, feeds>>
    BY <1>2 DEF onExpressionChanged
  <2>7. TypesOK'
    BY <1>1, <2>3, <2>5, <2>6 DEF NumberInv, TypesOK
  <2>8. PortsOK' /\ ResultIsOfInputs'
    BY <2>3, <2>4, <2>6 DEF NumberInv, PortsOK, ResultIsOfInputs
  <2>9. InputsAreWired'
    BY <2>4, <2>6 DEF NumberInv, InputsAreWired
  <2> QED BY <2>4, <2>5, <2>7, <2>8, <2>9 DEF NumberInv
<1>3. ASSUME Feed \/ Unfeed \/ switchDisplayType
      PROVE  NumberInv'
  <2>1. UNCHANGED <<source, node, wires>> /\ feeds' \in BOOLEAN
    BY <1>3 DEF Feed, Unfeed, switchDisplayType
  <2>2. /\ display' \in [type : Types, shown : Seq(Int)]
        /\ display'.shown = IF feeds' THEN node.result ELSE None
    BY <1>1, <1>3, NumberFacts DEF Feed, Unfeed, switchDisplayType, setInData, Types
  <2>3. TypesOK' /\ PortsOK' /\ InputsAreWired' /\ ResultIsOfInputs'
    BY <2>1, <2>2 DEF NumberInv, TypesOK, PortsOK, InputsAreWired, ResultIsOfInputs
  <2> QED BY <2>1, <2>2, <2>3 DEF NumberInv
<1> QED BY <1>2, <1>3

LEMMA NextNumberInv == NumberInv /\ [Next]_vars => NumberInv'
<1> SUFFICES ASSUME NumberInv, [Next]_vars PROVE NumberInv'
  OBVIOUS
<1>1. CASE UNCHANGED vars
  BY <1>1 DEF vars, NumberInv, TypesOK, PortsOK, InputsAreWired, ResultIsOfInputs
<1>2. CASE Next
  BY <1>2, TextSteps, SourceSteps, WireSteps, PortSteps, OtherSteps DEF Next, Stored
<1> QED BY <1>1, <1>2

(* Whatever is typed, wired and switched, what the operator has stored is  *)
(* what the wires carry: setInData, portsAboutToBeDeleted, recompute.      *)
THEOREM NumberInvariant == Spec => []NumberInv
  BY InitNumberInv, NextNumberInv, PTL DEF Spec

(* The display shows what the expression, or the quotient's remainder, is  *)
(* of the numbers that the sources hold now, for any number of sources and *)
(* inputs and any expressions (ArithmeticLogicModel, ModuloModel).         *)
THEOREM NumbersStayCurrent == Spec => []NumbersAreCurrent
<1>1. NumberInv => NumbersAreCurrent
  <2> SUFFICES ASSUME NumberInv PROVE NumbersAreCurrent
    OBVIOUS
  <2>1. Expected = recompute(node).result
    BY ExpectedIs
  <2> QED BY <2>1 DEF NumberInv, ResultIsOfInputs, NumbersAreCurrent, DisplayIsCurrent
<1> QED BY <1>1, NumberInvariant, PTL
-----------------------------------------------------------------------------
(* A set of numbers has a least one, as strict inclusion of finite sets is *)
(* well founded; so what holds of 0 and of each next number holds of all.  *)
LEMMA LeastNumber ==
  ASSUME NEW T \in SUBSET Nat, T # {}
  PROVE  \E n \in T : \A m \in T : n <= m
  <1> DEFINE Below == {0 .. n - 1 : n \in T}
             R == StrictSubsetOrdering(Nat)
  <1>1. Below \subseteq FiniteSubsetsOf(Nat) /\ Below # {}
    <2>1. ASSUME NEW n \in T PROVE 0 .. n - 1 \in FiniteSubsetsOf(Nat)
      <3>1. IsFiniteSet(0 .. n - 1)
        BY FS_Interval
      <3> QED BY <3>1 DEF FiniteSubsetsOf
    <2> QED BY <2>1
  <1>2. IsWellFoundedOn(R, FiniteSubsetsOf(Nat))
    BY FS_StrictSubsetOrderingWellFounded
  <1>3. PICK B \in Below : \A C \in Below : ~(<<C, B>> \in R)
    <2> HIDE DEF Below, R
    <2> QED BY <1>1, <1>2, WFMin
  <1>4. PICK n \in T : B = 0 .. n - 1
    OBVIOUS
  <1>5. ASSUME NEW m \in T, m < n PROVE FALSE
    <2>1. 0 .. m - 1 \subseteq B /\ 0 .. m - 1 # B
      BY <1>4, <1>5
    <2>2. <<0 .. m - 1, B>> \in R
      <3>1. PICK C : C = 0 .. m - 1
        OBVIOUS
      <3>2. C \in SUBSET Nat /\ B \in SUBSET Nat /\ C \subseteq B /\ C # B
        BY <1>4, <2>1, <3>1
      <3>3. <<C, B>> \in R
        BY <3>2 DEF StrictSubsetOrdering
      <3> QED BY <3>1, <3>3
    <2> QED BY <1>3, <2>2
  <1> QED BY <1>5

LEMMA SetInduction ==
  ASSUME NEW N \in Nat, NEW T, 0 \in T, \A n \in 0 .. N - 1 : n \in T => n + 1 \in T
  PROVE  \A n \in 0 .. N : n \in T
  <1> DEFINE Out == {n \in 0 .. N : n \notin T}
  <1> SUFFICES ASSUME Out # {} PROVE FALSE
    OBVIOUS
  <1>1. Out \in SUBSET Nat
    OBVIOUS
  <1>2. PICK n \in Out : \A m \in Out : n <= m
    <2> HIDE DEF Out
    <2> QED BY <1>1, LeastNumber
  <1>3. n \in 0 .. N /\ n \notin T /\ n # 0
    BY <1>2
  <1>4. n - 1 \in 0 .. N - 1 /\ n - 1 + 1 = n
    BY <1>3
  <1>5. n - 1 \notin Out
    BY <1>2, <1>3
  <1> QED BY <1>3, <1>4, <1>5

(* A recursion over the numbers up to N defines a function.                *)
Recurses(f, N, S, base, step) ==
  f \in [0 .. N -> S] /\ f[0] = base /\ \A n \in 1 .. N : f[n] = step[n][f[n - 1]]

LEMMA Recursion ==
  ASSUME NEW N \in Nat, NEW S, NEW base \in S, NEW step \in [1 .. N -> [S -> S]]
  PROVE  \E f : Recurses(f, N, S, base, step)
  <1> DEFINE Good(g, n) == /\ g \in [0 .. N -> S] /\ g[0] = base
                           /\ \A k \in 1 .. n : g[k] = step[k][g[k - 1]]
             T == {n \in 0 .. N : \E g \in [0 .. N -> S] : Good(g, n)}
  <1>1. 0 \in T
    <2>1. PICK g : g = [n \in 0 .. N |-> base]
      OBVIOUS
    <2>2. Good(g, 0)
      BY <2>1
    <2> QED BY <2>2
  <1>2. ASSUME NEW n \in 0 .. N - 1, n \in T PROVE n + 1 \in T
    <2>1. PICK g \in [0 .. N -> S] : Good(g, n)
      BY <1>2
    <2>2. n + 1 \in 1 .. N /\ n \in 0 .. N
      OBVIOUS
    <2>3. PICK x \in S : x = step[n + 1][g[n]]
      BY <2>1, <2>2
    <2>4. PICK h : h = [g EXCEPT ![n + 1] = x]
      OBVIOUS
    <2>5. h \in [0 .. N -> S] /\ \A k \in 0 .. N : h[k] = IF k = n + 1 THEN x ELSE g[k]
      BY <2>1, <2>2, <2>4
    <2>6. ASSUME NEW k \in 1 .. n + 1 PROVE h[k] = step[k][h[k - 1]]
      <3>1. k \in 0 .. N /\ k - 1 \in 0 .. N /\ k - 1 # n + 1
        BY <2>2
      <3>2. CASE k = n + 1
        BY <2>3, <2>5, <3>1, <3>2
      <3>3. CASE k # n + 1
        <4>1. k \in 1 .. n
          BY <3>3
        <4> QED BY <2>1, <2>5, <3>1, <3>3, <4>1
      <3> QED BY <3>2, <3>3
    <2>7. h[0] = base
      BY <2>1, <2>5
    <2> QED BY <2>2, <2>5, <2>6, <2>7
  <1> HIDE DEF T
  <1>3. \A n \in 0 .. N : n \in T
    BY <1>1, <1>2, SetInduction
  <1>4. N \in T
    BY <1>3
  <1> QED BY <1>4 DEF T, Recurses

(* What holds for 0 and is handed on holds for all numbers up to N.        *)
Alike(f, g, N) == f[0] = g[0] /\ \A k \in 1 .. N : f[k - 1] = g[k - 1] => f[k] = g[k]

LEMMA Agree ==
  ASSUME NEW N \in Nat, NEW f, NEW g, Alike(f, g, N)
  PROVE  \A k \in 0 .. N : f[k] = g[k]
  <1> DEFINE T == {k \in 0 .. N : f[k] = g[k]}
  <1>1. 0 \in T
    BY DEF Alike
  <1>2. ASSUME NEW k \in 0 .. N - 1, k \in T PROVE k + 1 \in T
    <2>1. k + 1 \in 1 .. N /\ k + 1 - 1 = k
      OBVIOUS
    <2> QED BY <1>2, <2>1 DEF Alike
  <1> HIDE DEF T
  <1>3. \A k \in 0 .. N : k \in T
    BY <1>1, <1>2, SetInduction
  <1> QED BY <1>3 DEF T
-----------------------------------------------------------------------------
(* Sums.                                                                   *)

(* t[k] is the sum of the first k of the numbers f.                        *)
IsTotal(t, f, n) == t \in [0 .. n -> Int] /\ t[0] = 0 /\ \A k \in 1 .. n : t[k] = t[k - 1] + f[k]

LEMMA TotalIs ==
  ASSUME NEW n \in Nat, NEW f \in [1 .. n -> Int]
  PROVE  \E t : IsTotal(t, f, n) /\ Total(f, n) = t[n]
  <1> DEFINE Is(t) == t = [k \in 0 .. n |-> IF k = 0 THEN 0 ELSE t[k - 1] + f[k]]
  <1>0. PICK S, base : S = Int /\ base = 0
    OBVIOUS
  <1>1. PICK step : step = [k \in 1 .. n |-> [x \in S |-> x + f[k]]]
    OBVIOUS
  <1>2. step \in [1 .. n -> [S -> S]] /\ base \in S
    <2>1. ASSUME NEW k \in 1 .. n PROVE [x \in S |-> x + f[k]] \in [S -> S]
      <3>1. f[k] \in Int
        OBVIOUS
      <3> QED BY <1>0, <3>1
    <2> QED BY <1>0, <1>1, <2>1
  <1>3. PICK t : Recurses(t, n, S, base, step)
    BY <1>2, Recursion
  <1>4. t \in [0 .. n -> Int] /\ t[0] = 0 /\ \A k \in 1 .. n : t[k] = step[k][t[k - 1]]
    BY <1>0, <1>3 DEF Recurses
  <1>5. ASSUME NEW k \in 1 .. n PROVE t[k] = t[k - 1] + f[k]
    <2>1. k - 1 \in 0 .. n
      OBVIOUS
    <2>2. t[k - 1] \in Int
      BY <1>4, <2>1
    <2>3. step[k][t[k - 1]] = t[k - 1] + f[k]
      BY <1>0, <1>1, <2>2
    <2> QED BY <1>4, <2>3
  <1>6. Is(t)
    <2>1. ASSUME NEW k \in 0 .. n PROVE t[k] = IF k = 0 THEN 0 ELSE t[k - 1] + f[k]
      BY <1>4, <1>5
    <2> QED BY <1>4, <2>1
  <1>7. PICK c : c = (CHOOSE u : Is(u))
    OBVIOUS
  <1>8. Is(c)
    BY <1>6, <1>7
  <1>9. Total(f, n) = c[n]
    BY <1>7 DEF Total
  <1>10. c[0] = t[0]
    BY <1>8, <1>4
  <1>11. \A k \in 1 .. n : c[k - 1] = t[k - 1] => c[k] = t[k]
    <2>1. ASSUME NEW k \in 1 .. n, c[k - 1] = t[k - 1] PROVE c[k] = t[k]
      <3>1. c[k] = c[k - 1] + f[k]
        BY <1>8
      <3> QED BY <1>5, <2>1, <3>1
    <2> QED BY <2>1
  <1> HIDE DEF Is
  <1>12. \A k \in 0 .. n : c[k] = t[k]
    <2>1. Alike(c, t, n)
      BY <1>10, <1>11 DEF Alike
    <2> QED BY <2>1, Agree
  <1>13. n \in 0 .. n
    OBVIOUS
  <1> QED BY <1>4, <1>5, <1>9, <1>12, <1>13 DEF IsTotal

(* The greatest of numbers up to a limit is one of them, and none is above. *)
LEMMA MaxOf ==
  ASSUME NEW K \in Nat, NEW S \in SUBSET (0 .. K), S # {}
  PROVE  Max(S) \in S /\ \A x \in S : x <= Max(S)
  <1> DEFINE T == {K - x : x \in S}
  <1>1. T \in SUBSET Nat /\ T # {}
    <2>1. \A x \in S : K - x \in Nat
      OBVIOUS
    <2>2. PICK x : x \in S
      OBVIOUS
    <2>3. K - x \in T
      BY <2>2
    <2> QED BY <2>1, <2>3
  <1>2. PICK n \in T : \A m \in T : n <= m
    <2> HIDE DEF T
    <2> QED BY <1>1, LeastNumber
  <1>3. PICK x \in S : n = K - x
    BY <1>2
  <1>4. \A y \in S : x >= y
    <2> SUFFICES ASSUME NEW y \in S PROVE x >= y
      OBVIOUS
    <2>1. n <= K - y
      BY <1>2
    <2> QED BY <1>3, <2>1
  <1>5. PICK most \in S : most = Max(S) /\ \A y \in S : most >= y
    BY <1>4 DEF Max
  <1>6. \A y \in S : y <= most
    BY <1>5
  <1> QED BY <1>5, <1>6

(* Finitely many numbers have a limit.                                     *)
LEMMA LimitOf ==
  ASSUME NEW n \in Nat, NEW f \in [1 .. n -> Nat]
  PROVE  \E K \in Nat : \A i \in 1 .. n : f[i] <= K
  <1> DEFINE T == {k \in 0 .. n : \E K \in Nat : \A i \in 1 .. k : f[i] <= K}
  <1>1. 0 \in T
    OBVIOUS
  <1>2. ASSUME NEW k \in 0 .. n - 1, k \in T PROVE k + 1 \in T
    <2>1. PICK K \in Nat : \A i \in 1 .. k : f[i] <= K
      BY <1>2
    <2>2. PICK j \in 1 .. n : j = k + 1
      OBVIOUS
    <2>3. PICK y \in Nat : y = f[j]
      OBVIOUS
    <2>4. PICK M \in Nat : M >= K /\ M >= y
      <3>1. IF K >= y THEN K >= K /\ K >= y ELSE y >= K /\ y >= y
        OBVIOUS
      <3> QED BY <3>1
    <2>5. \A i \in 1 .. k + 1 : f[i] <= M
      <3> SUFFICES ASSUME NEW i \in 1 .. k + 1 PROVE f[i] <= M
        OBVIOUS
      <3>1. CASE i = j
        BY <2>3, <2>4, <3>1
      <3>2. CASE i # j
        <4>1. i \in 1 .. k /\ i \in 1 .. n
          BY <2>2, <3>2
        <4>2. f[i] \in Nat /\ f[i] <= K
          BY <2>1, <4>1
        <4> QED BY <2>4, <4>2
      <3> QED BY <3>1, <3>2
    <2>6. \E L \in Nat : \A i \in 1 .. k + 1 : f[i] <= L
      BY <2>5, Zenon
    <2>7. k + 1 \in 0 .. n
      OBVIOUS
    <2> QED BY <2>6, <2>7, Zenon
  <1> HIDE DEF T
  <1>3. \A k \in 0 .. n : k \in T
    BY <1>1, <1>2, SetInduction
  <1>4. n \in T
    BY <1>3
  <1> QED BY <1>4 DEF T

LEMMA MostOf ==
  ASSUME NEW n \in Nat, NEW f \in [1 .. n -> Nat]
  PROVE  \A S : S = {0} \cup {f[i] : i \in 1 .. n} =>
           Max(S) \in Nat /\ \A i \in 1 .. n : f[i] <= Max(S)
  <1> SUFFICES ASSUME NEW S, S = {0} \cup {f[i] : i \in 1 .. n}
               PROVE  Max(S) \in Nat /\ \A i \in 1 .. n : f[i] <= Max(S)
    OBVIOUS
  <1>1. PICK K \in Nat : \A i \in 1 .. n : f[i] <= K
    BY LimitOf
  <1>2. S \in SUBSET (0 .. K) /\ S # {}
    BY <1>1
  <1>3. Max(S) \in S /\ \A x \in S : x <= Max(S)
    BY <1>2, MaxOf
  <1> QED BY <1>2, <1>3

(* A sum of what is not negative grows from term to term.                  *)
LEMMA TotalGrows ==
  ASSUME NEW n \in Nat, NEW f \in [1 .. n -> Nat], NEW t, IsTotal(t, f, n),
         NEW i \in 1 .. n, NEW j \in i .. n
  PROVE  t[i - 1] \in Int /\ t[j] \in Int /\ t[i - 1] + f[i] <= t[j]
  <1>1. t \in [0 .. n -> Int] /\ \A k \in 1 .. n : t[k] = t[k - 1] + f[k]
    BY DEF IsTotal
  <1>2. PICK b \in Int : b = t[i - 1] + f[i]
    <2>1. i - 1 \in 0 .. n /\ f[i] \in Nat
      OBVIOUS
    <2> QED BY <1>1, <2>1
  <1> DEFINE T == {k \in 0 .. n : k >= i => b <= t[k]}
  <1>3. 0 \in T
    OBVIOUS
  <1>4. ASSUME NEW k \in 0 .. n - 1, k \in T PROVE k + 1 \in T
    <2>1. PICK m \in 1 .. n : m = k + 1 /\ m - 1 = k
      OBVIOUS
    <2>2. t[m] = t[k] + f[m] /\ t[k] \in Int /\ f[m] \in Nat
      BY <1>1, <2>1
    <2>3. CASE m = i
      <3>1. b = t[m]
        BY <1>2, <2>1, <2>2, <2>3
      <3> QED BY <2>1, <3>1
    <2>4. CASE m > i
      <3>1. b <= t[k]
        BY <1>4, <2>1, <2>4
      <3>2. b <= t[m]
        BY <2>2, <3>1
      <3> QED BY <2>1, <3>2
    <2>5. CASE m < i
      BY <2>1, <2>5
    <2> QED BY <2>3, <2>4, <2>5
  <1> HIDE DEF T
  <1>5. \A k \in 0 .. n : k \in T
    BY <1>3, <1>4, SetInduction
  <1>6. j \in 0 .. n /\ j \in T /\ j >= i /\ i - 1 \in 0 .. n
    BY <1>5
  <1> QED BY <1>1, <1>2, <1>6 DEF T

(* Totals of numbers between two bounds.                                   *)
LEMMA TotalBounds ==
  ASSUME NEW n \in Nat, NEW f \in [1 .. n -> Int], NEW low \in Int, NEW high \in Int,
         \A k \in 1 .. n : low <= f[k] /\ f[k] <= high
  PROVE  Total(f, n) \in Int /\ n * low <= Total(f, n) /\ Total(f, n) <= n * high
  <1>1. PICK t : IsTotal(t, f, n) /\ Total(f, n) = t[n]
    BY TotalIs
  <1> DEFINE T == {k \in 0 .. n : k * low <= t[k] /\ t[k] <= k * high}
  <1>2. t \in [0 .. n -> Int] /\ t[0] = 0 /\ \A k \in 1 .. n : t[k] = t[k - 1] + f[k]
    BY <1>1 DEF IsTotal
  <1>3. 0 \in T
    BY <1>2
  <1>4. ASSUME NEW k \in 0 .. n - 1, k \in T PROVE k + 1 \in T
    <2>1. k + 1 \in 1 .. n /\ k + 1 \in 0 .. n /\ k + 1 - 1 = k
      OBVIOUS
    <2>2. PICK j \in 1 .. n : j = k + 1
      BY <2>1
    <2>3. t[j] = t[k] + f[j] /\ t[k] \in Int /\ t[j] \in Int /\ f[j] \in Int
      BY <1>2, <2>1, <2>2
    <2>4. low <= f[j] /\ f[j] <= high
      OBVIOUS
    <2>5. j * low = k * low + low /\ j * high = k * high + high
      BY <2>2
    <2>6. PICK a \in Int, b \in Int : a = k * low /\ b = k * high
      OBVIOUS
    <2>7. a <= t[k] /\ t[k] <= b
      BY <1>4, <2>6
    <2>8. a + low <= t[j] /\ t[j] <= b + high
      BY <2>3, <2>4, <2>7
    <2>9. j * low <= t[j] /\ t[j] <= j * high
      BY <2>5, <2>6, <2>8
    <2> QED BY <2>1, <2>2, <2>9
  <1> HIDE DEF T
  <1>5. \A k \in 0 .. n : k \in T
    BY <1>3, <1>4, SetInduction
  <1>6. n \in T
    BY <1>5
  <1> QED BY <1>1, <1>2, <1>6 DEF T

(* The sum of a window is the sum of all with nothing outside the window.  *)
IsWindow(g, h, N, first, last) ==
  \A u \in 1 .. N : h[u] = IF u \in first .. last THEN g[u - first + 1] ELSE 0

InWindow(g, m, h, N, first, last) ==
  /\ N \in Nat /\ first \in 1 .. N /\ last \in first .. N /\ m \in Nat /\ m = last - first + 1
  /\ g \in [1 .. m -> Int] /\ h \in [1 .. N -> Int] /\ IsWindow(g, h, N, first, last)

LEMMA TotalInWindow ==
  ASSUME NEW g, NEW m, NEW h, NEW N, NEW first, NEW last, InWindow(g, m, h, N, first, last)
  PROVE  Total(g, m) = Total(h, N)
  <1>10. N \in Nat /\ first \in 1 .. N /\ last \in first .. N /\ m \in Nat /\ m = last - first + 1
    BY DEF InWindow
  <1>11. g \in [1 .. m -> Int] /\ h \in [1 .. N -> Int] /\ IsWindow(g, h, N, first, last)
    BY DEF InWindow
  <1>1. PICK s : IsTotal(s, g, m) /\ Total(g, m) = s[m]
    BY <1>10, <1>11, TotalIs
  <1>2. PICK t : IsTotal(t, h, N) /\ Total(h, N) = t[N]
    BY <1>10, <1>11, TotalIs
  <1>3. /\ s \in [0 .. m -> Int] /\ s[0] = 0 /\ \A k \in 1 .. m : s[k] = s[k - 1] + g[k]
        /\ t \in [0 .. N -> Int] /\ t[0] = 0 /\ \A k \in 1 .. N : t[k] = t[k - 1] + h[k]
    BY <1>1, <1>2 DEF IsTotal
  <1> DEFINE Part(k) == IF k < first THEN 0 ELSE IF k <= last THEN k - first + 1 ELSE m
             T == {k \in 0 .. N : t[k] = s[Part(k)]}
  <1>4. 0 \in T
    BY <1>3, <1>10
  <1>5. ASSUME NEW k \in 0 .. N - 1, k \in T PROVE k + 1 \in T
    <2>1. PICK j \in 1 .. N : j = k + 1 /\ j - 1 = k
      BY <1>10
    <2>2. t[j] = t[k] + h[j] /\ t[k] = s[Part(k)]
      BY <1>3, <1>5, <2>1
    <2>3. ASSUME j < first PROVE t[j] = s[Part(j)]
      <3>1. h[j] = 0 /\ Part(j) = 0 /\ Part(k) = 0
        BY <1>10, <1>11, <2>1, <2>3 DEF IsWindow
      <3> HIDE DEF Part
      <3> QED BY <1>3, <2>2, <3>1
    <2>4. ASSUME j \in first .. last PROVE t[j] = s[Part(j)]
      <3>1. PICK i \in 1 .. m : i = j - first + 1
        BY <1>10, <2>4
      <3>2. Part(j) = i /\ Part(k) = i - 1 /\ h[j] = g[i]
        BY <1>10, <1>11, <2>1, <2>4, <3>1 DEF IsWindow
      <3>3. s[i] = s[i - 1] + g[i]
        BY <1>3
      <3> HIDE DEF Part
      <3> QED BY <2>2, <3>2, <3>3
    <2>5. ASSUME j > last PROVE t[j] = s[Part(j)]
      <3>1. h[j] = 0 /\ Part(j) = m /\ Part(k) = m
        BY <1>10, <1>11, <2>1, <2>5 DEF IsWindow
      <3>2. s[m] \in Int
        BY <1>3, <1>10
      <3> HIDE DEF Part
      <3> QED BY <2>2, <3>1, <3>2
    <2>6. t[j] = s[Part(j)]
      BY <1>10, <2>3, <2>4, <2>5
    <2> HIDE DEF Part
    <2> QED BY <2>1, <2>6
  <1> HIDE DEF T
  <1>6. \A k \in 0 .. N : k \in T
    BY <1>4, <1>5, <1>10, SetInduction
  <1>7. N \in T /\ Part(N) = m
    BY <1>6, <1>10
  <1> QED BY <1>1, <1>2, <1>7 DEF T

(* The numbers rounded down to multiples of n, and their sums.             *)
LEMMA TotalOfQuotients ==
  ASSUME NEW m \in Nat, NEW n \in Nat, NEW f \in [1 .. m -> Int], NEW q \in [1 .. m -> Int],
         \A v \in 1 .. m : n * q[v] <= f[v] /\ f[v] <= n * q[v] + n - 1
  PROVE  /\ Total(f, m) \in Int /\ Total(q, m) \in Int
         /\ n * Total(q, m) <= Total(f, m) /\ Total(f, m) <= n * Total(q, m) + m * (n - 1)
  <1>1. PICK s : IsTotal(s, f, m) /\ Total(f, m) = s[m]
    BY TotalIs
  <1>2. PICK t : IsTotal(t, q, m) /\ Total(q, m) = t[m]
    BY TotalIs
  <1>3. /\ s \in [0 .. m -> Int] /\ s[0] = 0 /\ \A k \in 1 .. m : s[k] = s[k - 1] + f[k]
        /\ t \in [0 .. m -> Int] /\ t[0] = 0 /\ \A k \in 1 .. m : t[k] = t[k - 1] + q[k]
    BY <1>1, <1>2 DEF IsTotal
  <1> DEFINE T == {k \in 0 .. m : n * t[k] <= s[k] /\ s[k] <= n * t[k] + k * (n - 1)}
  <1>4. 0 \in T
    BY <1>3
  <1>5. ASSUME NEW k \in 0 .. m - 1, k \in T PROVE k + 1 \in T
    <2>1. PICK j \in 1 .. m : j = k + 1 /\ j - 1 = k
      OBVIOUS
    <2>10. s[k] \in Int /\ t[k] \in Int /\ f[j] \in Int /\ q[j] \in Int
      <3>1. k \in 0 .. m
        OBVIOUS
      <3>2. s[k] \in Int /\ t[k] \in Int
        BY <1>3, <3>1
      <3> QED BY <3>2
    <2>2. PICK sk \in Int, tk \in Int, fj \in Int, qj \in Int :
            sk = s[k] /\ tk = t[k] /\ fj = f[j] /\ qj = q[j]
      BY <2>10
    <2>3. s[j] = sk + fj /\ t[j] = tk + qj
      BY <1>3, <2>1, <2>2
    <2>4. PICK a \in Int, b \in Int, c \in Int : a = n * tk /\ b = n * qj /\ c = k * (n - 1)
      OBVIOUS
    <2>5. n * (tk + qj) = a + b /\ (k + 1) * (n - 1) = c + (n - 1)
      BY <2>4
    <2>6. a <= sk /\ sk <= a + c
      BY <1>5, <2>2, <2>4
    <2>7. b <= fj /\ fj <= b + n - 1
      BY <2>2, <2>4
    <2>8. a + b <= sk + fj /\ sk + fj <= a + b + (c + (n - 1))
      BY <2>6, <2>7
    <2>9. n * t[j] <= s[j] /\ s[j] <= n * t[j] + j * (n - 1)
      BY <2>1, <2>3, <2>5, <2>8
    <2> QED BY <2>1, <2>9
  <1> HIDE DEF T
  <1>6. \A k \in 0 .. m : k \in T
    BY <1>4, <1>5, SetInduction
  <1>7. m \in T
    BY <1>6
  <1> QED BY <1>1, <1>2, <1>3, <1>7 DEF T

LEMMA Quotient ==
  ASSUME NEW a \in Int, NEW n \in Nat, n # 0
  PROVE  a \div n \in Int /\ n * (a \div n) <= a /\ a <= n * (a \div n) + n - 1
  OBVIOUS

LEMMA QuotientIs ==
  ASSUME NEW a \in Int, NEW n \in Nat, n # 0, NEW q \in Int, n * q <= a, a <= n * q + n - 1
  PROVE  a \div n = q
  OBVIOUS

(* A mean of means that are each rounded down is at most 1 too small.      *)
LEMMA MeanOfMeans ==
  ASSUME NEW m \in Nat, m # 0, NEW n \in Nat, n # 0, NEW sum \in Int, NEW parts \in Int,
         n * parts <= sum, sum <= n * parts + m * (n - 1)
  PROVE  parts \div m \in {sum \div (m * n) - 1, sum \div (m * n)}
  <1>1. PICK q \in Int, r \in Int : q = parts \div m /\ r = parts - m * q /\ 0 <= r /\ r <= m - 1
    BY Quotient
  <1>2. PICK z \in Nat : z = m * n /\ z # 0
    OBVIOUS
  <1>3. n * parts = z * q + n * r
    <2>1. parts = m * q + r
      BY <1>1
    <2>2. n * (m * q + r) = (m * n) * q + n * r
      OBVIOUS
    <2> QED BY <1>2, <2>1, <2>2
  <1>4. 0 <= n * r /\ n * r <= n * (m - 1)
    BY <1>1
  <1>5. n * (m - 1) = z - n /\ m * (n - 1) = z - m
    BY <1>2
  <1>6. PICK y \in Int, x \in Int : y = z * q /\ x = n * r
    OBVIOUS
  <1>7. y <= sum /\ sum <= y + z + z - 1
    <2>1. 0 <= x /\ x <= z - n
      BY <1>4, <1>5, <1>6
    <2>2. y + x <= sum /\ sum <= y + x + (z - m)
      BY <1>3, <1>5, <1>6
    <2> QED BY <2>1, <2>2
  <1>8. CASE sum <= y + z - 1
    <2>1. z * q <= sum /\ sum <= z * q + z - 1
      BY <1>6, <1>7, <1>8
    <2>2. sum \div z = q
      BY <1>2, <2>1, QuotientIs
    <2> QED BY <1>1, <1>2, <2>2
  <1>9. CASE sum >= y + z
    <2>1. z * (q + 1) = y + z
      BY <1>6
    <2>2. z * (q + 1) <= sum /\ sum <= z * (q + 1) + z - 1
      BY <1>7, <1>9, <2>1
    <2>3. sum \div z = q + 1
      BY <1>2, <2>2, QuotientIs
    <2> QED BY <1>1, <1>2, <2>3
  <1> QED BY <1>8, <1>9

-----------------------------------------------------------------------------
(* Pictures.                                                               *)

LEMMA FunctionIsSeq ==
  ASSUME NEW n \in Nat, NEW S, NEW f \in [1 .. n -> S]
  PROVE  f \in Seq(S) /\ Len(f) = n
  <1>1. f \in Seq(S)
    BY SeqDef
  <1>2. DOMAIN f = 1 .. n /\ DOMAIN f = 1 .. Len(f) /\ Len(f) \in Nat
    BY <1>1, LenProperties
  <1> QED BY <1>1, <1>2

LEMMA SameFunction ==
  ASSUME NEW D, NEW S, NEW f \in [D -> S], NEW g \in [D -> S], \A x \in D : f[x] = g[x]
  PROVE  f = g
  OBVIOUS

(* h rows of w pixels.                                                     *)
Shape(h, w) == [1 .. h -> [1 .. w -> Pixel]]

Size1 == Nat \ {0}

LEMMA SamePicture ==
  ASSUME NEW h, NEW w, NEW p \in Shape(h, w), NEW q \in Shape(h, w),
         \A y \in 1 .. h : \A x \in 1 .. w : p[y][x] = q[y][x]
  PROVE  p = q
  <1>1. PICK D, S : D = 1 .. h /\ S = [1 .. w -> Pixel]
    OBVIOUS
  <1>2. p \in [D -> S] /\ q \in [D -> S]
    BY <1>1 DEF Shape
  <1>3. ASSUME NEW y \in D PROVE p[y] = q[y]
    <2>1. PICK f, g : f = p[y] /\ g = q[y]
      OBVIOUS
    <2>2. PICK X : X = 1 .. w
      OBVIOUS
    <2>3. f \in [X -> Pixel] /\ g \in [X -> Pixel]
      BY <1>1, <1>2, <2>1, <2>2
    <2>4. \A x \in X : f[x] = g[x]
      BY <1>1, <2>1, <2>2
    <2>5. f = g
      BY <2>3, <2>4, SameFunction
    <2> QED BY <2>1, <2>5
  <1> QED BY <1>2, <1>3, SameFunction

LEMMA PictureHasShape ==
  ASSUME NEW p \in Picture
  PROVE  \E h \in Size1 : \E w \in Size1 : p \in Shape(h, w) /\ Len(p) = h /\ Len(p[1]) = w
  <1>1. /\ p \in Seq(Seq(Pixel)) /\ p # <<>> /\ p[1] # <<>>
        /\ \A y \in DOMAIN p : Len(p[y]) = Len(p[1])
    BY DEF Picture
  <1>2. PICK h : h = Len(p)
    OBVIOUS
  <1>3. h \in Size1 /\ DOMAIN p = 1 .. h /\ p \in [1 .. h -> Seq(Pixel)]
    BY <1>1, <1>2, EmptySeq, LenProperties DEF Size1
  <1>4. PICK w : w = Len(p[1])
    OBVIOUS
  <1>5. 1 \in 1 .. h /\ p[1] \in Seq(Pixel)
    BY <1>3 DEF Size1
  <1>6. w \in Size1
    BY <1>1, <1>4, <1>5, EmptySeq DEF Size1
  <1>7. ASSUME NEW y \in 1 .. h PROVE p[y] \in [1 .. w -> Pixel]
    <2>1. p[y] \in Seq(Pixel) /\ Len(p[y]) = w
      BY <1>1, <1>3, <1>4
    <2> QED BY <2>1, LenProperties
  <1>8. p \in Shape(h, w)
    BY <1>3, <1>7 DEF Shape
  <1> QED BY <1>2, <1>3, <1>4, <1>6, <1>8

LEMMA ShapeIsPicture ==
  ASSUME NEW h \in Size1, NEW w \in Size1, NEW p \in Shape(h, w)
  PROVE  /\ p \in Picture /\ Len(p) = h /\ DOMAIN p = 1 .. h /\ p # <<>>
         /\ p \in Seq([1 .. w -> Pixel])
         /\ \A y \in 1 .. h : Len(p[y]) = w /\ DOMAIN p[y] = 1 .. w /\ p[y] \in Seq(Pixel)
  <1>1. h \in Nat /\ w \in Nat /\ 1 \in 1 .. h /\ p \in [1 .. h -> [1 .. w -> Pixel]]
    BY DEF Size1, Shape
  <1>2. ASSUME NEW y \in 1 .. h
        PROVE  Len(p[y]) = w /\ DOMAIN p[y] = 1 .. w /\ p[y] \in Seq(Pixel) /\ p[y] # <<>>
    <2>1. p[y] \in [1 .. w -> Pixel]
      BY <1>1
    <2>2. p[y] \in Seq(Pixel) /\ Len(p[y]) = w
      BY <1>1, <2>1, FunctionIsSeq
    <2>3. p[y] # <<>>
      BY <2>2, EmptySeq DEF Size1
    <2> QED BY <2>1, <2>2, <2>3
  <1>3. p \in [1 .. h -> Seq(Pixel)]
    BY <1>1, <1>2
  <1>4. p \in Seq(Seq(Pixel)) /\ Len(p) = h
    BY <1>1, <1>3, FunctionIsSeq
  <1>5. p \in Seq([1 .. w -> Pixel])
    BY <1>1, FunctionIsSeq
  <1>6. p # <<>>
    BY <1>4, EmptySeq DEF Size1
  <1>7. p \in Picture
    BY <1>1, <1>2, <1>4, <1>6 DEF Picture
  <1> QED BY <1>1, <1>2, <1>4, <1>5, <1>6, <1>7

LEMMA ReverseTwice ==
  ASSUME NEW S, NEW s \in Seq(S)
  PROVE  Reverse(s) \in Seq(S) /\ Len(Reverse(s)) = Len(s) /\ Reverse(Reverse(s)) = s
  <1>1. PICK n \in Nat : n = Len(s) /\ s \in [1 .. n -> S] /\ DOMAIN s = 1 .. n
    BY LenProperties
  <1>2. Reverse(s) = [i \in 1 .. n |-> s[n - i + 1]]
    BY <1>1 DEF Reverse
  <1>3. PICK r : r = Reverse(s)
    OBVIOUS
  <1>4. ASSUME NEW i \in 1 .. n PROVE n - i + 1 \in 1 .. n /\ n - (n - i + 1) + 1 = i
    OBVIOUS
  <1>5. r \in [1 .. n -> S]
    BY <1>1, <1>2, <1>3, <1>4
  <1>6. r \in Seq(S) /\ Len(r) = n
    BY <1>5, FunctionIsSeq
  <1>7. Reverse(r) = [i \in 1 .. n |-> r[n - i + 1]]
    BY <1>6 DEF Reverse
  <1>8. ASSUME NEW i \in 1 .. n PROVE r[n - i + 1] = s[i]
    BY <1>2, <1>3, <1>4
  <1>9. Reverse(r) = s
    BY <1>1, <1>7, <1>8
  <1> QED BY <1>1, <1>3, <1>6, <1>9

LEMMA TransposedShape ==
  ASSUME NEW h \in Size1, NEW w \in Size1, NEW p \in Shape(h, w)
  PROVE  /\ Transposed(p) \in Shape(w, h)
         /\ \A x \in 1 .. w, y \in 1 .. h : Transposed(p)[x][y] = p[y][x]
  <1>1. DOMAIN p = 1 .. h /\ DOMAIN p[1] = 1 .. w
    <2>1. 1 \in 1 .. h /\ p \in [1 .. h -> [1 .. w -> Pixel]]
      BY DEF Size1, Shape
    <2>2. p[1] \in [1 .. w -> Pixel]
      BY <2>1
    <2> QED BY <2>1, <2>2
  <1>2. Transposed(p) = [x \in 1 .. w |-> [y \in 1 .. h |-> p[y][x]]]
    BY <1>1 DEF Transposed
  <1>3. ASSUME NEW x \in 1 .. w PROVE [y \in 1 .. h |-> p[y][x]] \in [1 .. h -> Pixel]
    BY DEF Shape
  <1> QED BY <1>2, <1>3 DEF Shape

LEMMA WithinIs ==
  ASSUME NEW n \in Size1, NEW x \in 1 .. n, NEW r \in Nat
  PROVE  /\ Within(x - r, n) \in 1 .. x /\ Within(x + r, n) \in x .. n
         /\ \A u \in 1 .. n : u - x \in -r .. r <=> u \in Within(x - r, n) .. Within(x + r, n)
  BY DEF Within, Size1

LEMMA ByteIs ==
  ASSUME NEW c \in Byte
  PROVE  c \in Int /\ 0 <= c /\ c <= 255
  BY DEF Byte

(* The sum and the mean of m bytes.                                        *)
LEMMA MeanOfBytes ==
  ASSUME NEW m \in Nat, m # 0, NEW f \in [1 .. m -> Byte]
  PROVE  Total(f, m) \in Int /\ Total(f, m) \div m \in Byte
  <1>1. PICK low \in Int, high \in Int : low = 0 /\ high = 255
    OBVIOUS
  <1>0. ASSUME NEW i \in 1 .. m PROVE f[i] \in Int /\ 0 <= f[i] /\ f[i] <= 255
    <2>1. f[i] \in Byte
      OBVIOUS
    <2> QED BY <2>1, ByteIs
  <1>2. \A i \in 1 .. m : low <= f[i] /\ f[i] <= high
    BY <1>0, <1>1
  <1>3. f \in [1 .. m -> Int]
    BY <1>0
  <1>4. PICK t : t = Total(f, m)
    OBVIOUS
  <1>5. t \in Int /\ m * low <= t /\ t <= m * high
    BY <1>2, <1>3, <1>4, TotalBounds
  <1>6. PICK q : q = t \div m
    OBVIOUS
  <1>7. q \in Int /\ m * q <= t /\ t <= m * q + m - 1
    BY <1>5, <1>6, Quotient
  <1>8. 0 <= q
    <2>1. SUFFICES ASSUME q <= -1 PROVE FALSE
      BY <1>7
    <2>2. m * q <= m * (-1)
      BY <1>7, <2>1
    <2>3. m * low = 0 /\ m * (-1) = -m
      BY <1>1
    <2> QED BY <1>5, <1>7, <2>2, <2>3
  <1>9. q <= 255
    <2>1. SUFFICES ASSUME q >= 256 PROVE FALSE
      BY <1>7
    <2>2. m * q >= m * 256
      BY <1>7, <2>1
    <2>3. m * high = m * 255 /\ m * 256 = m * 255 + m
      BY <1>1
    <2> QED BY <1>5, <1>7, <2>2, <2>3
  <1>10. q \in Byte
    BY <1>7, <1>8, <1>9 DEF Byte
  <1> QED BY <1>4, <1>5, <1>6, <1>10

(* Neighbours(row, first, m, b): the bytes b of m pixels of the row.       *)
Neighbours(row, first, m, b) == [i \in 1 .. m |-> row[first + i - 1][b]]

LEMMA MeanIs ==
  ASSUME NEW n \in Nat, NEW row \in [1 .. n -> Pixel], NEW first \in 1 .. n, NEW last \in first .. n,
         NEW m \in Nat, m = last - first + 1
  PROVE  /\ Mean(row, first, last) \in Pixel
         /\ \A b \in 1 .. 3 : /\ Neighbours(row, first, m, b) \in [1 .. m -> Byte]
                            /\ Mean(row, first, last)[b] = Total(Neighbours(row, first, m, b), m) \div m
  <1>1. Mean(row, first, last) = [b \in 1 .. 3 |-> Total(Neighbours(row, first, m, b), m) \div m]
    BY DEF Mean, Neighbours
  <1>2. ASSUME NEW b \in 1 .. 3 PROVE Neighbours(row, first, m, b) \in [1 .. m -> Byte]
    <2>1. ASSUME NEW i \in 1 .. m PROVE row[first + i - 1][b] \in Byte
      <3>1. first + i - 1 \in 1 .. n
        OBVIOUS
      <3> QED BY <3>1 DEF Pixel
    <2> QED BY <2>1 DEF Neighbours
  <1>3. m # 0
    OBVIOUS
  <1>4. ASSUME NEW b \in 1 .. 3 PROVE Total(Neighbours(row, first, m, b), m) \div m \in Byte
    BY <1>2, <1>3, MeanOfBytes
  <1> QED BY <1>1, <1>2, <1>4 DEF Pixel

Part(row, n, first, last, m) ==
  /\ n \in Nat /\ row \in [1 .. n -> Pixel] /\ first \in 1 .. n /\ last \in first .. n
  /\ m \in Nat /\ m = last - first + 1

LEMMA MeanOfPart ==
  ASSUME NEW row, NEW n, NEW first, NEW last, NEW m, Part(row, n, first, last, m), NEW b \in 1 .. 3
  PROVE  /\ Neighbours(row, first, m, b) \in [1 .. m -> Byte]
         /\ Mean(row, first, last)[b] = Total(Neighbours(row, first, m, b), m) \div m
  <1>1. n \in Nat /\ row \in [1 .. n -> Pixel] /\ first \in 1 .. n /\ last \in first .. n
    BY DEF Part
  <1>2. m \in Nat /\ m = last - first + 1
    BY DEF Part
  <1> QED BY <1>1, <1>2, MeanIs

-----------------------------------------------------------------------------
(* The blur.                                                               *)

(* How many of 1 .. n are within the radius of x.                          *)
Width(n, x, r) == Within(x + r, n) - Within(x - r, n) + 1

LEMMA WidthIs ==
  ASSUME NEW n \in Size1, NEW x \in 1 .. n, NEW r \in Nat
  PROVE  /\ Within(x - r, n) \in 1 .. n /\ Within(x + r, n) \in Within(x - r, n) .. n
         /\ Width(n, x, r) \in Nat /\ Width(n, x, r) # 0
  <1>1. PICK first \in Int, last \in Int : first = Within(x - r, n) /\ last = Within(x + r, n)
    BY DEF Within, Size1
  <1>2. first \in 1 .. x /\ last \in x .. n
    BY <1>1, WithinIs
  <1>3. n \in Nat
    BY DEF Size1
  <1> QED BY <1>1, <1>2, <1>3 DEF Width

LEMMA BlurredRowIs ==
  ASSUME NEW n \in Size1, NEW row \in [1 .. n -> Pixel], NEW r \in Nat
  PROVE  /\ BlurredRow(row, r) \in [1 .. n -> Pixel]
         /\ \A x \in 1 .. n : BlurredRow(row, r)[x] = Mean(row, Within(x - r, n), Within(x + r, n))
  <1>1. n \in Nat
    BY DEF Size1
  <1>2. DOMAIN row = 1 .. n /\ Len(row) = n
    BY <1>1, FunctionIsSeq
  <1>3. BlurredRow(row, r) = [x \in 1 .. n |-> Mean(row, Within(x - r, n), Within(x + r, n))]
    BY <1>2 DEF BlurredRow
  <1>4. ASSUME NEW x \in 1 .. n PROVE Mean(row, Within(x - r, n), Within(x + r, n)) \in Pixel
    <2>0. PICK first, last : first = Within(x - r, n) /\ last = Within(x + r, n)
      OBVIOUS
    <2>1. first \in 1 .. n
      BY <2>0, WidthIs
    <2>2. last \in first .. n
      BY <2>0, WidthIs
    <2>3. PICK m \in Nat : m = last - first + 1
      BY <1>1, <2>1, <2>2
    <2> QED BY <1>1, <2>0, <2>1, <2>2, <2>3, MeanIs
  <1> QED BY <1>3, <1>4

LEMMA BlurredRowsShape ==
  ASSUME NEW h \in Size1, NEW w \in Size1, NEW p \in Shape(h, w), NEW r \in Nat
  PROVE  /\ BlurredRows(p, r) \in Shape(h, w)
         /\ \A y \in 1 .. h : p[y] \in [1 .. w -> Pixel] /\ BlurredRows(p, r)[y] = BlurredRow(p[y], r)
  <1>1. DOMAIN p = 1 .. h /\ \A y \in 1 .. h : p[y] \in [1 .. w -> Pixel]
    BY DEF Shape
  <1>2. BlurredRows(p, r) = [y \in 1 .. h |-> BlurredRow(p[y], r)]
    BY <1>1 DEF BlurredRows
  <1>3. \A y \in 1 .. h : BlurredRow(p[y], r) \in [1 .. w -> Pixel]
    BY <1>1, BlurredRowIs
  <1> QED BY <1>1, <1>2, <1>3 DEF Shape

(* Without a radius a row stays what it is.                                *)
LEMMA BlurredRowOf0 ==
  ASSUME NEW n \in Size1, NEW row \in [1 .. n -> Pixel]
  PROVE  BlurredRow(row, 0) = row
  <1>1. n \in Nat
    BY DEF Size1
  <1>2. ASSUME NEW x \in 1 .. n PROVE BlurredRow(row, 0)[x] = row[x]
    <2>1. Within(x - 0, n) = x /\ Within(x + 0, n) = x
      BY <1>1 DEF Within
    <2>2. PICK m \in Nat : m = 1
      OBVIOUS
    <2>3. PICK first, last : first = x /\ last = x
      OBVIOUS
    <2>4. /\ Mean(row, x, x) \in Pixel
          /\ \A b \in 1 .. 3 : /\ Neighbours(row, x, m, b) \in [1 .. m -> Byte]
                             /\ Mean(row, x, x)[b] = Total(Neighbours(row, x, m, b), m) \div m
      <3>1. first \in 1 .. n
        BY <2>3
      <3>2. last \in first .. n
        BY <1>1, <2>3
      <3>3. m = last - first + 1
        BY <1>1, <2>2, <2>3
      <3>4. /\ Mean(row, first, last) \in Pixel
            /\ \A b \in 1 .. 3 : /\ Neighbours(row, first, m, b) \in [1 .. m -> Byte]
                               /\ Mean(row, first, last)[b] = Total(Neighbours(row, first, m, b), m) \div m
        BY <1>1, <3>1, <3>2, <3>3, MeanIs
      <3> QED BY <2>3, <3>4
    <2>5. ASSUME NEW b \in 1 .. 3 PROVE Mean(row, x, x)[b] = row[x][b]
      <3>1. PICK f : f = Neighbours(row, x, m, b)
        OBVIOUS
      <3>2. f \in [1 .. m -> Byte]
        BY <2>4, <3>1
      <3>3. f \in [1 .. m -> Int]
        BY <3>2, ByteIs
      <3>4. PICK t : IsTotal(t, f, m) /\ Total(f, m) = t[m]
        BY <3>3, TotalIs
      <3>5. t[0] = 0 /\ t[1] = t[0] + f[1]
        BY <2>2, <3>4 DEF IsTotal
      <3>6. f[1] \in Int /\ f[1] = row[x][b]
        <4>1. 1 \in 1 .. m /\ x + 1 - 1 = x
          BY <1>1, <2>2
        <4> QED BY <3>1, <3>3, <4>1 DEF Neighbours
      <3>7. Total(f, m) = f[1]
        BY <2>2, <3>4, <3>5, <3>6
      <3>8. Mean(row, x, x)[b] = f[1] \div m
        BY <2>4, <3>1, <3>7
      <3>9. f[1] \div m = f[1]
        BY <2>2, <3>6
      <3> QED BY <3>6, <3>8, <3>9
    <2>6. row[x] \in Pixel
      OBVIOUS
    <2>7. Mean(row, x, x) = row[x]
      BY <2>4, <2>5, <2>6 DEF Pixel
    <2>8. 0 \in Nat
      OBVIOUS
    <2>9. BlurredRow(row, 0)[x] = Mean(row, Within(x - 0, n), Within(x + 0, n))
      BY <2>8, BlurredRowIs
    <2> QED BY <2>1, <2>7, <2>9
  <1>3. BlurredRow(row, 0) \in [1 .. n -> Pixel]
    <2>1. 0 \in Nat
      OBVIOUS
    <2> QED BY <2>1, BlurredRowIs
  <1>4. PICK D, old, new : D = 1 .. n /\ old = row /\ new = BlurredRow(row, 0)
    OBVIOUS
  <1>5. old \in [D -> Pixel]
    BY <1>4
  <1>6. new \in [D -> Pixel]
    BY <1>3, <1>4
  <1>7. \A x \in D : new[x] = old[x]
    BY <1>2, <1>4
  <1>8. new = old
    BY <1>5, <1>6, <1>7, SameFunction
  <1> QED BY <1>4, <1>8

(* A blurred picture has the shape of the picture, and its pixels are the  *)
(* means over a column of means over the rows.                             *)
LEMMA BlurIs ==
  ASSUME NEW h \in Size1, NEW w \in Size1, NEW p \in Shape(h, w), NEW r \in Nat
  PROVE  /\ blur(p, r) \in Shape(h, w)
         /\ Transposed(BlurredRows(p, r)) \in Shape(w, h)
         /\ \A y \in 1 .. h, x \in 1 .. w :
              blur(p, r)[y][x] = BlurredRow(Transposed(BlurredRows(p, r))[x], r)[y]
  <1>1. PICK q : q = BlurredRows(p, r)
    OBVIOUS
  <1>2. q \in Shape(h, w)
    BY <1>1, BlurredRowsShape
  <1>3. PICK t : t = Transposed(q)
    OBVIOUS
  <1>4. t \in Shape(w, h) /\ \A x \in 1 .. w, y \in 1 .. h : t[x][y] = q[y][x]
    BY <1>2, <1>3, TransposedShape
  <1>5. PICK s : s = BlurredRows(t, r)
    OBVIOUS
  <1>6. s \in Shape(w, h) /\ \A x \in 1 .. w : s[x] = BlurredRow(t[x], r)
    BY <1>4, <1>5, BlurredRowsShape
  <1>7. Transposed(s) \in Shape(h, w) /\ \A y \in 1 .. h, x \in 1 .. w : Transposed(s)[y][x] = s[x][y]
    BY <1>6, TransposedShape
  <1>8. ASSUME r > 0 PROVE blur(p, r) = Transposed(s)
    BY <1>1, <1>3, <1>5, <1>8 DEF blur
  <1>9. ASSUME r = 0 PROVE blur(p, r) = Transposed(s)
    <2>1. q = p
      <3>1. \A y \in 1 .. h : p[y] \in [1 .. w -> Pixel] /\ q[y] = BlurredRow(p[y], r)
        BY <1>1, BlurredRowsShape
      <3>2. \A y \in 1 .. h : q[y] = p[y]
        BY <1>9, <3>1, BlurredRowOf0
      <3> QED BY <1>2, <3>2, SamePicture
    <2>2. s = t
      <3>1. \A x \in 1 .. w : t[x] \in [1 .. h -> Pixel] /\ s[x] = BlurredRow(t[x], r)
        BY <1>4, <1>5, BlurredRowsShape
      <3>2. \A x \in 1 .. w : s[x] = t[x]
        BY <1>9, <3>1, BlurredRowOf0
      <3> QED BY <1>4, <1>6, <3>2, SamePicture
    <2>3. \A y \in 1 .. h, x \in 1 .. w : Transposed(s)[y][x] = p[y][x]
      BY <1>4, <1>7, <2>1, <2>2
    <2>4. Transposed(s) = p
      BY <1>7, <2>3, SamePicture
    <2>5. blur(p, r) = p
      BY <1>9 DEF blur
    <2> QED BY <2>4, <2>5
  <1>10. blur(p, r) = Transposed(s)
    BY <1>8, <1>9
  <1> QED BY <1>1, <1>3, <1>4, <1>6, <1>7, <1>10

(* What is within the radius of both the row y and the column x.           *)
Rectangle(h, w, y, x, r) == {q \in (1 .. h) \X (1 .. w) : q[1] - y \in -r .. r /\ q[2] - x \in -r .. r}

LEMMA RectangleIs ==
  ASSUME NEW h \in Size1, NEW w \in Size1, NEW y \in 1 .. h, NEW x \in 1 .. w, NEW r \in Nat
  PROVE  /\ Cardinality(Rectangle(h, w, y, x, r)) = Width(h, y, r) * Width(w, x, r)
         /\ \A v \in 1 .. h, u \in 1 .. w :
              <<v, u>> \in Rectangle(h, w, y, x, r) <=> /\ v \in Within(y - r, h) .. Within(y + r, h)
                                                       /\ u - x \in -r .. r
  <1>1. PICK a, b, c, d : /\ a = Within(y - r, h) /\ b = Within(y + r, h)
                          /\ c = Within(x - r, w) /\ d = Within(x + r, w)
    OBVIOUS
  <1>2. a \in 1 .. h /\ b \in a .. h /\ Width(h, y, r) = b - a + 1
    BY <1>1, WidthIs DEF Width
  <1>3. c \in 1 .. w /\ d \in c .. w /\ Width(w, x, r) = d - c + 1
    BY <1>1, WidthIs DEF Width
  <1>4. h \in Nat /\ w \in Nat
    BY DEF Size1
  <1>5. \A v \in 1 .. h : v - y \in -r .. r <=> v \in a .. b
    BY <1>1, WithinIs
  <1>6. \A u \in 1 .. w : u - x \in -r .. r <=> u \in c .. d
    BY <1>1, WithinIs
  <1>7. Rectangle(h, w, y, x, r) = (a .. b) \X (c .. d)
    <2>1. PICK A, B, C, D : A = 1 .. h /\ B = 1 .. w /\ C = a .. b /\ D = c .. d
      OBVIOUS
    <2>2. C \subseteq A /\ D \subseteq B
      BY <1>2, <1>3, <1>4, <2>1
    <2>3. \A v \in A : v - y \in -r .. r <=> v \in C
      BY <1>5, <2>1
    <2>4. \A u \in B : u - x \in -r .. r <=> u \in D
      BY <1>6, <2>1
    <2>5. Rectangle(h, w, y, x, r) = {q \in A \X B : q[1] - y \in -r .. r /\ q[2] - x \in -r .. r}
      BY <2>1 DEF Rectangle
    <2>6. Rectangle(h, w, y, x, r) = C \X D
      BY <2>2, <2>3, <2>4, <2>5
    <2> QED BY <2>1, <2>6
  <1>8. IsFiniteSet(a .. b) /\ Cardinality(a .. b) = b - a + 1
    BY <1>2, <1>4, FS_Interval
  <1>9. IsFiniteSet(c .. d) /\ Cardinality(c .. d) = d - c + 1
    BY <1>3, <1>4, FS_Interval
  <1>10. Cardinality((a .. b) \X (c .. d)) = (b - a + 1) * (d - c + 1)
    <2>1. PICK A, B : A = a .. b /\ B = c .. d
      OBVIOUS
    <2>2. Cardinality(A \X B) = Cardinality(A) * Cardinality(B)
      BY <1>8, <1>9, <2>1, FS_Product
    <2> QED BY <1>8, <1>9, <2>1, <2>2
  <1>11. \A v \in 1 .. h, u \in 1 .. w : <<v, u>> \in Rectangle(h, w, y, x, r) <=> (v \in a .. b /\ u - x \in -r .. r)
    BY <1>5 DEF Rectangle
  <1> QED BY <1>1, <1>2, <1>3, <1>7, <1>10, <1>11

InRowOf(p, h, w, y, x, r, b, v) ==
  Total([u \in 1 .. w |-> IF <<v, u>> \in Rectangle(h, w, y, x, r) THEN p[v][u][b] ELSE 0], w)

SumOf(p, h, w, y, x, r, b) == Total([v \in 1 .. h |-> InRowOf(p, h, w, y, x, r, b, v)], h)

(* A row of the rectangle: the sum that the mean over the row is made of.  *)
LEMMA InRowIs ==
  ASSUME NEW h \in Size1, NEW w \in Size1, NEW p \in Shape(h, w), NEW r \in Nat,
         NEW y \in 1 .. h, NEW x \in 1 .. w, NEW b \in 1 .. 3, NEW v \in 1 .. h
  PROVE  /\ InRowOf(p, h, w, y, x, r, b, v) \in Int
         /\ v \notin Within(y - r, h) .. Within(y + r, h) => InRowOf(p, h, w, y, x, r, b, v) = 0
         /\ v \in Within(y - r, h) .. Within(y + r, h) =>
              /\ BlurredRow(p[v], r)[x][b] \in Int
              /\ BlurredRow(p[v], r)[x][b] = InRowOf(p, h, w, y, x, r, b, v) \div Width(w, x, r)
  <1>0. w \in Nat /\ 1 \in 1 .. w
    BY DEF Size1
  <1>1. PICK g : g = [u \in 1 .. w |-> IF <<v, u>> \in Rectangle(h, w, y, x, r) THEN p[v][u][b] ELSE 0]
    OBVIOUS
  <1>2. InRowOf(p, h, w, y, x, r, b, v) = Total(g, w)
    BY <1>1 DEF InRowOf
  <1>3. PICK row : row = p[v] /\ row \in [1 .. w -> Pixel]
    BY DEF Shape
  <1>4. \A u \in 1 .. w : row[u][b] \in Byte
    BY <1>3 DEF Pixel
  <1>5. ASSUME NEW u \in 1 .. w PROVE g[u] \in Int
    <2>1. row[u][b] \in Int
      BY <1>4, ByteIs
    <2>2. g[u] = row[u][b] \/ g[u] = 0
      BY <1>1, <1>3
    <2> QED BY <2>1, <2>2
  <1>6. g \in [1 .. w -> Int]
    BY <1>1, <1>5
  <1>7. PICK t : IsTotal(t, g, w) /\ Total(g, w) = t[w]
    BY <1>0, <1>6, TotalIs
  <1>8. Total(g, w) \in Int
    <2>1. w \in 0 .. w
      BY <1>0
    <2> QED BY <1>7, <2>1 DEF IsTotal
  <1>9. ASSUME v \notin Within(y - r, h) .. Within(y + r, h) PROVE Total(g, w) = 0
    <2>1. \A u \in 1 .. w : <<v, u>> \notin Rectangle(h, w, y, x, r)
      BY <1>9, RectangleIs
    <2>2. PICK low \in Int, high \in Int : low = 0 /\ high = 0
      OBVIOUS
    <2>3. \A u \in 1 .. w : low <= g[u] /\ g[u] <= high
      BY <1>1, <2>1, <2>2
    <2>4. w * low <= Total(g, w) /\ Total(g, w) <= w * high
      BY <1>0, <1>6, <2>3, TotalBounds
    <2>5. w * low = 0 /\ w * high = 0
      BY <1>0, <2>2
    <2> QED BY <1>8, <2>4, <2>5
  <1>10. ASSUME v \in Within(y - r, h) .. Within(y + r, h)
         PROVE  /\ BlurredRow(row, r)[x][b] \in Int
                /\ BlurredRow(row, r)[x][b] = Total(g, w) \div Width(w, x, r)
    <2>1. PICK first, last, m : first = Within(x - r, w) /\ last = Within(x + r, w) /\ m = Width(w, x, r)
      OBVIOUS
    <2>2. first \in 1 .. w /\ last \in first .. w /\ m \in Nat /\ m # 0
      BY <2>1, WidthIs
    <2>3. m = last - first + 1
      BY <2>1 DEF Width
    <2>4. BlurredRow(row, r)[x] = Mean(row, first, last)
      BY <1>3, <2>1, BlurredRowIs
    <2>5. PICK f : f = Neighbours(row, first, m, b)
      OBVIOUS
    <2>6. f \in [1 .. m -> Byte] /\ Mean(row, first, last)[b] = Total(f, m) \div m
      <3>1. first \in 1 .. w /\ last \in first .. w /\ m \in Nat /\ m = last - first + 1 /\ w \in Nat
        BY <1>0, <2>2, <2>3
      <3>2. Part(row, w, first, last, m)
        BY <1>3, <3>1 DEF Part
      <3> QED BY <2>5, <3>2, MeanOfPart
    <2>7. f \in [1 .. m -> Int]
      BY <2>6, ByteIs
    <2>8. ASSUME NEW u \in 1 .. w PROVE g[u] = IF u \in first .. last THEN f[u - first + 1] ELSE 0
      <3>1. <<v, u>> \in Rectangle(h, w, y, x, r) <=> u - x \in -r .. r
        BY <1>10, RectangleIs
      <3>2. u - x \in -r .. r <=> u \in first .. last
        BY <2>1, WithinIs
      <3>3. ASSUME u \in first .. last PROVE f[u - first + 1] = row[u][b]
        <4>1. PICK i \in 1 .. m : i = u - first + 1 /\ first + i - 1 = u
          BY <1>0, <2>2, <2>3, <3>3
        <4>2. f[i] = row[first + i - 1][b]
          BY <2>5 DEF Neighbours
        <4> QED BY <4>1, <4>2
      <3> QED BY <1>1, <1>3, <3>1, <3>2, <3>3
    <2>9. Total(f, m) = Total(g, w)
      <3>1. IsWindow(f, g, w, first, last)
        BY <2>8 DEF IsWindow
      <3>2. /\ w \in Nat /\ first \in 1 .. w /\ last \in first .. w /\ m \in Nat /\ m = last - first + 1
            /\ f \in [1 .. m -> Int] /\ g \in [1 .. w -> Int]
        BY <1>0, <1>6, <2>2, <2>3, <2>7
      <3>3. InWindow(f, m, g, w, first, last)
        BY <3>1, <3>2 DEF InWindow
      <3> QED BY <3>3, TotalInWindow
    <2>10. Total(f, m) \div m \in Byte
      BY <2>2, <2>6, MeanOfBytes
    <2> QED BY <2>1, <2>4, <2>6, <2>9, <2>10, ByteIs
  <1> QED BY <1>2, <1>3, <1>8, <1>9, <1>10

LEMMA BlurOfShape ==
  ASSUME NEW h \in Size1, NEW w \in Size1, NEW p \in Shape(h, w), NEW r \in Nat,
         NEW y \in 1 .. h, NEW x \in 1 .. w, NEW b \in 1 .. 3
  PROVE  LET mean == SumOf(p, h, w, y, x, r, b) \div Cardinality(Rectangle(h, w, y, x, r))
         IN  blur(p, r)[y][x][b] \in {mean - 1, mean}
  <1>1. PICK first, last, m, n : /\ first = Within(y - r, h) /\ last = Within(y + r, h)
                                 /\ m = Width(h, y, r) /\ n = Width(w, x, r)
    OBVIOUS
  <1>2. /\ first \in 1 .. h /\ last \in first .. h /\ m \in Nat /\ m # 0 /\ m = last - first + 1
        /\ n \in Nat /\ n # 0 /\ h \in Nat
    BY <1>1, WidthIs DEF Width, Size1
  <1>3. Cardinality(Rectangle(h, w, y, x, r)) = m * n
    BY <1>1, RectangleIs
  <1>4. PICK q, column : q = BlurredRows(p, r) /\ column = Transposed(q)[x]
    OBVIOUS
  <1>5. q \in Shape(h, w) /\ \A v \in 1 .. h : q[v] = BlurredRow(p[v], r)
    BY <1>4, BlurredRowsShape, SMTT(30)
  <1>6. column \in [1 .. h -> Pixel] /\ \A v \in 1 .. h : column[v] = q[v][x]
    <2>1. Transposed(q) \in Shape(w, h) /\ \A v \in 1 .. h : Transposed(q)[x][v] = q[v][x]
      BY <1>5, TransposedShape
    <2> QED BY <1>4, <2>1 DEF Shape
  <1>7. blur(p, r)[y][x] = Mean(column, first, last)
    <2>1. blur(p, r)[y][x] = BlurredRow(column, r)[y]
      BY <1>4, BlurIs
    <2> QED BY <1>1, <1>6, <2>1, BlurredRowIs
  <1>8. PICK g : g = Neighbours(column, first, m, b)
    OBVIOUS
  <1>9. g \in [1 .. m -> Byte] /\ Mean(column, first, last)[b] = Total(g, m) \div m
    <2>1. Part(column, h, first, last, m)
      BY <1>2, <1>6 DEF Part
    <2> QED BY <1>8, <2>1, MeanOfPart
  <1>10. g \in [1 .. m -> Int]
    BY <1>9, ByteIs
  <1>11. PICK rows, inside : /\ rows = [v \in 1 .. h |-> InRowOf(p, h, w, y, x, r, b, v)]
                             /\ inside = [i \in 1 .. m |-> rows[first + i - 1]]
    OBVIOUS
  <1>12. rows \in [1 .. h -> Int]
    <2>1. ASSUME NEW v \in 1 .. h PROVE InRowOf(p, h, w, y, x, r, b, v) \in Int
      BY InRowIs
    <2> QED BY <1>11, <2>1
  <1>13. ASSUME NEW i \in 1 .. m
         PROVE  /\ inside[i] \in Int
                /\ n * g[i] <= inside[i] /\ inside[i] <= n * g[i] + n - 1
    <2>1. PICK v \in 1 .. h : v = first + i - 1 /\ v \in first .. last
      BY <1>2
    <2>2. PICK s : s = InRowOf(p, h, w, y, x, r, b, v)
      OBVIOUS
    <2>3. s \in Int /\ q[v][x][b] = s \div n
      <3>1. v \in Within(y - r, h) .. Within(y + r, h)
        BY <1>1, <2>1
      <3>2. /\ InRowOf(p, h, w, y, x, r, b, v) \in Int
            /\ BlurredRow(p[v], r)[x][b] = InRowOf(p, h, w, y, x, r, b, v) \div Width(w, x, r)
        BY <3>1, InRowIs, SMTT(30)
      <3>3. q[v] = BlurredRow(p[v], r)
        BY <1>5
      <3> QED BY <1>1, <2>2, <3>2, <3>3
    <2>4. inside[i] = s
      BY <1>11, <2>1, <2>2
    <2>5. g[i] = q[v][x][b]
      BY <1>6, <1>8, <2>1 DEF Neighbours
    <2>6. s \div n \in Int /\ n * (s \div n) <= s /\ s <= n * (s \div n) + n - 1
      BY <1>2, <2>3, Quotient
    <2> QED BY <2>3, <2>4, <2>5, <2>6
  <1>14. inside \in [1 .. m -> Int]
    BY <1>11, <1>13
  <1>15. IsWindow(inside, rows, h, first, last)
    <2>1. ASSUME NEW v \in 1 .. h PROVE rows[v] = IF v \in first .. last THEN inside[v - first + 1] ELSE 0
      <3>1. CASE v \in first .. last
        <4>1. PICK i \in 1 .. m : i = v - first + 1 /\ first + i - 1 = v
          BY <1>2, <3>1
        <4>2. inside[i] = rows[v]
          BY <1>11, <4>1
        <4> QED BY <3>1, <4>1, <4>2
      <3>2. CASE v \notin first .. last
        <4>1. v \notin Within(y - r, h) .. Within(y + r, h)
          BY <1>1, <3>2
        <4>2. InRowOf(p, h, w, y, x, r, b, v) = 0
          BY <4>1, InRowIs
        <4>3. rows[v] = 0
          BY <1>11, <4>2
        <4> QED BY <3>2, <4>3
      <3> QED BY <3>1, <3>2
    <2> QED BY <2>1 DEF IsWindow
  <1>16. Total(inside, m) = Total(rows, h)
    <2>1. h \in Nat /\ m \in Nat
      BY <1>2
    <2>2. first \in 1 .. h
      BY <1>2
    <2>3. last \in first .. h /\ m = last - first + 1
      BY <1>2
    <2>4. InWindow(inside, m, rows, h, first, last)
      BY <1>12, <1>14, <1>15, <2>1, <2>2, <2>3 DEF InWindow
    <2> QED BY <2>4, TotalInWindow
  <1>17. PICK sum, parts : sum = Total(inside, m) /\ parts = Total(g, m)
    OBVIOUS
  <1>18. sum \in Int /\ parts \in Int /\ n * parts <= sum /\ sum <= n * parts + m * (n - 1)
    BY <1>2, <1>10, <1>13, <1>14, <1>17, TotalOfQuotients
  <1>19. parts \div m \in {sum \div (m * n) - 1, sum \div (m * n)}
    BY <1>2, <1>18, MeanOfMeans
  <1>20. sum = SumOf(p, h, w, y, x, r, b)
    BY <1>11, <1>16, <1>17 DEF SumOf
  <1> QED BY <1>3, <1>7, <1>9, <1>17, <1>19, <1>20

(* Softened: the request and the answer that Soften gives to it.           *)
LEMMA SoftenedIsMean ==
  ASSUME request \in BlurRequest, answer = <<blur(request.picture, request.radius)>>
  PROVE  BlurIsTheMean
  <1>1. PICK p, r : p = request.picture /\ r = request.radius
    OBVIOUS
  <1>2. p \in Picture /\ r \in Nat
    BY <1>1 DEF BlurRequest
  <1>3. PICK h \in Size1, w \in Size1 : p \in Shape(h, w) /\ Len(p) = h /\ Len(p[1]) = w
    BY <1>2, PictureHasShape
  <1>4. DOMAIN p = 1 .. h /\ DOMAIN p[1] = 1 .. w
    <2>1. 1 \in 1 .. h /\ p \in [1 .. h -> [1 .. w -> Pixel]]
      BY <1>3 DEF Shape, Size1
    <2> QED BY <2>1
  <1> DEFINE rows == DOMAIN request.picture
             columns == DOMAIN request.picture[1]
             Around(y, x) == {q \in rows \X columns : /\ q[1] - y \in -request.radius .. request.radius
                                                     /\ q[2] - x \in -request.radius .. request.radius}
             InRow(y, x, b, v) ==
               Total([u \in columns |-> IF <<v, u>> \in Around(y, x) THEN request.picture[v][u][b] ELSE 0],
                     Len(request.picture[1]))
             Sum(y, x, b) == Total([v \in rows |-> InRow(y, x, b, v)], Len(request.picture))
  <1>5. ASSUME NEW y \in rows, NEW x \in columns, NEW b \in 1 .. 3
        PROVE  answer[1][y][x][b] \in {(Sum(y, x, b) \div Cardinality(Around(y, x))) - 1,
                                       Sum(y, x, b) \div Cardinality(Around(y, x))}
    <2>1. rows = 1 .. h /\ columns = 1 .. w /\ y \in 1 .. h /\ x \in 1 .. w
      BY <1>1, <1>4
    <2>2. Around(y, x) = Rectangle(h, w, y, x, r)
      BY <1>1, <2>1 DEF Rectangle
    <2>3. Sum(y, x, b) = SumOf(p, h, w, y, x, r, b)
      <3>1. ASSUME NEW v \in 1 .. h PROVE InRow(y, x, b, v) = InRowOf(p, h, w, y, x, r, b, v)
        <4> HIDE DEF Around, rows, columns
        <4> QED BY <1>1, <1>3, <2>1, <2>2 DEF InRowOf
      <3> HIDE DEF InRow, rows
      <3>2. [v \in rows |-> InRow(y, x, b, v)] = [v \in 1 .. h |-> InRowOf(p, h, w, y, x, r, b, v)]
        BY <2>1, <3>1
      <3> QED BY <1>1, <1>3, <3>2 DEF SumOf
    <2>4. answer[1] = blur(p, r)
      BY <1>1
    <2> HIDE DEF Around, Sum
    <2> QED BY <1>2, <1>3, <2>1, <2>2, <2>3, <2>4, BlurOfShape
  <1> QED BY <1>5 DEF BlurIsTheMean

-----------------------------------------------------------------------------
(* The shaders and their fallbacks.                                        *)

LEMMA Triple ==
  ASSUME NEW a \in Byte, NEW b \in Byte, NEW c \in Byte
  PROVE  /\ <<a, b, c>> \in Pixel
         /\ <<a, b, c>>[1] = a /\ <<a, b, c>>[2] = b /\ <<a, b, c>>[3] = c
  BY DEF Pixel

LEMMA PixelIs ==
  ASSUME NEW pixel \in Pixel
  PROVE  \A b \in 1 .. 3 : pixel[b] \in Byte /\ pixel[b] \in Int /\ 0 <= pixel[b] /\ pixel[b] <= 255
  <1>1. \A b \in 1 .. 3 : pixel[b] \in Byte
    BY DEF Pixel
  <1> QED BY <1>1, ByteIs

LEMMA ClampIs ==
  ASSUME NEW value \in Int
  PROVE  clampByte(value) \in Byte
  BY DEF clampByte, Byte

(* Clamping brings no two numbers further apart.                           *)
LEMMA ClampNear ==
  ASSUME NEW a \in Int, NEW b \in Int, Near(a, b) \/ (a <= 0 /\ b <= 0)
  PROVE  Near(clampByte(a), clampByte(b))
  BY DEF clampByte, Near

LEMMA TruncatedIs ==
  ASSUME NEW a \in Int
  PROVE  /\ Truncated(a, 100) \in Int
         /\ a >= 0 => 100 * Truncated(a, 100) <= a /\ a <= 100 * Truncated(a, 100) + 99
         /\ a < 0 => 100 * Truncated(a, 100) >= a /\ 100 * Truncated(a, 100) <= a + 99
  BY DEF Truncated

CpuBright(c, v) == clampByte(c + Truncated(v * 255, 100))
ShaderBright(c, v) == clampByte((100 * c + 255 * v + 50) \div 100)

LEMMA BrightnessNear ==
  ASSUME NEW c \in Byte, NEW v \in -100 .. 100
  PROVE  /\ CpuBright(c, v) \in Byte /\ ShaderBright(c, v) \in Byte
         /\ Near(ShaderBright(c, v), CpuBright(c, v))
  <1>0. c \in Int /\ v \in Int
    BY ByteIs
  <1>1. PICK a \in Int, e \in Int : a = v * 255 /\ e = 100 * c + 255 * v + 50
    BY <1>0
  <1>2. PICK t \in Int : t = Truncated(a, 100)
    BY TruncatedIs
  <1>3. PICK q \in Int : q = e \div 100 /\ 100 * q <= e /\ e <= 100 * q + 99
    OBVIOUS
  <1>4. /\ a >= 0 => 100 * t <= a /\ a <= 100 * t + 99
        /\ a < 0 => 100 * t >= a /\ 100 * t <= a + 99
    BY <1>2, TruncatedIs
  <1>5. c + t \in Int /\ Near(q, c + t)
    BY <1>0, <1>1, <1>3, <1>4 DEF Near
  <1>6. Near(clampByte(q), clampByte(c + t)) /\ clampByte(q) \in Byte /\ clampByte(c + t) \in Byte
    BY <1>5, ClampIs, ClampNear
  <1> QED BY <1>1, <1>2, <1>3, <1>6 DEF CpuBright, ShaderBright

CpuContrast(c, v) == clampByte(Truncated((c - 128) * v + 12800, 100))
ShaderContrast(c, v) == clampByte(((2 * c - 255) * v + 25500 + 100) \div 200)

LEMMA ContrastNear ==
  ASSUME NEW c \in Byte, NEW v \in 0 .. 200
  PROVE  /\ CpuContrast(c, v) \in Byte /\ ShaderContrast(c, v) \in Byte
         /\ Near(ShaderContrast(c, v), CpuContrast(c, v))
  <1>0. c \in Int /\ v \in Int
    BY ByteIs
  <1>2. PICK a \in Int, e \in Int : a = (c - 128) * v + 12800 /\ e = (2 * c - 255) * v + 25500 + 100
    BY <1>0
  <1>3. e = 2 * a + v
    <2>1. PICK x \in Int : x = c * v
      BY <1>0
    <2>2. (c - 128) * v = x - 128 * v
      BY <1>0, <2>1
    <2>3. (2 * c - 255) * v = 2 * x - 255 * v
      BY <1>0, <2>1
    <2> QED BY <1>0, <1>2, <2>1, <2>2, <2>3
  <1>4. PICK t \in Int : t = Truncated(a, 100)
    BY TruncatedIs
  <1>5. PICK q \in Int : q = e \div 200 /\ 200 * q <= e /\ e <= 200 * q + 199
    OBVIOUS
  <1>6. /\ a >= 0 => 100 * t <= a /\ a <= 100 * t + 99
        /\ a < 0 => 100 * t <= a + 99
    BY <1>4, TruncatedIs
  <1>7. Near(q, t) \/ (q <= 0 /\ t <= 0)
    <2>1. CASE a >= 0
      <3>1. 100 * t <= a /\ a <= 100 * t + 99 /\ 200 * q <= 2 * a + v /\ 2 * a + v <= 200 * q + 199
        BY <1>3, <1>5, <1>6, <2>1
      <3>2. q - t \in -1 .. 1
        BY <1>0, <3>1
      <3> QED BY <3>2 DEF Near
    <2>2. CASE a < 0
      <3>1. 200 * q <= 2 * a + v
        BY <1>3, <1>5
      <3>2. q <= 0 /\ t <= 0
        BY <1>0, <1>6, <2>2, <3>1
      <3> QED BY <3>2
    <2> QED BY <2>1, <2>2
  <1>8. Near(clampByte(q), clampByte(t)) /\ clampByte(q) \in Byte /\ clampByte(t) \in Byte
    BY <1>7, ClampIs, ClampNear
  <1> QED BY <1>2, <1>4, <1>5, <1>8 DEF CpuContrast, ShaderContrast

LEMMA RoundingNear ==
  ASSUME NEW g \in Int
  PROVE  /\ g \div 1000 \in Int /\ (g + 500) \div 1000 \in Int
         /\ Near((g + 500) \div 1000, g \div 1000)
  BY DEF Near

PixelEffect == Brightness \cup Contrast \cup Fixed

LEMMA PixelsNear ==
  ASSUME NEW effect \in PixelEffect, NEW pixel \in Pixel
  PROVE  /\ cpuPixel(effect, pixel) \in Pixel /\ shaderPixel(effect, pixel) \in Pixel
         /\ \A b \in 1 .. 3 : Near(shaderPixel(effect, pixel)[b], cpuPixel(effect, pixel)[b])
  <1> DEFINE Good(f, s) == f \in Pixel /\ s \in Pixel /\ \A b \in 1 .. 3 : Near(s[b], f[b])
  <1>1. PICK r \in Byte, g \in Byte, u \in Byte : r = pixel[1] /\ g = pixel[2] /\ u = pixel[3]
    BY PixelIs
  <1>2. ASSUME NEW a1 \in Byte, NEW a2 \in Byte, NEW a3 \in Byte, NEW b1 \in Byte, NEW b2 \in Byte, NEW b3 \in Byte,
               Near(b1, a1), Near(b2, a2), Near(b3, a3)
        PROVE  Good(<<a1, a2, a3>>, <<b1, b2, b3>>)
    <2>1. \A b \in 1 .. 3 : b = 1 \/ b = 2 \/ b = 3
      OBVIOUS
    <2>2. PICK f, s : f = <<a1, a2, a3>> /\ s = <<b1, b2, b3>>
      OBVIOUS
    <2>3. f \in Pixel /\ s \in Pixel /\ f[1] = a1 /\ f[2] = a2 /\ f[3] = a3 /\ s[1] = b1 /\ s[2] = b2 /\ s[3] = b3
      BY <2>2, Triple
    <2>4. \A b \in 1 .. 3 : Near(s[b], f[b])
      BY <1>2, <2>1, <2>3
    <2> QED BY <2>2, <2>3, <2>4
  <1>3. \A a \in Byte : Near(a, a)
    BY ByteIs DEF Near
  <1> HIDE DEF Good
  <1>4. ASSUME effect \in Brightness PROVE Good(cpuPixel(effect, pixel), shaderPixel(effect, pixel))
    <2>1. PICK v \in -100 .. 100 : v = effect.value /\ effect.id = "brightness"
      BY <1>4 DEF Brightness
    <2> DEFINE C(c) == CpuBright(c, v)
               S(c) == ShaderBright(c, v)
    <2>2. cpuPixel(effect, pixel) = <<C(r), C(g), C(u)>> /\ shaderPixel(effect, pixel) = <<S(r), S(g), S(u)>>
      BY <1>1, <2>1 DEF cpuPixel, shaderPixel, ByteWise, CpuBright, ShaderBright
    <2>3. ASSUME NEW c \in Byte PROVE C(c) \in Byte /\ S(c) \in Byte /\ Near(S(c), C(c))
      BY BrightnessNear
    <2> HIDE DEF C, S
    <2> QED BY <1>2, <2>2, <2>3
  <1>5. ASSUME effect \in Contrast PROVE Good(cpuPixel(effect, pixel), shaderPixel(effect, pixel))
    <2>1. PICK v \in 0 .. 200 : v = effect.value /\ effect.id = "contrast"
      BY <1>5 DEF Contrast
    <2> DEFINE C(c) == CpuContrast(c, v)
               S(c) == ShaderContrast(c, v)
    <2>2. cpuPixel(effect, pixel) = <<C(r), C(g), C(u)>> /\ shaderPixel(effect, pixel) = <<S(r), S(g), S(u)>>
      BY <1>1, <2>1 DEF cpuPixel, shaderPixel, ByteWise, CpuContrast, ShaderContrast
    <2>3. ASSUME NEW c \in Byte PROVE C(c) \in Byte /\ S(c) \in Byte /\ Near(S(c), C(c))
      BY ContrastNear
    <2> HIDE DEF C, S
    <2> QED BY <1>2, <2>2, <2>3
  <1>6. ASSUME effect \in Fixed, effect.id = "grayscale"
        PROVE  Good(cpuPixel(effect, pixel), shaderPixel(effect, pixel))
    <2>1. PICK y \in Int : y = Gray(pixel) /\ y = 299 * r + 587 * g + 114 * u
      BY <1>1, ByteIs DEF Gray
    <2>2. PICK c \in Int, s \in Int : c = y \div 1000 /\ s = (y + 500) \div 1000 /\ Near(s, c)
      BY <2>1, RoundingNear
    <2>3. c \in Byte /\ s \in Byte
      <3>1. /\ 0 <= y /\ y <= 255 * 1000
        BY <2>1, ByteIs
      <3> QED BY <2>2, <3>1 DEF Byte
    <2>4. cpuPixel(effect, pixel) = <<c, c, c>> /\ shaderPixel(effect, pixel) = <<s, s, s>>
      BY <1>6, <2>1, <2>2 DEF cpuPixel, shaderPixel, ByteWise
    <2> QED BY <1>2, <2>2, <2>3, <2>4
  <1>7. ASSUME effect \in Fixed, effect.id = "sepia"
        PROVE  Good(cpuPixel(effect, pixel), shaderPixel(effect, pixel))
    <2>1. PICK x \in Int, y \in Int, z \in Int : Sepia(pixel) = <<x, y, z>>
      <3>1. /\ 393 * r + 769 * g + 189 * u \in Int /\ 349 * r + 686 * g + 168 * u \in Int
            /\ 272 * r + 534 * g + 131 * u \in Int
        BY ByteIs
      <3> QED BY <1>1, <3>1 DEF Sepia
    <2> DEFINE C(c) == clampByte(c \div 1000)
               S(c) == clampByte((c + 500) \div 1000)
    <2>2. cpuPixel(effect, pixel) = <<C(x), C(y), C(z)>> /\ shaderPixel(effect, pixel) = <<S(x), S(y), S(z)>>
      BY <1>7, <2>1 DEF cpuPixel, shaderPixel, ByteWise
    <2>3. \A c \in Int : C(c) \in Byte /\ S(c) \in Byte /\ Near(S(c), C(c))
      BY RoundingNear, ClampIs, ClampNear
    <2> HIDE DEF C, S
    <2> QED BY <1>2, <2>2, <2>3
  <1>8. ASSUME effect \in Fixed, effect.id = "invert"
        PROVE  Good(cpuPixel(effect, pixel), shaderPixel(effect, pixel))
    <2> DEFINE C(c) == 255 - c
    <2>1. cpuPixel(effect, pixel) = <<C(r), C(g), C(u)>> /\ shaderPixel(effect, pixel) = <<C(r), C(g), C(u)>>
      BY <1>1, <1>8 DEF cpuPixel, shaderPixel, ByteWise
    <2>2. \A c \in Byte : C(c) \in Byte
      BY DEF Byte
    <2> HIDE DEF C
    <2> QED BY <1>2, <1>3, <2>1, <2>2
  <1>9. ASSUME effect \in Fixed, effect.id = "channelSwap"
        PROVE  Good(cpuPixel(effect, pixel), shaderPixel(effect, pixel))
    <2>1. cpuPixel(effect, pixel) = <<u, g, r>> /\ shaderPixel(effect, pixel) = <<u, g, r>>
      BY <1>1, <1>9 DEF cpuPixel, shaderPixel, swapRedBlue, ByteWise
    <2> QED BY <1>2, <1>3, <2>1
  <1>10. effect \in Fixed => effect.id \in {"grayscale", "sepia", "invert", "channelSwap"}
    BY DEF Fixed
  <1>11. Good(cpuPixel(effect, pixel), shaderPixel(effect, pixel))
    BY <1>4, <1>5, <1>6, <1>7, <1>8, <1>9, <1>10 DEF PixelEffect
  <1> QED BY <1>11 DEF Good

(* A picture turned round twice, and what the shape of a picture keeps.    *)
LEMMA FlipShape ==
  ASSUME NEW h \in Size1, NEW w \in Size1, NEW p \in Shape(h, w), NEW horizontal \in BOOLEAN
  PROVE  flip(p, horizontal) \in Shape(h, w)
  <1>1. h \in Nat /\ w \in Nat /\ p \in [1 .. h -> [1 .. w -> Pixel]] /\ DOMAIN p = 1 .. h
    BY DEF Size1, Shape
  <1>2. CASE horizontal
    <2>1. ASSUME NEW y \in 1 .. h PROVE Reverse(p[y]) \in [1 .. w -> Pixel]
      <3>1. p[y] \in Seq(Pixel) /\ Len(p[y]) = w
        BY <1>1, FunctionIsSeq
      <3>2. Reverse(p[y]) \in Seq(Pixel) /\ Len(Reverse(p[y])) = w
        BY <3>1, ReverseTwice
      <3> QED BY <3>2, LenProperties
    <2>2. flip(p, horizontal) = [y \in 1 .. h |-> Reverse(p[y])]
      BY <1>1, <1>2 DEF flip
    <2> QED BY <2>1, <2>2 DEF Shape
  <1>3. CASE ~horizontal
    <2>1. PICK S : S = [1 .. w -> Pixel]
      OBVIOUS
    <2>2. p \in Seq(S) /\ Len(p) = h
      BY <1>1, <2>1, FunctionIsSeq
    <2>3. Reverse(p) \in Seq(S) /\ Len(Reverse(p)) = h
      BY <2>2, ReverseTwice
    <2>4. Reverse(p) \in [1 .. h -> S]
      BY <2>3, LenProperties
    <2>5. flip(p, horizontal) = Reverse(p)
      BY <1>3 DEF flip
    <2> QED BY <2>1, <2>4, <2>5 DEF Shape
  <1> QED BY <1>2, <1>3

LEMMA RenderedShape ==
  ASSUME NEW h \in Size1, NEW w \in Size1, NEW p \in Shape(h, w)
  PROVE  /\ Sampled(OnGpu(p)) = p /\ asImage(OnGpu(p)) = p
         /\ Sampled(Colours(p)) = p /\ asImage(Colours(p)) = p
  <1>1. PICK S : S = [1 .. w -> Pixel]
    OBVIOUS
  <1>2. p \in Seq(S)
    BY <1>1, ShapeIsPicture
  <1>3. Reverse(Reverse(p)) = p
    BY <1>2, ReverseTwice
  <1>4. Sampled(OnGpu(p)) = p /\ asImage(OnGpu(p)) = p
    BY <1>3 DEF Sampled, asImage, OnGpu
  <1>5. Sampled(Colours(p)) = p /\ asImage(Colours(p)) = p
    BY DEF Sampled, asImage, Colours
  <1> QED BY <1>4, <1>5

(* Two pictures of a size.                                                 *)
LEMMA PicturesOfASize ==
  ASSUME NEW p \in Picture, NEW q \in Picture, Len(q) = Len(p), Len(q[1]) = Len(p[1])
  PROVE  \E h \in Size1, w \in Size1 : p \in Shape(h, w) /\ q \in Shape(h, w)
  <1>1. PICK h \in Size1, w \in Size1 : p \in Shape(h, w) /\ Len(p) = h /\ Len(p[1]) = w
    BY PictureHasShape
  <1>2. PICK i \in Size1, v \in Size1 : q \in Shape(i, v) /\ Len(q) = i /\ Len(q[1]) = v
    BY PictureHasShape
  <1> QED BY <1>1, <1>2

(* The two forms of an effect that looks at one pixel at a time.           *)
CpuPicture(effect, p) == [y \in DOMAIN p |-> [x \in DOMAIN p[y] |-> cpuPixel(effect, p[y][x])]]

ShaderPicture(effect, p) == [y \in DOMAIN p |-> [x \in DOMAIN p[y] |-> shaderPixel(effect, p[y][x])]]

LEMMA PixelEffects ==
  ASSUME NEW h \in Size1, NEW w \in Size1, NEW p \in Shape(h, w), NEW effect \in PixelEffect
  PROVE  /\ cpuApply(effect, p) = CpuPicture(effect, p) /\ CpuPicture(effect, p) \in Shape(h, w)
         /\ \A frame : Sampled(frame) = p => processTexture(effect, frame) = OnGpu(ShaderPicture(effect, p))
         /\ ShaderPicture(effect, p) \in Shape(h, w)
         /\ \A y \in 1 .. h : \A x \in 1 .. w :
              /\ CpuPicture(effect, p)[y][x] = cpuPixel(effect, p[y][x])
              /\ ShaderPicture(effect, p)[y][x] = shaderPixel(effect, p[y][x])
              /\ p[y][x] \in Pixel
  <1>1. DOMAIN p = 1 .. h /\ \A y \in 1 .. h : DOMAIN p[y] = 1 .. w /\ \A x \in 1 .. w : p[y][x] \in Pixel
    BY DEF Shape
  <1>2. effect.id # "flip" /\ effect.id # "blur"
    BY DEF PixelEffect, Brightness, Contrast, Fixed
  <1>3. cpuApply(effect, p) = CpuPicture(effect, p)
    BY <1>2 DEF cpuApply, CpuPicture, PixelWise
  <1>4. ASSUME NEW frame, Sampled(frame) = p
        PROVE  processTexture(effect, frame) = OnGpu(ShaderPicture(effect, p))
    BY <1>2, <1>4 DEF processTexture, ShaderPicture, PixelWise
  <1>6. CpuPicture(effect, p) = [y \in 1 .. h |-> [x \in 1 .. w |-> cpuPixel(effect, p[y][x])]]
    BY <1>1 DEF CpuPicture
  <1>7. ShaderPicture(effect, p) = [y \in 1 .. h |-> [x \in 1 .. w |-> shaderPixel(effect, p[y][x])]]
    BY <1>1 DEF ShaderPicture
  <1>8. \A y \in 1 .. h : \A x \in 1 .. w : cpuPixel(effect, p[y][x]) \in Pixel /\ shaderPixel(effect, p[y][x]) \in Pixel
    BY <1>1, PixelsNear
  <1>9. CpuPicture(effect, p) \in Shape(h, w) /\ ShaderPicture(effect, p) \in Shape(h, w)
    BY <1>6, <1>7, <1>8 DEF Shape
  <1> QED BY <1>1, <1>3, <1>4, <1>6, <1>7, <1>9

LEMMA FallbackIsNear ==
  ASSUME request \in EffectRequest,
         answer = <<[cpu |-> cpuApply(request.effect, request.picture),
                     gpu |-> processTexture(request.effect, OnGpu(request.picture))]>>
  PROVE  FallbackLooksAlike
  <1>1. PICK p, effect : p = request.picture /\ effect = request.effect
    OBVIOUS
  <1>2. p \in Picture /\ effect \in PixelEffect \cup Flip
    BY <1>1 DEF EffectRequest, PixelEffect
  <1>3. PICK h \in Size1, w \in Size1 : p \in Shape(h, w)
    BY <1>2, PictureHasShape
  <1>4. PICK cpu, gpu : cpu = cpuApply(effect, p) /\ gpu = asImage(processTexture(effect, OnGpu(p)))
    OBVIOUS
  <1>5. /\ cpu \in Shape(h, w) /\ gpu \in Shape(h, w)
        /\ \A y \in 1 .. h : \A x \in 1 .. w : \A b \in 1 .. 3 : Near(gpu[y][x][b], cpu[y][x][b])
    <2>1. CASE effect \in Flip
      <3>1. effect.id = "flip" /\ effect.value \in BOOLEAN
        BY <2>1 DEF Flip
      <3>2. PICK q : q = flip(p, effect.value)
        OBVIOUS
      <3>3. q \in Shape(h, w)
        BY <1>3, <3>1, <3>2, FlipShape
      <3>4. cpu = q
        BY <1>4, <3>1, <3>2 DEF cpuApply
      <3>5. processTexture(effect, OnGpu(p)) = OnGpu(q)
        <4>1. Sampled(OnGpu(p)) = p
          BY <1>3, RenderedShape
        <4> QED BY <3>1, <3>2, <4>1 DEF processTexture
      <3>6. gpu = q
        BY <1>4, <3>3, <3>5, RenderedShape
      <3>7. ASSUME NEW y \in 1 .. h, NEW x \in 1 .. w, NEW b \in 1 .. 3 PROVE Near(q[y][x][b], q[y][x][b])
        <4>1. q[y][x] \in Pixel
          BY <3>3 DEF Shape
        <4>2. q[y][x][b] \in Int
          BY <4>1, PixelIs
        <4> QED BY <4>2 DEF Near
      <3> QED BY <3>3, <3>4, <3>6, <3>7
    <2>2. CASE effect \in PixelEffect
      <3>1. PICK c, s : c = CpuPicture(effect, p) /\ s = ShaderPicture(effect, p)
        OBVIOUS
      <3>2. c \in Shape(h, w) /\ s \in Shape(h, w) /\ cpu = c /\ processTexture(effect, OnGpu(p)) = OnGpu(s)
        <4>1. cpuApply(effect, p) = c /\ c \in Shape(h, w) /\ s \in Shape(h, w)
          BY <1>3, <2>2, <3>1, PixelEffects
        <4>2. processTexture(effect, OnGpu(p)) = OnGpu(s)
          BY <1>3, <2>2, <3>1, PixelEffects, RenderedShape, ZenonT(30)
        <4> QED BY <1>4, <4>1, <4>2
      <3>3. gpu = s
        BY <1>4, <3>2, RenderedShape
      <3>4. ASSUME NEW y \in 1 .. h, NEW x \in 1 .. w, NEW b \in 1 .. 3 PROVE Near(s[y][x][b], c[y][x][b])
        <4>1. c[y][x] = cpuPixel(effect, p[y][x]) /\ s[y][x] = shaderPixel(effect, p[y][x]) /\ p[y][x] \in Pixel
          BY <1>3, <2>2, <3>1, PixelEffects
        <4> QED BY <2>2, <4>1, PixelsNear
      <3> QED BY <3>2, <3>3, <3>4
    <2> QED BY <1>2, <2>1, <2>2
  <1>6. /\ DOMAIN gpu = DOMAIN cpu /\ DOMAIN gpu = 1 .. h
        /\ \A y \in 1 .. h : DOMAIN gpu[y] = DOMAIN cpu[y] /\ DOMAIN gpu[y] = 1 .. w
    BY <1>5 DEF Shape
  <1>7. cpu = answer[1].cpu /\ gpu = asImage(answer[1].gpu)
    BY <1>1, <1>4
  <1>8. /\ DOMAIN gpu = DOMAIN cpu
        /\ \A y \in DOMAIN gpu :
             /\ DOMAIN gpu[y] = DOMAIN cpu[y]
             /\ \A x \in DOMAIN gpu[y], b \in 1 .. 3 : Near(gpu[y][x][b], cpu[y][x][b])
    BY <1>5, <1>6
  <1> DEFINE image == asImage(answer[1].gpu)
             fallback == answer[1].cpu
  <1>9. image = gpu /\ fallback = cpu
    BY <1>7
  <1> HIDE DEF image, fallback
  <1>10. /\ DOMAIN image = DOMAIN fallback
         /\ \A y \in DOMAIN image :
              /\ DOMAIN image[y] = DOMAIN fallback[y]
              /\ \A x \in DOMAIN image[y], b \in 1 .. 3 : Near(image[y][x][b], fallback[y][x][b])
    BY <1>8, <1>9
  <1> QED BY <1>10, Zenon DEF FallbackLooksAlike, image, fallback

-----------------------------------------------------------------------------
(* Chains of nodes.                                                        *)

(* The frames that show a picture, and the frames of a size or none.       *)
Shows(frame, p) == frame \in {Colours(p), OnGpu(p)}

FramesOf(h, w) ==
  {Colours(p) : p \in Shape(h, w)} \cup {OnGpu(p) : p \in Shape(h, w)}
  \cup {Planes(p, q) : p \in Shape(h, w), q \in Shape(h, w)}

Frames(h, w) == {NoFrame} \cup FramesOf(h, w)

(* The picture that a stage takes from a frame, and what it leaves of it   *)
(* on the CPU.                                                             *)
Shaded(stage) == stage.custom \/ (stage.hardwareGL /\ ~CpuOnly(stage.effect))

Begins(stage, frame) == IF Shaded(stage) THEN Sampled(frame) ELSE asImage(frame)

OneStage(stage, p) == IF stage.custom THEN p ELSE cpuApply(stage.effect, p)

LEMMA ShownIs ==
  ASSUME NEW h \in Size1, NEW w \in Size1, NEW p \in Shape(h, w), NEW frame, Shows(frame, p)
  PROVE  /\ asImage(frame) = p /\ Sampled(frame) = p /\ frame \in FramesOf(h, w)
  <1>1. asImage(frame) = p /\ Sampled(frame) = p
    BY RenderedShape DEF Shows
  <1>2. frame \in FramesOf(h, w)
    BY DEF Shows, FramesOf
  <1> QED BY <1>1, <1>2

(* What every frame of a size has.                                         *)
LEMMA FrameIs ==
  ASSUME NEW h \in Size1, NEW w \in Size1, NEW frame \in FramesOf(h, w)
  PROVE  /\ frame # NoFrame /\ asImage(frame) \in Shape(h, w) /\ Sampled(frame) \in Shape(h, w)
         /\ ~hasTexture(frame) => asImage(frame) = Sampled(frame)
         /\ frame.gpu => frame = OnGpu(Sampled(frame))
  <1>1. asImage(NoFrame) = <<>>
    BY DEF asImage, NoFrame, Colours
  <1>2. CASE \E p \in Shape(h, w) : frame = Colours(p)
    <2>1. PICK p \in Shape(h, w) : frame = Colours(p)
      BY <1>2
    <2>2. asImage(frame) = p /\ Sampled(frame) = p /\ p # <<>>
      BY <2>1, RenderedShape, ShapeIsPicture
    <2>3. ~frame.gpu
      BY <2>1 DEF Colours
    <2> QED BY <1>1, <2>2, <2>3
  <1>3. CASE \E p \in Shape(h, w) : frame = OnGpu(p)
    <2>1. PICK p \in Shape(h, w) : frame = OnGpu(p)
      BY <1>3
    <2>2. asImage(frame) = p /\ Sampled(frame) = p /\ p # <<>>
      BY <2>1, RenderedShape, ShapeIsPicture
    <2> QED BY <1>1, <2>1, <2>2
  <1>4. CASE \E p \in Shape(h, w), q \in Shape(h, w) : frame = Planes(p, q)
    <2>1. PICK p \in Shape(h, w), q \in Shape(h, w) : frame = Planes(p, q)
      BY <1>4
    <2>2. asImage(frame) = p /\ Sampled(frame) = q /\ ~frame.gpu /\ hasTexture(frame)
      BY <2>1 DEF asImage, Sampled, Planes, hasTexture
    <2>3. p # <<>>
      BY ShapeIsPicture
    <2> QED BY <1>1, <2>2, <2>3
  <1> QED BY <1>2, <1>3, <1>4 DEF FramesOf

(* The effects whose shader and fallback are the same to the byte.         *)
LEMMA ExactPixels ==
  ASSUME NEW effect \in Fixed, effect.id \in {"invert", "channelSwap"}, NEW pixel
  PROVE  shaderPixel(effect, pixel) = cpuPixel(effect, pixel)
  BY DEF cpuPixel, shaderPixel, swapRedBlue, ByteWise

LEMMA StageEffect ==
  ASSUME NEW h \in Size1, NEW w \in Size1, NEW p \in Shape(h, w), NEW stage \in Stage
  PROVE  /\ cpuApply(stage.effect, p) \in Shape(h, w)
         /\ ~CpuOnly(stage.effect) => \A frame : Sampled(frame) = p =>
              processTexture(stage.effect, frame) = OnGpu(cpuApply(stage.effect, p))
  <1>1. PICK effect : effect = stage.effect
    OBVIOUS
  <1>2. effect \in Flip \/ effect \in Blur \/ (effect \in Fixed /\ effect.id \in {"invert", "channelSwap"})
    BY <1>1 DEF Stage
  <1>3. CASE effect \in Flip
    <2>1. effect.id = "flip" /\ effect.value \in BOOLEAN
      BY <1>3 DEF Flip
    <2>2. PICK q : q = flip(p, effect.value) /\ q \in Shape(h, w)
      BY <2>1, FlipShape
    <2>3. cpuApply(effect, p) = q
      BY <2>1, <2>2 DEF cpuApply
    <2>4. ASSUME NEW frame, Sampled(frame) = p PROVE processTexture(effect, frame) = OnGpu(q)
      BY <2>1, <2>2, <2>4 DEF processTexture
    <2> QED BY <1>1, <2>2, <2>3, <2>4
  <1>4. CASE effect \in Blur
    <2>1. effect.id = "blur" /\ effect.value \in Nat
      BY <1>4 DEF Blur
    <2>2. PICK q : q = blur(p, effect.value) /\ q \in Shape(h, w)
      BY <2>1, BlurIs
    <2>3. cpuApply(effect, p) = q
      BY <2>1, <2>2 DEF cpuApply
    <2> QED BY <1>1, <2>1, <2>2, <2>3 DEF CpuOnly
  <1>5. CASE effect \in Fixed /\ effect.id \in {"invert", "channelSwap"}
    <2>1. effect \in PixelEffect
      BY <1>5 DEF PixelEffect
    <2>2. PICK c, s : c = CpuPicture(effect, p) /\ s = ShaderPicture(effect, p)
      OBVIOUS
    <2>3. c \in Shape(h, w) /\ s \in Shape(h, w) /\ cpuApply(effect, p) = c
      BY <2>1, <2>2, PixelEffects
    <2>4. \A y \in 1 .. h : \A x \in 1 .. w : c[y][x] = s[y][x]
      <3>1. ASSUME NEW y \in 1 .. h, NEW x \in 1 .. w PROVE c[y][x] = s[y][x]
        <4>1. c[y][x] = cpuPixel(effect, p[y][x]) /\ s[y][x] = shaderPixel(effect, p[y][x])
          BY <2>1, <2>2, PixelEffects
        <4> QED BY <1>5, <4>1, ExactPixels
      <3> QED BY <3>1
    <2>5. c = s
      BY <2>3, <2>4, SamePicture
    <2>6. ASSUME NEW frame, Sampled(frame) = p PROVE processTexture(effect, frame) = OnGpu(c)
      <3>1. processTexture(effect, frame) = OnGpu(s)
        BY <2>1, <2>2, <2>6, PixelEffects
      <3> QED BY <2>5, <3>1
    <2> QED BY <1>1, <2>3, <2>6
  <1> QED BY <1>2, <1>3, <1>4, <1>5

(* A stage turns a frame into one that shows what the effect makes of the  *)
(* picture it takes, or a custom shader has no output.                     *)
LEMMA StageStep ==
  ASSUME NEW h \in Size1, NEW w \in Size1, NEW stage \in Stage, NEW frame \in FramesOf(h, w),
         NEW p, p = Begins(stage, frame)
  PROVE  /\ p \in Shape(h, w) /\ OneStage(stage, p) \in Shape(h, w)
         /\ \/ Shows(Processed(stage, frame), OneStage(stage, p))
            \/ Processed(stage, frame) = NoFrame /\ stage.custom
  <1>1. /\ frame # NoFrame /\ asImage(frame) \in Shape(h, w) /\ Sampled(frame) \in Shape(h, w)
        /\ ~hasTexture(frame) => asImage(frame) = Sampled(frame)
        /\ frame.gpu => frame = OnGpu(Sampled(frame))
    BY FrameIs
  <1>2. stage.custom \in BOOLEAN /\ stage.hardwareGL \in BOOLEAN
    BY DEF Stage
  <1>3. p \in Shape(h, w) /\ OneStage(stage, p) \in Shape(h, w)
    <2>1. p \in Shape(h, w)
      BY <1>1 DEF Begins
    <2> QED BY <2>1, StageEffect DEF OneStage
  <1>4. CASE stage.custom /\ ~hasTexture(frame)
    BY <1>3, <1>4 DEF Processed
  <1>5. CASE stage.custom /\ hasTexture(frame)
    <2>1. Processed(stage, frame) = customShader(frame)
      BY <1>1, <1>5 DEF Processed
    <2>2. p = Sampled(frame)
      BY <1>5 DEF Begins, Shaded
    <2>3. customShader(frame) = OnGpu(p)
      <3>1. CASE frame.gpu
        BY <2>2, <3>1 DEF customShader
      <3>2. CASE ~frame.gpu
        <4>1. Sampled(OnGpu(p)) = p
          BY <1>3, RenderedShape
        <4> QED BY <2>2, <3>2, <4>1 DEF customShader
      <3> QED BY <3>1, <3>2
    <2>4. OneStage(stage, p) = p
      BY <1>5 DEF OneStage
    <2> QED BY <1>3, <2>1, <2>3, <2>4 DEF Shows
  <1>6. CASE ~stage.custom
    <2>1. PICK q : q = cpuApply(stage.effect, p) /\ q \in Shape(h, w)
      BY <1>3, StageEffect
    <2>2. OneStage(stage, p) = q
      BY <1>6, <2>1 DEF OneStage
    <2>3. CASE stage.hardwareGL /\ ~CpuOnly(stage.effect) /\ hasTexture(frame)
      <3>1. Processed(stage, frame) = processTexture(stage.effect, frame)
        BY <1>1, <1>6, <2>3 DEF Processed
      <3>2. Sampled(frame) = p
        BY <2>3 DEF Begins, Shaded
      <3>3. processTexture(stage.effect, frame) = OnGpu(q)
        BY <1>3, <2>1, <2>3, <3>2, StageEffect
      <3> QED BY <1>3, <2>2, <3>1, <3>3 DEF Shows
    <2>4. CASE ~(stage.hardwareGL /\ ~CpuOnly(stage.effect) /\ hasTexture(frame))
      <3>1. Processed(stage, frame) = Colours(cpuApply(stage.effect, asImage(frame)))
        BY <1>1, <1>6, <2>4 DEF Processed
      <3>2. asImage(frame) = p
        BY <1>1, <1>6, <2>4 DEF Begins, Shaded
      <3>3. Processed(stage, frame) = Colours(q)
        BY <2>1, <3>1, <3>2
      <3> QED BY <1>3, <2>2, <3>3 DEF Shows
    <2> QED BY <2>3, <2>4
  <1> QED BY <1>2, <1>3, <1>4, <1>5, <1>6

LEMMA StageOfNoFrame ==
  ASSUME NEW stage
  PROVE  Processed(stage, NoFrame) = NoFrame
  BY DEF Processed

(* c[k] is the frame after the first k stages, o[k] the picture that their *)
(* effects on the CPU leave.                                               *)
ChainFrom(c, frame, stages) ==
  c[0] = frame /\ \A k \in 1 .. Len(stages) : c[k] = Processed(stages[k], c[k - 1])

LEMMA ChainIs ==
  ASSUME NEW h \in Size1, NEW w \in Size1, NEW stages \in Seq(Stage), NEW frame \in Frames(h, w)
  PROVE  \E c : ChainFrom(c, frame, stages) /\ RunChain(frame, stages) = c[Len(stages)]
  <1>0. PICK n \in Nat : n = Len(stages) /\ stages \in [1 .. n -> Stage]
    BY LenProperties
  <1> DEFINE Is(t) == t = [k \in 0 .. Len(stages) |-> IF k = 0 THEN frame ELSE Processed(stages[k], t[k - 1])]
  <1>1. PICK S : S = Frames(h, w)
    OBVIOUS
  <1>2. PICK step : step = [k \in 1 .. n |-> [f \in S |-> Processed(stages[k], f)]]
    OBVIOUS
  <1>3. ASSUME NEW k \in 1 .. n, NEW f \in S PROVE Processed(stages[k], f) \in S
    <2>1. stages[k] \in Stage
      BY <1>0
    <2>2. CASE f = NoFrame
      BY <1>1, <2>2, StageOfNoFrame DEF Frames
    <2>3. CASE f # NoFrame
      <3>1. PICK p : p = Begins(stages[k], f) /\ f \in FramesOf(h, w)
        BY <1>1, <2>3 DEF Frames
      <3>2. PICK q : q = OneStage(stages[k], p)
        OBVIOUS
      <3>3. /\ q \in Shape(h, w)
            /\ Shows(Processed(stages[k], f), q) \/ Processed(stages[k], f) = NoFrame
        BY <2>1, <3>1, <3>2, StageStep
      <3>4. NoFrame \in S /\ FramesOf(h, w) \subseteq S
        BY <1>1 DEF Frames
      <3> QED BY <3>3, <3>4, ShownIs
    <2> QED BY <2>2, <2>3
  <1>4. step \in [1 .. n -> [S -> S]] /\ frame \in S
    <2>1. ASSUME NEW k \in 1 .. n PROVE [f \in S |-> Processed(stages[k], f)] \in [S -> S]
      BY <1>3
    <2> QED BY <1>1, <1>2, <2>1
  <1>5. PICK t : Recurses(t, n, S, frame, step)
    BY <1>4, Recursion
  <1>6. t \in [0 .. n -> S] /\ t[0] = frame /\ \A k \in 1 .. n : t[k] = step[k][t[k - 1]]
    BY <1>5 DEF Recurses
  <1>7. ASSUME NEW k \in 1 .. n PROVE t[k] = Processed(stages[k], t[k - 1])
    <2>1. k - 1 \in 0 .. n
      OBVIOUS
    <2>2. t[k - 1] \in S
      BY <1>6, <2>1
    <2> QED BY <1>2, <1>6, <2>2
  <1>8. Is(t)
    <2>1. ASSUME NEW k \in 0 .. n PROVE t[k] = IF k = 0 THEN frame ELSE Processed(stages[k], t[k - 1])
      BY <1>6, <1>7
    <2> QED BY <1>0, <1>6, <2>1
  <1>9. PICK c : c = (CHOOSE u : Is(u))
    OBVIOUS
  <1>10. Is(c)
    BY <1>8, <1>9
  <1>11. RunChain(frame, stages) = c[Len(stages)]
    BY <1>9 DEF RunChain
  <1>12. ChainFrom(c, frame, stages)
    <2>1. c[0] = frame
      BY <1>0, <1>10
    <2>2. ASSUME NEW k \in 1 .. Len(stages) PROVE c[k] = Processed(stages[k], c[k - 1])
      BY <1>0, <1>10
    <2> QED BY <2>1, <2>2 DEF ChainFrom
  <1> QED BY <1>11, <1>12

OnCpuFrom(o, p, stages) == o[0] = p /\ \A k \in 1 .. Len(stages) : o[k] = OneStage(stages[k], o[k - 1])

OnTheCpu(picture, stages) ==
  LET onTheCpu[k \in 0 .. Len(stages)] ==
        IF k = 0 THEN picture
        ELSE IF stages[k].custom THEN onTheCpu[k - 1]
        ELSE cpuApply(stages[k].effect, onTheCpu[k - 1])
  IN  onTheCpu[Len(stages)]

LEMMA OnTheCpuIs ==
  ASSUME NEW h \in Size1, NEW w \in Size1, NEW stages \in Seq(Stage), NEW p \in Shape(h, w)
  PROVE  \E o : OnCpuFrom(o, p, stages) /\ OnTheCpu(p, stages) = o[Len(stages)]
  <1>0. PICK n \in Nat : n = Len(stages) /\ stages \in [1 .. n -> Stage]
    BY LenProperties
  <1> DEFINE Is(t) == t = [k \in 0 .. Len(stages) |->
                             IF k = 0 THEN p
                             ELSE IF stages[k].custom THEN t[k - 1]
                             ELSE cpuApply(stages[k].effect, t[k - 1])]
  <1>1. PICK S : S = Shape(h, w)
    OBVIOUS
  <1>2. PICK step : step = [k \in 1 .. n |-> [f \in S |-> OneStage(stages[k], f)]]
    OBVIOUS
  <1>3. ASSUME NEW k \in 1 .. n, NEW f \in S PROVE OneStage(stages[k], f) \in S
    <2>1. stages[k] \in Stage
      BY <1>0
    <2> QED BY <1>1, <2>1, StageEffect DEF OneStage
  <1>4. step \in [1 .. n -> [S -> S]] /\ p \in S
    <2>1. ASSUME NEW k \in 1 .. n PROVE [f \in S |-> OneStage(stages[k], f)] \in [S -> S]
      BY <1>3
    <2> QED BY <1>1, <1>2, <2>1
  <1>5. PICK t : Recurses(t, n, S, p, step)
    BY <1>4, Recursion
  <1>6. t \in [0 .. n -> S] /\ t[0] = p /\ \A k \in 1 .. n : t[k] = step[k][t[k - 1]]
    BY <1>5 DEF Recurses
  <1>7. ASSUME NEW k \in 1 .. n PROVE t[k] = OneStage(stages[k], t[k - 1])
    <2>1. k - 1 \in 0 .. n
      OBVIOUS
    <2>2. t[k - 1] \in S
      BY <1>6, <2>1
    <2> QED BY <1>2, <1>6, <2>2
  <1>8. Is(t)
    <2>1. ASSUME NEW k \in 0 .. n
          PROVE  t[k] = IF k = 0 THEN p
                        ELSE IF stages[k].custom THEN t[k - 1]
                        ELSE cpuApply(stages[k].effect, t[k - 1])
      BY <1>6, <1>7 DEF OneStage
    <2> QED BY <1>0, <1>6, <2>1
  <1>9. PICK o : o = (CHOOSE u : Is(u))
    OBVIOUS
  <1>10. Is(o)
    BY <1>8, <1>9
  <1>11. OnTheCpu(p, stages) = o[Len(stages)]
    BY <1>9 DEF OnTheCpu
  <1>12. OnCpuFrom(o, p, stages)
    <2>1. o[0] = p
      BY <1>0, <1>10
    <2>2. ASSUME NEW k \in 1 .. Len(stages) PROVE o[k] = OneStage(stages[k], o[k - 1])
      BY <1>0, <1>10 DEF OneStage
    <2> QED BY <2>1, <2>2 DEF OnCpuFrom
  <1> QED BY <1>11, <1>12

(* Before the first stage nothing has been shown yet.                      *)
LEMMA ChainShows ==
  ASSUME NEW h \in Size1, NEW w \in Size1, NEW stages \in Seq(Stage), stages # <<>>,
         NEW frame \in FramesOf(h, w), NEW p, p = Begins(stages[1], frame)
  PROVE  LET last == RunChain(frame, stages)
             q    == OnTheCpu(p, stages)
         IN  \/ q \in Shape(h, w) /\ Shows(last, q)
             \/ last = NoFrame /\ \E k \in 1 .. Len(stages) : stages[k].custom
  <1>1. frame \in Frames(h, w)
    BY DEF Frames
  <1>2. PICK n \in Nat : n = Len(stages) /\ n # 0 /\ stages \in [1 .. n -> Stage]
    BY LenProperties, EmptySeq
  <1>0. p \in Shape(h, w)
    <2>1. stages[1] \in Stage
      BY <1>2
    <2> QED BY <2>1, StageStep
  <1>3. PICK c : ChainFrom(c, frame, stages) /\ RunChain(frame, stages) = c[n]
    BY <1>1, <1>2, ChainIs
  <1>4. PICK o : OnCpuFrom(o, p, stages) /\ OnTheCpu(p, stages) = o[n]
    BY <1>0, <1>2, OnTheCpuIs
  <1>5. /\ c[0] = frame /\ \A k \in 1 .. n : c[k] = Processed(stages[k], c[k - 1])
        /\ o[0] = p /\ \A k \in 1 .. n : o[k] = OneStage(stages[k], o[k - 1])
    BY <1>2, <1>3, <1>4 DEF ChainFrom, OnCpuFrom
  <1> DEFINE Fine(k) == /\ o[k] \in Shape(h, w)
                        /\ k = 0 \/ Shows(c[k], o[k]) \/ (c[k] = NoFrame /\ \E j \in 1 .. n : stages[j].custom)
             T == {k \in 0 .. n : Fine(k)}
  <1>6. 0 \in T
    BY <1>0, <1>5
  <1>7. ASSUME NEW k \in 0 .. n - 1, k \in T PROVE k + 1 \in T
    <2>1. PICK j \in 1 .. n : j = k + 1 /\ j - 1 = k
      OBVIOUS
    <2>2. PICK before, picture, stage : before = c[k] /\ picture = o[k] /\ stage = stages[j]
      OBVIOUS
    <2>3. /\ picture \in Shape(h, w) /\ stage \in Stage
          /\ k = 0 \/ Shows(before, picture) \/ (before = NoFrame /\ \E i \in 1 .. n : stages[i].custom)
      BY <1>2, <1>7, <2>2
    <2>4. c[j] = Processed(stage, before) /\ o[j] = OneStage(stage, picture)
      BY <1>5, <2>1, <2>2
    <2>5. CASE k = 0 \/ Shows(before, picture)
      <3>1. before \in FramesOf(h, w) /\ picture = Begins(stage, before)
        <4>1. CASE k = 0
          BY <1>5, <2>1, <2>2, <4>1
        <4>2. CASE Shows(before, picture)
          BY <2>3, <4>2, ShownIs DEF Begins
        <4> QED BY <2>5, <4>1, <4>2
      <3>2. /\ OneStage(stage, picture) \in Shape(h, w)
            /\ \/ Shows(Processed(stage, before), OneStage(stage, picture))
               \/ Processed(stage, before) = NoFrame /\ stage.custom
        BY <2>3, <3>1, StageStep
      <3>3. Fine(j)
        BY <2>2, <2>4, <3>2
      <3> QED BY <2>1, <3>3
    <2>6. CASE before = NoFrame /\ \E i \in 1 .. n : stages[i].custom
      <3>1. c[j] = NoFrame
        BY <2>4, <2>6, StageOfNoFrame
      <3>2. OneStage(stage, picture) \in Shape(h, w)
        BY <2>3, StageEffect DEF OneStage
      <3>3. Fine(j)
        BY <2>4, <2>6, <3>1, <3>2
      <3> QED BY <2>1, <3>3
    <2> QED BY <2>3, <2>5, <2>6
  <1> HIDE DEF T
  <1>8. \A k \in 0 .. n : k \in T
    BY <1>6, <1>7, SetInduction
  <1>9. Fine(n)
    <2>1. n \in T
      BY <1>8
    <2> QED BY <2>1 DEF T
  <1> QED BY <1>2, <1>3, <1>4, <1>9

LEMMA FilmedIsUpright ==
  ASSUME request \in ChainRequest,
         answer = <<OnScreen(RunChain(Filmed(request), request.stages), request.gl)>>
  PROVE  ChainsKeepUpright
  <1>1. PICK r, stages, frame, p : /\ r = request /\ r \in ChainRequest /\ stages = r.stages
                                   /\ frame = Filmed(r) /\ p = Begun(r)
    OBVIOUS
  <1>2. /\ r.picture \in Picture /\ r.shaded \in Picture /\ r.planar \in BOOLEAN /\ r.gl \in BOOLEAN
        /\ stages \in Seq(Stage)
        /\ Len(r.shaded) = Len(r.picture) /\ Len(r.shaded[1]) = Len(r.picture[1])
    BY <1>1 DEF ChainRequest
  <1>3. PICK h \in Size1, w \in Size1 : r.picture \in Shape(h, w) /\ r.shaded \in Shape(h, w)
    BY <1>2, PicturesOfASize
  <1>4. frame \in FramesOf(h, w) /\ p \in Shape(h, w)
    <2>1. Planes(r.picture, r.shaded) \in FramesOf(h, w) /\ Colours(r.picture) \in FramesOf(h, w)
      BY <1>3 DEF FramesOf
    <2> QED BY <1>1, <1>3, <2>1 DEF Filmed, Begun
  <1>5. PICK last, q : last = RunChain(frame, stages) /\ q = OnTheCpu(p, stages)
    OBVIOUS
  <1>6. answer[1] = OnScreen(last, r.gl)
    BY <1>1, <1>5
  <1>7. r.planar => frame = Planes(r.picture, r.shaded)
    BY <1>1 DEF Filmed
  <1>8. ~r.planar => frame = Colours(r.picture)
    BY <1>1 DEF Filmed
  <1>9. asImage(frame) = r.picture /\ Sampled(frame) = IF r.planar THEN r.shaded ELSE r.picture
    <2>1. CASE r.planar
      BY <1>7, <2>1 DEF Planes, asImage, Sampled
    <2>2. CASE ~r.planar
      BY <1>8, <2>2 DEF Colours, asImage, Sampled
    <2> QED BY <2>1, <2>2
  <1>10. p = IF r.planar /\ ByShader(stages, r.gl) THEN r.shaded ELSE r.picture
    BY <1>1 DEF Begun
  <1> DEFINE Right == \/ answer[1] = q
                      \/ answer[1] = <<>> /\ \E k \in 1 .. Len(stages) : stages[k].custom
  <1>11. ASSUME stages = <<>> PROVE Right
    <2>1. last = frame
      <3>1. PICK c : ChainFrom(c, frame, stages) /\ RunChain(frame, stages) = c[Len(stages)]
        BY <1>2, <1>4, ChainIs DEF Frames
      <3>2. Len(stages) = 0
        BY <1>11
      <3> QED BY <1>5, <3>1, <3>2 DEF ChainFrom
    <2>2. q = p
      <3>1. PICK o : OnCpuFrom(o, p, stages) /\ OnTheCpu(p, stages) = o[Len(stages)]
        BY <1>2, <1>4, OnTheCpuIs
      <3>2. Len(stages) = 0
        BY <1>11
      <3> QED BY <1>5, <3>1, <3>2 DEF OnCpuFrom
    <2>3. ByShader(stages, r.gl) = r.gl
      BY <1>11 DEF ByShader
    <2> QED BY <1>2, <1>6, <1>9, <1>10, <2>1, <2>2, <2>3 DEF OnScreen
  <1>12. ASSUME stages # <<>> PROVE Right
    <2>1. ByShader(stages, r.gl) <=> Shaded(stages[1])
      BY <1>12 DEF ByShader, Shaded
    <2>2. p = Begins(stages[1], frame)
      BY <1>9, <1>10, <2>1 DEF Begins
    <2>3. \/ q \in Shape(h, w) /\ Shows(last, q)
          \/ last = NoFrame /\ \E k \in 1 .. Len(stages) : stages[k].custom
      BY <1>2, <1>4, <1>5, <1>12, <2>2, ChainShows
    <2>4. CASE q \in Shape(h, w) /\ Shows(last, q)
      <3>1. asImage(last) = q /\ Sampled(last) = q
        BY <2>4, ShownIs
      <3> QED BY <1>6, <3>1 DEF OnScreen
    <2>5. CASE last = NoFrame /\ \E k \in 1 .. Len(stages) : stages[k].custom
      <3>1. asImage(NoFrame) = <<>> /\ Sampled(NoFrame) = <<>>
        BY DEF asImage, Sampled, NoFrame, Colours
      <3>2. answer[1] = <<>>
        BY <1>6, <2>5, <3>1 DEF OnScreen
      <3> QED BY <2>5, <3>2
    <2> QED BY <2>3, <2>4, <2>5
  <1>13. \/ answer[1] = OnTheCpu(Begun(request), request.stages)
         \/ answer[1] = <<>> /\ \E k \in 1 .. Len(request.stages) : request.stages[k].custom
    BY <1>1, <1>5, <1>11, <1>12
  <1> QED BY <1>13, Zenon DEF ChainsKeepUpright, OnTheCpu

-----------------------------------------------------------------------------
(* Sequences laid end to end: at[k] is where the k-th of them ends.        *)
Ends(at, seqs) ==
  at \in [0 .. Len(seqs) -> Nat] /\ at[0] = 0 /\ \A k \in 1 .. Len(seqs) : at[k] = at[k - 1] + Len(seqs[k])

LaidOut(flat, at, seqs) ==
  /\ Len(flat) = at[Len(seqs)]
  /\ \A k \in 1 .. Len(seqs) : at[k] <= Len(flat)
  /\ \A k \in 1 .. Len(seqs) : \A j \in 1 .. Len(seqs[k]) : flat[at[k - 1] + j] = seqs[k][j]

LEMMA EndsExist ==
  ASSUME NEW S, NEW seqs \in Seq(Seq(S))
  PROVE  \E at : Ends(at, seqs)
  <1>0. PICK n \in Nat : n = Len(seqs) /\ seqs \in [1 .. n -> Seq(S)]
    BY LenProperties
  <1>1. PICK N, base : N = Nat /\ base = 0
    OBVIOUS
  <1>2. PICK step : step = [k \in 1 .. n |-> [x \in N |-> x + Len(seqs[k])]]
    OBVIOUS
  <1>3. \A k \in 1 .. n : Len(seqs[k]) \in Nat
    BY <1>0, LenProperties
  <1>4. step \in [1 .. n -> [N -> N]] /\ base \in N
    <2>1. ASSUME NEW k \in 1 .. n PROVE [x \in N |-> x + Len(seqs[k])] \in [N -> N]
      <3>1. Len(seqs[k]) \in Nat
        BY <1>3
      <3> QED BY <1>1, <3>1
    <2> QED BY <1>1, <1>2, <2>1
  <1>5. PICK at : Recurses(at, n, N, base, step)
    BY <1>4, Recursion
  <1>6. at \in [0 .. n -> Nat] /\ at[0] = 0 /\ \A k \in 1 .. n : at[k] = step[k][at[k - 1]]
    BY <1>1, <1>5 DEF Recurses
  <1>7. ASSUME NEW k \in 1 .. n PROVE at[k] = at[k - 1] + Len(seqs[k])
    <2>1. k - 1 \in 0 .. n
      OBVIOUS
    <2>2. at[k - 1] \in N
      BY <1>1, <1>6, <2>1
    <2> QED BY <1>2, <1>6, <2>2
  <1> QED BY <1>0, <1>6, <1>7 DEF Ends

IsJoin(z, x, s, a, b) == \A m \in 1 .. a + b : z[m] = IF m <= a THEN x[m] ELSE s[m - a]

LEMMA Joined ==
  ASSUME NEW S, NEW x \in Seq(S), NEW s \in Seq(S), NEW a \in Nat, a = Len(x), NEW b \in Nat, b = Len(s)
  PROVE  /\ x \o s \in Seq(S) /\ Len(x \o s) = a + b
         /\ IsJoin(x \o s, x, s, a, b)
  <1>1. x \o s \in Seq(S) /\ Len(x \o s) = a + b
    BY ConcatProperties
  <1>2. ASSUME NEW m \in 1 .. a + b PROVE (x \o s)[m] = IF m <= a THEN x[m] ELSE s[m - a]
    BY ConcatProperties
  <1> QED BY <1>1, <1>2 DEF IsJoin

(* The first i of the sequences, end to end.                               *)
LaidUpTo(x, i, at, seqs, S) ==
  /\ x \in Seq(S) /\ Len(x) = at[i]
  /\ \A k \in 1 .. i : at[k] <= at[i]
  /\ \A k \in 1 .. i : \A j \in 1 .. Len(seqs[k]) : x[at[k - 1] + j] = seqs[k][j]

LEMMA LaidNext ==
  ASSUME NEW S, NEW seqs \in Seq(Seq(S)), NEW at, Ends(at, seqs), NEW i \in 1 .. Len(seqs),
         NEW x, LaidUpTo(x, i - 1, at, seqs, S)
  PROVE  LaidUpTo(x \o seqs[i], i, at, seqs, S)
  <1>0. PICK n \in Nat : n = Len(seqs) /\ i \in 1 .. n
    BY LenProperties
  <1>1. PICK k \in 0 .. n : k = i - 1
    BY <1>0
  <1>2. PICK s : s = seqs[i] /\ s \in Seq(S) /\ Len(s) \in Nat
    <2>1. seqs[i] \in Seq(S)
      BY <1>0, ElementOfSeq
    <2> QED BY <2>1, LenProperties
  <1>11. PICK b \in Nat : b = Len(s)
    BY <1>2
  <1>3. /\ x \in Seq(S) /\ Len(x) = at[k]
        /\ \A m \in 1 .. k : at[m] <= at[k]
        /\ \A m \in 1 .. k : \A j \in 1 .. Len(seqs[m]) : x[at[m - 1] + j] = seqs[m][j]
    BY <1>1 DEF LaidUpTo
  <1>4. PICK a \in Nat : a = Len(x) /\ at[k] = a
    BY <1>3, LenProperties
  <1>5. at[i] = a + b
    <2>1. at[i] = at[i - 1] + Len(seqs[i])
      BY <1>0 DEF Ends
    <2> QED BY <1>1, <1>2, <1>4, <1>11, <2>1
  <1>6. PICK z : z = x \o s
    OBVIOUS
  <1>7. /\ z \in Seq(S) /\ Len(z) = a + b
        /\ \A m \in 1 .. a + b : z[m] = IF m <= a THEN x[m] ELSE s[m - a]
    <2>1. z \in Seq(S) /\ Len(z) = a + b /\ IsJoin(z, x, s, a, b)
      <3>1. x \in Seq(S) /\ s \in Seq(S) /\ a = Len(x) /\ b = Len(s)
        BY <1>2, <1>3, <1>4, <1>11
      <3>2. x \o s \in Seq(S) /\ Len(x \o s) = a + b /\ IsJoin(x \o s, x, s, a, b)
        BY <3>1, Joined
      <3> QED BY <1>6, <3>2
    <2> QED BY <2>1 DEF IsJoin
  <1>8. ASSUME NEW m \in 1 .. i PROVE at[m] <= at[i]
    <2>1. CASE m = i
      BY <1>5, <2>1
    <2>2. CASE m # i
      <3>1. m \in 1 .. k
        BY <1>0, <1>1, <2>2
      <3>2. m \in 0 .. Len(seqs)
        BY <1>0
      <3>3. at[m] \in Nat
        BY <3>2 DEF Ends
      <3>4. at[m] <= a
        BY <1>3, <1>4, <3>1
      <3> QED BY <1>5, <3>3, <3>4
    <2> QED BY <2>1, <2>2
  <1>9. ASSUME NEW m \in 1 .. i, NEW j \in 1 .. Len(seqs[m]) PROVE z[at[m - 1] + j] = seqs[m][j]
    <2>1. CASE m = i
      <3>1. j \in 1 .. b
        BY <1>2, <1>11, <2>1
      <3>2. PICK p \in 1 .. a + b : p = a + j /\ ~(p <= a) /\ p - a = j
        BY <3>1
      <3>3. z[p] = s[j]
        BY <1>7, <3>2
      <3>4. at[m - 1] + j = p
        BY <1>1, <1>4, <2>1, <3>2
      <3> QED BY <1>2, <2>1, <3>3, <3>4
    <2>2. CASE m # i
      <3>1. m \in 1 .. k /\ m \in 1 .. Len(seqs) /\ m - 1 \in 0 .. Len(seqs)
        BY <1>0, <1>1, <2>2
      <3>2. x[at[m - 1] + j] = seqs[m][j] /\ at[m] <= a
        BY <1>3, <1>4, <3>1
      <3>3. PICK u \in Nat, v \in Nat : u = at[m - 1] /\ v = Len(seqs[m])
        <4>1. at[m - 1] \in Nat
          BY <3>1 DEF Ends
        <4>2. seqs[m] \in Seq(S)
          BY <3>1, ElementOfSeq
        <4> QED BY <4>1, <4>2, LenProperties
      <3>4. at[m] = u + v
        BY <3>1, <3>3 DEF Ends
      <3>5. PICK p \in 1 .. a + b : p = u + j /\ p <= a
        <4>1. j \in 1 .. v /\ u + v <= a
          BY <3>2, <3>3, <3>4
        <4> QED BY <4>1
      <3>6. z[p] = x[p]
        BY <1>7, <3>5
      <3> QED BY <3>2, <3>3, <3>5, <3>6
    <2> QED BY <2>1, <2>2
  <1>10. LaidUpTo(z, i, at, seqs, S)
    BY <1>5, <1>7, <1>8, <1>9 DEF LaidUpTo
  <1> QED BY <1>2, <1>6, <1>10

(* What FlattenSeq joins, one sequence after the other.                    *)
Grows(g, seqs, S) ==
  /\ g \in [0 .. Len(seqs) -> Seq(S)] /\ g[0] = <<>>
  /\ \A k \in 1 .. Len(seqs) : g[k] = g[k - 1] \o seqs[k]

LEMMA FlattenGrows ==
  ASSUME NEW S, NEW seqs \in Seq(Seq(S))
  PROVE  \E g : Grows(g, seqs, S) /\ FlattenSeq(seqs) = g[Len(seqs)]
  <1>0. PICK n \in Nat : n = Len(seqs) /\ seqs \in [1 .. n -> Seq(S)]
    BY LenProperties
  <1>2. CASE n = 0
    <2>1. FlattenSeq(seqs) = seqs
      BY <1>0, <1>2 DEF FlattenSeq
    <2>2. seqs = <<>>
      BY <1>0, <1>2, EmptySeq
    <2>3. PICK Q, g : Q = Seq(S) /\ g = [k \in 0 .. 0 |-> <<>>]
      OBVIOUS
    <2>4. <<>> \in Q
      BY <2>3, EmptySeq
    <2>5. g \in [0 .. 0 -> Q] /\ g[0] = <<>>
      BY <2>3, <2>4
    <2>6. Grows(g, seqs, S)
      BY <1>0, <1>2, <2>3, <2>5 DEF Grows
    <2> QED BY <1>0, <1>2, <2>1, <2>2, <2>5, <2>6
  <1>3. CASE n # 0
    <2> DEFINE Is(t) == t = [i \in 1 .. Len(seqs) |-> IF i = 1 THEN seqs[i] ELSE t[i - 1] \o seqs[i]]
    <2>1. PICK Q, base : Q = Seq(S) /\ base = <<>>
      OBVIOUS
    <2>2. PICK step : step = [k \in 1 .. n |-> [x \in Q |-> x \o seqs[k]]]
      OBVIOUS
    <2>3. ASSUME NEW k \in 1 .. n, NEW x \in Q PROVE x \o seqs[k] \in Q
      <3>1. seqs[k] \in Seq(S)
        BY <1>0
      <3> QED BY <2>1, <3>1, ConcatProperties
    <2>4. step \in [1 .. n -> [Q -> Q]] /\ base \in Q
      <3>1. ASSUME NEW k \in 1 .. n PROVE [x \in Q |-> x \o seqs[k]] \in [Q -> Q]
        BY <2>3
      <3>2. base \in Q
        BY <2>1, EmptySeq
      <3> QED BY <2>2, <3>1, <3>2
    <2>5. PICK g : Recurses(g, n, Q, base, step)
      BY <2>4, Recursion
    <2>6. g \in [0 .. n -> Q] /\ g[0] = base /\ \A k \in 1 .. n : g[k] = step[k][g[k - 1]]
      BY <2>5 DEF Recurses
    <2>7. ASSUME NEW k \in 1 .. n PROVE g[k] = g[k - 1] \o seqs[k]
      <3>1. k - 1 \in 0 .. n
        OBVIOUS
      <3>2. g[k - 1] \in Q
        BY <2>6, <3>1
      <3> QED BY <2>2, <2>6, <3>2
    <2>8. PICK t : t = [i \in 1 .. n |-> g[i]]
      OBVIOUS
    <2>9. Is(t)
      <3>1. ASSUME NEW i \in 1 .. n PROVE t[i] = IF i = 1 THEN seqs[i] ELSE t[i - 1] \o seqs[i]
        <4>1. CASE i = 1
          <5>0. 1 \in 1 .. n /\ 1 - 1 = 0
            BY <1>3
          <5>1. g[1] = g[0] \o seqs[1]
            BY <5>0, <2>7
          <5>2. seqs[1] \in Seq(S)
            BY <1>0, <1>3
          <5>3. <<>> \o seqs[1] = seqs[1]
            BY <5>2, ConcatEmptySeq
          <5> QED BY <2>1, <2>6, <2>8, <4>1, <5>1, <5>3
        <4>2. CASE i # 1
          <5>1. PICK k \in 1 .. n : k = i - 1
            BY <4>2
          <5>2. t[k] = g[k]
            BY <2>8
          <5> QED BY <2>7, <2>8, <4>2, <5>1, <5>2
        <4> QED BY <4>1, <4>2
      <3> QED BY <1>0, <2>8, <3>1
    <2>10. PICK c : c = (CHOOSE u : Is(u))
      OBVIOUS
    <2>11. Is(c)
      BY <2>9, <2>10
    <2>12. FlattenSeq(seqs) = c[n]
      BY <1>0, <1>3, <2>10 DEF FlattenSeq
    <2>13. \A i \in 1 .. n : c[i] = IF i = 1 THEN seqs[i] ELSE c[i - 1] \o seqs[i]
      BY <1>0, <2>11
    <2> HIDE DEF Is
    <2> DEFINE T == {i \in 0 .. n : i = 0 \/ c[i] = g[i]}
    <2>14. 0 \in T
      OBVIOUS
    <2>15. ASSUME NEW k \in 0 .. n - 1, k \in T PROVE k + 1 \in T
      <3>1. PICK i \in 1 .. n : i = k + 1 /\ i - 1 = k
        OBVIOUS
      <3>2. CASE i = 1
        <4>0. i - 1 = 0
          BY <3>2
        <4>1. g[1] = g[0] \o seqs[1]
          BY <2>7, <3>2, <4>0
        <4>2. seqs[1] \in Seq(S)
          BY <1>0, <1>3
        <4>3. <<>> \o seqs[1] = seqs[1]
          BY <4>2, ConcatEmptySeq
        <4>4. c[1] = g[1]
          BY <2>1, <2>6, <2>13, <3>2, <4>1, <4>3
        <4> QED BY <3>1, <3>2, <4>4
      <3>3. CASE i # 1
        <4>1. c[k] = g[k]
          BY <2>15, <3>1, <3>3
        <4>2. c[i] = c[k] \o seqs[i] /\ g[i] = g[k] \o seqs[i]
          BY <2>7, <2>13, <3>1, <3>3
        <4>3. c[i] = g[i]
          BY <4>1, <4>2
        <4>4. i \in T
          BY <4>3
        <4> QED BY <3>1, <4>4
      <3> QED BY <3>2, <3>3
    <2> HIDE DEF T
    <2>16. \A k \in 0 .. n : k \in T
      BY <2>14, <2>15, SetInduction
    <2>17. c[n] = g[n]
      BY <1>3, <2>16 DEF T
    <2>18. Grows(g, seqs, S)
      BY <1>0, <2>1, <2>6, <2>7 DEF Grows
    <2> QED BY <1>0, <2>12, <2>17, <2>18
  <1> QED BY <1>2, <1>3

LEMMA FlattenIs ==
  ASSUME NEW S, NEW seqs \in Seq(Seq(S)), NEW at, Ends(at, seqs)
  PROVE  FlattenSeq(seqs) \in Seq(S) /\ LaidOut(FlattenSeq(seqs), at, seqs)
  <1>0. PICK n \in Nat : n = Len(seqs)
    BY LenProperties
  <1>1. PICK g : Grows(g, seqs, S) /\ FlattenSeq(seqs) = g[n]
    BY <1>0, FlattenGrows
  <1>2. g[0] = <<>> /\ \A k \in 1 .. n : g[k] = g[k - 1] \o seqs[k]
    BY <1>0, <1>1 DEF Grows
  <1> DEFINE T == {i \in 0 .. n : LaidUpTo(g[i], i, at, seqs, S)}
  <1>3. 0 \in T
    <2>1. LaidUpTo(<<>>, 0, at, seqs, S)
      <3>1. <<>> \in Seq(S) /\ Len(<<>>) = 0
        BY EmptySeq
      <3>2. at[0] = 0
        BY DEF Ends
      <3> QED BY <3>1, <3>2 DEF LaidUpTo
    <2> QED BY <1>0, <1>2, <2>1
  <1>4. ASSUME NEW k \in 0 .. n - 1, k \in T PROVE k + 1 \in T
    <2>1. PICK i \in 1 .. n : i = k + 1 /\ i - 1 = k
      BY <1>0
    <2>2. PICK x : x = g[k] /\ LaidUpTo(x, i - 1, at, seqs, S)
      BY <1>4, <2>1
    <2>3. i \in 1 .. Len(seqs)
      BY <1>0
    <2>4. LaidUpTo(x \o seqs[i], i, at, seqs, S)
      BY <2>2, <2>3, LaidNext
    <2>5. g[i] = x \o seqs[i]
      BY <1>2, <2>1, <2>2
    <2>6. LaidUpTo(g[i], i, at, seqs, S)
      BY <2>4, <2>5
    <2>7. i \in 0 .. n
      BY <1>0
    <2>8. i \in T
      BY <2>6, <2>7
    <2> QED BY <2>1, <2>8
  <1> HIDE DEF T
  <1>5. \A k \in 0 .. n : k \in T
    BY <1>0, <1>3, <1>4, SetInduction
  <1>6. LaidUpTo(g[n], n, at, seqs, S)
    <2>1. n \in 0 .. n
      BY <1>0
    <2> QED BY <1>5, <2>1 DEF T
  <1> QED BY <1>0, <1>1, <1>6 DEF LaidUpTo, LaidOut

-----------------------------------------------------------------------------
(* Numbers of samples.                                                     *)
Digit == 0 .. Base - 1

(* p[k] is the number of numbers of k bytes.                               *)
Powers(p, n) == p \in [0 .. n -> Nat] /\ p[0] = 1 /\ \A k \in 1 .. n : p[k] = Base * p[k - 1]

LEMMA BaseIs == Base \in Nat /\ Base % 2 = 0 /\ Base > 0
  BY BaseAssumption

LEMMA SizeIs ==
  ASSUME NEW n \in Nat
  PROVE  \E p : Powers(p, n) /\ Size(n) = p[n]
  <1> DEFINE Is(t) == t = [k \in 0 .. n |-> IF k = 0 THEN 1 ELSE Base * t[k - 1]]
  <1>0. PICK N, base : N = Nat /\ base = 1
    OBVIOUS
  <1>1. PICK step : step = [k \in 1 .. n |-> [x \in N |-> Base * x]]
    OBVIOUS
  <1>2. step \in [1 .. n -> [N -> N]] /\ base \in N
    <2>1. \A x \in N : Base * x \in N
      BY <1>0, BaseIs
    <2> QED BY <1>0, <1>1, <2>1
  <1>3. PICK t : Recurses(t, n, N, base, step)
    BY <1>2, Recursion
  <1>4. t \in [0 .. n -> Nat] /\ t[0] = 1 /\ \A k \in 1 .. n : t[k] = step[k][t[k - 1]]
    BY <1>0, <1>3 DEF Recurses
  <1>5. ASSUME NEW k \in 1 .. n PROVE t[k] = Base * t[k - 1]
    <2>1. k - 1 \in 0 .. n
      OBVIOUS
    <2>2. t[k - 1] \in N
      BY <1>0, <1>4, <2>1
    <2> QED BY <1>1, <1>4, <2>2
  <1>6. Is(t)
    <2>1. ASSUME NEW k \in 0 .. n PROVE t[k] = IF k = 0 THEN 1 ELSE Base * t[k - 1]
      BY <1>4, <1>5
    <2> QED BY <1>4, <2>1
  <1>7. PICK p : p = (CHOOSE u : Is(u))
    OBVIOUS
  <1>8. Is(p)
    BY <1>6, <1>7
  <1>9. Size(n) = p[n]
    BY <1>7 DEF Size
  <1>10. p[0] = t[0]
    BY <1>4, <1>8
  <1>11. \A k \in 1 .. n : p[k - 1] = t[k - 1] => p[k] = t[k]
    <2>1. ASSUME NEW k \in 1 .. n, p[k - 1] = t[k - 1] PROVE p[k] = t[k]
      <3>1. p[k] = Base * p[k - 1]
        BY <1>8
      <3> QED BY <1>5, <2>1, <3>1
    <2> QED BY <2>1
  <1> HIDE DEF Is
  <1>12. \A k \in 0 .. n : p[k] = t[k]
    <2>1. Alike(p, t, n)
      BY <1>10, <1>11 DEF Alike
    <2> QED BY <2>1, Agree
  <1>13. n \in 0 .. n
    OBVIOUS
  <1>14. Powers(t, n)
    BY <1>4, <1>5 DEF Powers
  <1> QED BY <1>9, <1>12, <1>13, <1>14

LEMMA SizeIsEven ==
  ASSUME NEW n \in Nat \ {0}
  PROVE  \E half \in Nat : half # 0 /\ Size(n) = 2 * half /\ Size(n) \div 2 = half
  <1>1. PICK p : Powers(p, n) /\ Size(n) = p[n]
    BY SizeIs
  <1>2. PICK b \in Nat : Base = 2 * b /\ b # 0
    <2>1. Base \div 2 \in Nat /\ Base = 2 * (Base \div 2)
      BY BaseIs
    <2> QED BY <2>1, BaseIs
  <1>3. p \in [0 .. n -> Nat] /\ p[0] = 1 /\ \A k \in 1 .. n : p[k] = Base * p[k - 1]
    BY <1>1 DEF Powers
  <1> DEFINE T == {k \in 0 .. n : p[k] # 0}
  <1>4. 0 \in T
    BY <1>3
  <1>5. ASSUME NEW k \in 0 .. n - 1, k \in T PROVE k + 1 \in T
    <2>1. PICK j \in 1 .. n : j = k + 1 /\ j - 1 = k
      OBVIOUS
    <2>2. PICK x \in Nat : x = p[k] /\ x # 0
      BY <1>3, <1>5
    <2>3. p[j] = Base * x
      BY <1>3, <2>1, <2>2
    <2>4. Base * x # 0
      BY <2>2, BaseIs
    <2> QED BY <2>1, <2>3, <2>4
  <1> HIDE DEF T
  <1>6. \A k \in 0 .. n : k \in T
    BY <1>4, <1>5, SetInduction
  <1>7. PICK m \in 0 .. n : m = n - 1 /\ n \in 1 .. n
    OBVIOUS
  <1>8. PICK x \in Nat : x = p[m] /\ x # 0
    BY <1>3, <1>6 DEF T
  <1>9. Size(n) = Base * x
    BY <1>1, <1>3, <1>7, <1>8
  <1>10. PICK half \in Nat : half = b * x /\ half # 0
    BY <1>2, <1>8
  <1>11. Size(n) = 2 * half
    <2>1. (2 * b) * x = 2 * (b * x)
      OBVIOUS
    <2> QED BY <1>2, <1>9, <1>10, <2>1
  <1>12. (2 * half) \div 2 = half
    OBVIOUS
  <1> QED BY <1>10, <1>11, <1>12

(* u[k] is the number that the k bytes of most significance make.          *)
Uppers(u, low, n) == u \in [0 .. n -> Int] /\ u[0] = 0 /\ \A k \in 1 .. n : u[k] = Base * u[k - 1] + low[n - k + 1]

(* What Bits computes.                                                     *)
Upper(low, n) == CHOOSE u : u = [k \in 0 .. n |-> IF k = 0 THEN 0 ELSE Base * u[k - 1] + low[n - k + 1]]

LEMMA UppersIs ==
  ASSUME NEW n \in Nat, NEW low \in [1 .. n -> Int]
  PROVE  \E u : Uppers(u, low, n) /\ Upper(low, n)[n] = u[n]
  <1> DEFINE Is(t) == t = [k \in 0 .. n |-> IF k = 0 THEN 0 ELSE Base * t[k - 1] + low[n - k + 1]]
  <1>0. PICK N, base : N = Int /\ base = 0
    OBVIOUS
  <1>1. PICK step : step = [k \in 1 .. n |-> [x \in N |-> Base * x + low[n - k + 1]]]
    OBVIOUS
  <1>2. step \in [1 .. n -> [N -> N]]
    <2>1. ASSUME NEW k \in 1 .. n, NEW x \in N PROVE Base * x + low[n - k + 1] \in N
      <3>1. PICK i \in 1 .. n : i = n - k + 1
        OBVIOUS
      <3>3. low[i] \in Int
        OBVIOUS
      <3>4. Base * x \in Int
        BY <1>0, BaseIs
      <3> QED BY <1>0, <3>1, <3>3, <3>4
    <2>2. ASSUME NEW k \in 1 .. n PROVE [x \in N |-> Base * x + low[n - k + 1]] \in [N -> N]
      BY <2>1
    <2> QED BY <1>1, <2>2
  <1>3. PICK t : Recurses(t, n, N, base, step)
    <2>1. base \in N
      BY <1>0
    <2> QED BY <1>2, <2>1, Recursion
  <1>4. t \in [0 .. n -> Int] /\ t[0] = 0 /\ \A k \in 1 .. n : t[k] = step[k][t[k - 1]]
    BY <1>0, <1>3 DEF Recurses
  <1>5. ASSUME NEW k \in 1 .. n PROVE t[k] = Base * t[k - 1] + low[n - k + 1]
    <2>1. k - 1 \in 0 .. n
      OBVIOUS
    <2>2. t[k - 1] \in N
      BY <1>0, <1>4, <2>1
    <2> QED BY <1>1, <1>4, <2>2
  <1>6. Is(t)
    <2>1. ASSUME NEW k \in 0 .. n PROVE t[k] = IF k = 0 THEN 0 ELSE Base * t[k - 1] + low[n - k + 1]
      BY <1>4, <1>5
    <2> QED BY <1>4, <2>1
  <1>7. PICK u : u = (CHOOSE v : Is(v))
    OBVIOUS
  <1>8. Is(u)
    BY <1>6, <1>7
  <1>9. u = Upper(low, n)
    BY <1>7 DEF Upper
  <1>10. u[0] = t[0]
    BY <1>4, <1>8
  <1>11. \A k \in 1 .. n : u[k - 1] = t[k - 1] => u[k] = t[k]
    <2>1. ASSUME NEW k \in 1 .. n, u[k - 1] = t[k - 1] PROVE u[k] = t[k]
      <3>1. u[k] = Base * u[k - 1] + low[n - k + 1]
        BY <1>8
      <3> QED BY <1>5, <2>1, <3>1
    <2> QED BY <2>1
  <1>12. \A k \in 0 .. n : u[k] = t[k]
    <2> HIDE DEF Is
    <2>1. Alike(u, t, n)
      BY <1>10, <1>11 DEF Alike
    <2> QED BY <2>1, Agree
  <1>13. n \in 0 .. n
    OBVIOUS
  <1>14. Uppers(t, low, n)
    BY <1>4, <1>5 DEF Uppers
  <1> QED BY <1>9, <1>12, <1>13, <1>14

LEMMA BitsIs ==
  ASSUME NEW n \in Nat, NEW low \in [1 .. n -> Int], NEW bytes, Len(bytes) = n, NEW bigEndian \in BOOLEAN,
         low = (IF bigEndian THEN Reverse(bytes) ELSE bytes)
  PROVE  \E u : Uppers(u, low, n) /\ Bits(bytes, bigEndian) = u[n]
  <1>1. Bits(bytes, bigEndian) = Upper(low, n)[n]
    BY Zenon DEF Bits, Upper
  <1>2. \E u : Uppers(u, low, n) /\ Upper(low, n)[n] = u[n]
    BY UppersIs
  <1> QED BY <1>1, <1>2

(* g[k] is x without its k lowest digits.                                  *)
Quotients(g, x, n) == g \in [0 .. n -> Nat] /\ g[0] = x /\ \A k \in 1 .. n : g[k] = g[k - 1] \div Base

LEMMA DivBase ==
  ASSUME NEW x \in Nat
  PROVE  /\ x \div Base \in Nat /\ x % Base \in Digit /\ x % Base \in Nat /\ x % Base < Base
         /\ x = Base * (x \div Base) + (x % Base)
  BY BaseIs DEF Digit

(* What Encoded takes the digits from.                                     *)
Rest(x, n) == CHOOSE r : r = [i \in 1 .. n |-> IF i = 1 THEN x ELSE r[i - 1] \div Base]

LEMMA RestIs ==
  ASSUME NEW n \in Nat, NEW x \in Nat
  PROVE  \E g : Quotients(g, x, n) /\ \A i \in 1 .. n : Rest(x, n)[i] = g[i - 1]
  <1> DEFINE Is(r) == r = [i \in 1 .. n |-> IF i = 1 THEN x ELSE r[i - 1] \div Base]
  <1>0. PICK N : N = Nat
    OBVIOUS
  <1>1. PICK step : step = [k \in 1 .. n |-> [y \in N |-> y \div Base]]
    OBVIOUS
  <1>2. step \in [1 .. n -> [N -> N]] /\ x \in N
    <2>1. \A y \in N : y \div Base \in N
      BY <1>0, DivBase
    <2> QED BY <1>0, <1>1, <2>1
  <1>3. PICK g : Recurses(g, n, N, x, step)
    BY <1>2, Recursion
  <1>4. g \in [0 .. n -> Nat] /\ g[0] = x /\ \A k \in 1 .. n : g[k] = step[k][g[k - 1]]
    BY <1>0, <1>3 DEF Recurses
  <1>5. ASSUME NEW k \in 1 .. n PROVE g[k] = g[k - 1] \div Base
    <2>1. k - 1 \in 0 .. n
      OBVIOUS
    <2>2. g[k - 1] \in N
      BY <1>0, <1>4, <2>1
    <2> QED BY <1>1, <1>4, <2>2
  <1>6. PICK t : t = [i \in 1 .. n |-> g[i - 1]]
    OBVIOUS
  <1>7. Is(t)
    <2>1. ASSUME NEW i \in 1 .. n PROVE t[i] = IF i = 1 THEN x ELSE t[i - 1] \div Base
      <3>1. CASE i = 1
        BY <1>4, <1>6, <3>1
      <3>2. CASE i # 1
        <4>1. PICK k \in 1 .. n : k = i - 1
          BY <3>2
        <4>2. t[k] = g[k - 1] /\ g[k] = g[k - 1] \div Base
          BY <1>5, <1>6
        <4> QED BY <1>6, <3>2, <4>1, <4>2
      <3> QED BY <3>1, <3>2
    <2> QED BY <1>6, <2>1
  <1>8. PICK rest : rest = (CHOOSE r : Is(r))
    OBVIOUS
  <1>16. rest = Rest(x, n)
    BY <1>8 DEF Rest
  <1>9. Is(rest)
    BY <1>7, <1>8
  <1>10. \A i \in 1 .. n : rest[i] = IF i = 1 THEN x ELSE rest[i - 1] \div Base
    BY <1>9
  <1> HIDE DEF Is
  <1> DEFINE T == {k \in 0 .. n : k = 0 \/ rest[k] = g[k - 1]}
  <1>11. 0 \in T
    OBVIOUS
  <1>12. ASSUME NEW k \in 0 .. n - 1, k \in T PROVE k + 1 \in T
    <2>1. PICK i \in 1 .. n : i = k + 1 /\ i - 1 = k
      OBVIOUS
    <2>2. CASE k = 0
      <3>1. rest[i] = g[k]
        BY <1>4, <1>10, <2>1, <2>2
      <3> QED BY <2>1, <3>1
    <2>3. CASE k # 0
      <3>1. k \in 1 .. n
        BY <2>3
      <3>2. rest[i] = rest[k] \div Base
        BY <1>10, <2>1, <2>3
      <3>3. rest[i] = g[k]
        BY <1>5, <1>12, <2>3, <3>1, <3>2
      <3> QED BY <2>1, <3>3
    <2> QED BY <2>2, <2>3
  <1> HIDE DEF T
  <1>13. \A k \in 0 .. n : k \in T
    BY <1>11, <1>12, SetInduction
  <1>14. \A i \in 1 .. n : rest[i] = g[i - 1]
    BY <1>13 DEF T
  <1>15. Quotients(g, x, n)
    BY <1>4, <1>5 DEF Quotients
  <1> QED BY <1>14, <1>15, <1>16

(* What division takes apart Horner's rule puts together again.            *)
LEMMA Rebuilt ==
  ASSUME NEW n \in Nat, NEW x \in Nat, NEW g, Quotients(g, x, n), NEW low, low = [i \in 1 .. n |-> g[i - 1] % Base],
         NEW u, Uppers(u, low, n), NEW p, Powers(p, n)
  PROVE  \E top \in Nat : x = p[n] * top + u[n] /\ 0 <= u[n] /\ u[n] < p[n] /\ u[n] \in Int
  <1>1. g \in [0 .. n -> Nat] /\ g[0] = x /\ \A k \in 1 .. n : g[k] = g[k - 1] \div Base
    BY DEF Quotients
  <1>2. u \in [0 .. n -> Int] /\ u[0] = 0 /\ \A k \in 1 .. n : u[k] = Base * u[k - 1] + low[n - k + 1]
    BY DEF Uppers
  <1>3. p \in [0 .. n -> Nat] /\ p[0] = 1 /\ \A k \in 1 .. n : p[k] = Base * p[k - 1]
    BY DEF Powers
  <1>4. PICK top \in Nat : top = g[n]
    BY <1>1
  <1> DEFINE T == {k \in 0 .. n : g[n - k] = p[k] * top + u[k] /\ 0 <= u[k] /\ u[k] < p[k]}
  <1>5. 0 \in T
    <2>1. 0 \in 0 .. n /\ n - 0 = n
      OBVIOUS
    <2>2. p[0] * top + u[0] = top
      BY <1>2, <1>3, <1>4
    <2> QED BY <1>2, <1>3, <1>4, <2>1, <2>2
  <1>6. ASSUME NEW k \in 0 .. n - 1, k \in T PROVE k + 1 \in T
    <2>1. PICK j \in 1 .. n : j = k + 1 /\ j - 1 = k
      OBVIOUS
    <2>2. PICK i \in 1 .. n : i = n - j + 1 /\ i = n - k
      BY <2>1
    <2>3. PICK a \in Nat, b \in Nat : a = g[i - 1] /\ b = g[i] /\ i - 1 = n - j
      <3>1. i \in 0 .. n /\ i - 1 \in 0 .. n /\ i - 1 = n - j
        BY <2>2
      <3>2. g[i] \in Nat /\ g[i - 1] \in Nat
        BY <1>1, <3>1
      <3> QED BY <3>1, <3>2
    <2>4. PICK d \in Nat : d = low[i] /\ d = a % Base /\ d < Base
      <3>1. low[i] = a % Base
        BY <2>3
      <3> QED BY <3>1, DivBase
    <2>5. a = Base * b + d
      <3>1. b = a \div Base
        BY <1>1, <2>3
      <3> QED BY <2>4, <3>1, DivBase
    <2>6. PICK q \in Nat, v \in Int : q = p[k] /\ v = u[k]
      <3>1. k \in 0 .. n
        OBVIOUS
      <3> QED BY <1>2, <1>3, <3>1
    <2>7. b = q * top + v /\ 0 <= v /\ v < q
      BY <1>6, <2>2, <2>3, <2>6
    <2>8. p[j] = Base * q /\ u[j] = Base * v + d
      BY <1>2, <1>3, <2>1, <2>2, <2>4, <2>6
    <2>9. Base \in Nat /\ Base > 0
      BY BaseIs
    <2>10. Base * (q * top + v) = (Base * q) * top + Base * v
      <3>1. PICK B \in Nat : B = Base
        BY <2>9
      <3>2. B * (q * top + v) = (B * q) * top + B * v
        OBVIOUS
      <3> QED BY <3>1, <3>2
    <2>11. a = p[j] * top + u[j]
      <3>1. PICK B \in Nat, m \in Int, r \in Int : B = Base /\ m = (Base * q) * top /\ r = Base * v
        BY <2>9
      <3>2. Base * b = m + r
        BY <2>7, <2>10, <3>1
      <3>3. a = m + r + d
        BY <2>5, <3>2
      <3>4. p[j] * top = m /\ u[j] = r + d
        BY <2>8, <3>1
      <3> QED BY <3>1, <3>3, <3>4
    <2>12. 0 <= u[j] /\ u[j] < p[j]
      <3>1. PICK r \in Int, s \in Int : r = Base * v /\ s = Base * q
        BY <2>9
      <3>2. 0 <= r
        BY <2>7, <2>9, <3>1
      <3>3. r + Base <= s
        <4>1. v + 1 <= q
          BY <2>7
        <4>2. Base * (v + 1) <= Base * q
          BY <2>9, <4>1
        <4>3. Base * (v + 1) = Base * v + Base
          BY <2>9
        <4> QED BY <2>9, <3>1, <4>2, <4>3
      <3>4. u[j] = r + d /\ p[j] = s
        BY <2>8, <3>1
      <3> QED BY <2>4, <2>9, <3>2, <3>3, <3>4
    <2>13. g[n - j] = p[j] * top + u[j]
      BY <2>3, <2>11
    <2> QED BY <2>1, <2>12, <2>13
  <1> HIDE DEF T
  <1>7. \A k \in 0 .. n : k \in T
    BY <1>5, <1>6, SetInduction
  <1>8. n \in T /\ n - n = 0 /\ n \in 0 .. n
    BY <1>7
  <1>9. u[n] \in Int
    BY <1>2, <1>8
  <1> QED BY <1>1, <1>8, <1>9 DEF T

LEMMA NumbersAre ==
  ASSUME NEW type \in SampleType
  PROVE  /\ type.bytes \in Nat \ {0} /\ type.signed \in BOOLEAN
         /\ \E half \in Nat : /\ half # 0 /\ Size(type.bytes) = 2 * half /\ Size(type.bytes) \div 2 = half
                              /\ FullScale(type) = half - 1
                              /\ Lowest(type) = IF type.signed THEN -half ELSE 0
                              /\ \A number \in Numbers(type) :
                                   number \in Int /\ Lowest(type) <= number /\ number < Lowest(type) + 2 * half
  <1>1. type.bytes \in Nat \ {0} /\ type.signed \in BOOLEAN
    BY DEF SampleType
  <1>2. PICK half \in Nat : half # 0 /\ Size(type.bytes) = 2 * half /\ Size(type.bytes) \div 2 = half
    BY <1>1, SizeIsEven
  <1>3. Lowest(type) = IF type.signed THEN -half ELSE 0
    BY <1>2 DEF Lowest
  <1>4. FullScale(type) = half - 1
    BY <1>2 DEF FullScale
  <1>5. Numbers(type) = Lowest(type) .. Lowest(type) + 2 * half - 1
    BY <1>2 DEF Numbers
  <1>6. Lowest(type) \in Int
    BY <1>1, <1>3
  <1> QED BY <1>1, <1>2, <1>3, <1>4, <1>5, <1>6

(* A number is encoded in the bytes of its type, which decode to it.       *)
LEMMA EncodedIs ==
  ASSUME NEW type \in SampleType, NEW number \in Numbers(type), NEW bigEndian \in BOOLEAN
  PROVE  /\ Encoded(type, number, bigEndian) \in Seq(Digit)
         /\ Len(Encoded(type, number, bigEndian)) = type.bytes
         /\ decodeRawSample(type, Encoded(type, number, bigEndian), bigEndian) = number
  <1>1. PICK n \in Nat, signed \in BOOLEAN : n = type.bytes /\ n # 0 /\ signed = type.signed
    BY NumbersAre
  <1>2. PICK half \in Nat : /\ half # 0 /\ Size(n) = 2 * half
                            /\ Lowest(type) = IF signed THEN -half ELSE 0
                            /\ number \in Int /\ Lowest(type) <= number /\ number < Lowest(type) + 2 * half
    BY <1>1, NumbersAre
  <1>3. PICK x \in Nat : x = number + Size(type.bytes)
    BY <1>1, <1>2
  <1>5. PICK low : low = [i \in 1 .. type.bytes |-> Rest(number + Size(type.bytes), type.bytes)[i] % Base]
    OBVIOUS
  <1>6. PICK bytes : bytes = Encoded(type, number, bigEndian)
    OBVIOUS
  <1>7. bytes = IF bigEndian THEN Reverse(low) ELSE low
    BY <1>5, <1>6 DEF Encoded, Rest
  <1>8. PICK g : Quotients(g, x, n) /\ \A i \in 1 .. n : Rest(x, n)[i] = g[i - 1]
    BY RestIs
  <1>9. low = [i \in 1 .. n |-> g[i - 1] % Base]
    BY <1>1, <1>3, <1>5, <1>8
  <1>10. low \in [1 .. n -> Digit]
    <2>1. ASSUME NEW i \in 1 .. n PROVE g[i - 1] % Base \in Digit
      <3>1. i - 1 \in 0 .. n
        OBVIOUS
      <3>2. g[i - 1] \in Nat
        BY <1>8, <3>1 DEF Quotients
      <3> QED BY <3>2, DivBase
    <2> QED BY <1>9, <2>1
  <1>11. low \in Seq(Digit) /\ Len(low) = n
    BY <1>10, FunctionIsSeq
  <1>12. Reverse(low) \in Seq(Digit) /\ Len(Reverse(low)) = n /\ Reverse(Reverse(low)) = low
    BY <1>11, ReverseTwice
  <1>13. bytes \in Seq(Digit) /\ Len(bytes) = n /\ low = IF bigEndian THEN Reverse(bytes) ELSE bytes
    BY <1>7, <1>11, <1>12
  <1>14. low \in [1 .. n -> Int]
    <2>1. \A d \in Digit : d \in Int
      BY BaseIs DEF Digit
    <2> QED BY <1>10, <2>1
  <1>15. PICK u : Uppers(u, low, n) /\ Bits(bytes, bigEndian) = u[n]
    BY <1>13, <1>14, BitsIs
  <1>16. PICK p : Powers(p, n) /\ Size(n) = p[n]
    BY SizeIs
  <1>17. PICK top \in Nat : x = p[n] * top + u[n] /\ 0 <= u[n] /\ u[n] < p[n] /\ u[n] \in Int
    BY <1>8, <1>9, <1>15, <1>16, Rebuilt
  <1>18. PICK bits \in Int : bits = u[n] /\ bits = Bits(bytes, bigEndian)
    BY <1>15, <1>17
  <1>19. x = (2 * half) * top + bits /\ 0 <= bits /\ bits < 2 * half /\ x = number + 2 * half
    BY <1>1, <1>2, <1>3, <1>16, <1>17, <1>18
  <1>20. bits = IF number < 0 THEN number + 2 * half ELSE number
    <2>1. PICK z \in Nat : z = 2 * half /\ z # 0
      BY <1>2
    <2>2. number + z = z * top + bits /\ 0 <= bits /\ bits < z
      BY <1>19, <2>1
    <2>3. CASE top = 0
      <3>1. z * top = 0
        BY <2>1, <2>3
      <3> QED BY <1>2, <2>1, <2>2, <3>1
    <2>4. CASE top = 1
      <3>1. z * top = z
        BY <2>1, <2>4
      <3> QED BY <1>2, <2>1, <2>2, <3>1
    <2>5. CASE top >= 2
      <3>1. z * top >= z * 2
        BY <2>1, <2>5
      <3>2. number < z
        BY <1>2, <2>1
      <3>3. FALSE
        BY <1>2, <2>1, <2>2, <3>1, <3>2
      <3> QED BY <3>3
    <2> QED BY <2>3, <2>4, <2>5
  <1>21. decodeRawSample(type, bytes, bigEndian) = number
    <2>1. decodeRawSample(type, bytes, bigEndian) =
            IF signed /\ 2 * bits >= 2 * half THEN bits - 2 * half ELSE bits
      BY <1>1, <1>2, <1>18 DEF decodeRawSample
    <2>2. CASE signed
      BY <1>2, <1>20, <2>1, <2>2
    <2>3. CASE ~signed
      BY <1>2, <1>20, <2>1, <2>3
    <2> QED BY <2>2, <2>3
  <1> QED BY <1>1, <1>6, <1>13, <1>21
-----------------------------------------------------------------------------
(* Where the samples of a recording are.                                   *)

(* o[ch] is where the samples of a channel begin.                          *)
LEMMA OffsetIs ==
  ASSUME NEW channels \in Seq(SampleType), NEW at,
         at \in [0 .. Len(channels) -> Nat], at[0] = 0,
         \A k \in 1 .. Len(channels) : at[k] = at[k - 1] + channels[k].bytes,
         NEW ch \in 1 .. Len(channels) + 1
  PROVE  Offset(channels, ch) = at[ch - 1]
  <1>0. PICK n \in Nat : n = Len(channels)
    BY LenProperties
  <1> DEFINE Is(t) == t = [c \in 1 .. ch |-> IF c = 1 THEN 0 ELSE t[c - 1] + channels[c - 1].bytes]
  <1>1. PICK t : t = [c \in 1 .. ch |-> at[c - 1]]
    OBVIOUS
  <1>2. Is(t)
    <2>1. ASSUME NEW c \in 1 .. ch PROVE t[c] = IF c = 1 THEN 0 ELSE t[c - 1] + channels[c - 1].bytes
      <3>1. CASE c = 1
        BY <1>1, <3>1
      <3>2. CASE c # 1
        <4>1. PICK k \in 1 .. ch : k = c - 1 /\ k \in 1 .. n
          BY <1>0, <3>2
        <4>2. at[k] = at[k - 1] + channels[k].bytes /\ t[c] = at[k] /\ t[k] = at[k - 1]
          BY <1>0, <1>1, <4>1
        <4> QED BY <3>2, <4>1, <4>2
      <3> QED BY <3>1, <3>2
    <2> QED BY <1>1, <2>1
  <1>3. PICK first : first = (CHOOSE f : Is(f))
    OBVIOUS
  <1>4. Is(first)
    BY <1>2, <1>3
  <1>5. Offset(channels, ch) = first[ch]
    BY <1>3 DEF Offset
  <1>6. \A c \in 1 .. ch : first[c] = IF c = 1 THEN 0 ELSE first[c - 1] + channels[c - 1].bytes
    BY <1>4
  <1> HIDE DEF Is
  <1> DEFINE T == {k \in 0 .. ch : k = 0 \/ first[k] = at[k - 1]}
  <1>7. 0 \in T
    BY <1>0
  <1>8. ASSUME NEW k \in 0 .. ch - 1, k \in T PROVE k + 1 \in T
    <2>1. PICK c \in 1 .. ch : c = k + 1 /\ c - 1 = k
      BY <1>0
    <2>2. CASE k = 0
      <3>1. first[c] = at[k]
        BY <1>6, <2>1, <2>2
      <3> QED BY <2>1, <3>1
    <2>3. CASE k # 0
      <3>1. k \in 1 .. n
        BY <1>0, <2>3
      <3>2. at[k] = at[k - 1] + channels[k].bytes
        BY <1>0, <3>1
      <3>3. first[c] = first[k] + channels[k].bytes
        BY <1>6, <2>1, <2>3
      <3>4. first[c] = at[k]
        BY <1>8, <2>3, <3>2, <3>3
      <3> QED BY <2>1, <3>4
    <2> QED BY <2>2, <2>3
  <1> HIDE DEF T
  <1>9. \A k \in 0 .. ch : k \in T
    <2>1. ch \in Nat
      BY <1>0
    <2> QED BY <1>7, <1>8, <2>1, SetInduction
  <1>10. ch \in T /\ ch # 0
    BY <1>0, <1>9
  <1> QED BY <1>5, <1>10 DEF T

Starts(at, channels) ==
  /\ at \in [0 .. Len(channels) -> Nat] /\ at[0] = 0
  /\ \A k \in 1 .. Len(channels) : at[k] = at[k - 1] + channels[k].bytes

LEMMA StartsExist ==
  ASSUME NEW channels \in Seq(SampleType)
  PROVE  \E at : Starts(at, channels)
  <1>0. PICK n \in Nat : n = Len(channels) /\ \A k \in 1 .. n : channels[k] \in SampleType
    BY LenProperties
  <1>1. PICK N, base : N = Nat /\ base = 0
    OBVIOUS
  <1>2. PICK width : width = [k \in 1 .. n |-> channels[k].bytes] /\ width \in [1 .. n -> Nat]
    <2>1. \A k \in 1 .. n : channels[k].bytes \in Nat
      BY <1>0, NumbersAre
    <2>2. PICK width : width = [k \in 1 .. n |-> channels[k].bytes]
      OBVIOUS
    <2>3. width \in [1 .. n -> Nat]
      BY <2>1, <2>2
    <2> QED BY <2>2, <2>3
  <1>3. PICK step : step = [k \in 1 .. n |-> [x \in N |-> x + width[k]]]
    OBVIOUS
  <1>4. step \in [1 .. n -> [N -> N]] /\ base \in N
    <2>1. \A k \in 1 .. n : \A x \in N : x + width[k] \in N
      BY <1>1, <1>2
    <2> QED BY <1>1, <1>3, <2>1
  <1>5. PICK at : Recurses(at, n, N, base, step)
    BY <1>4, Recursion
  <1>6. at \in [0 .. n -> Nat] /\ at[0] = 0 /\ \A k \in 1 .. n : at[k] = step[k][at[k - 1]]
    BY <1>1, <1>5 DEF Recurses
  <1>7. ASSUME NEW k \in 1 .. n PROVE at[k] = at[k - 1] + channels[k].bytes
    <2>1. k - 1 \in 0 .. n
      OBVIOUS
    <2>2. at[k - 1] \in N
      BY <1>1, <1>6, <2>1
    <2> QED BY <1>2, <1>3, <1>6, <2>2
  <1>8. Starts(at, channels)
    BY <1>0, <1>6, <1>7 DEF Starts
  <1> QED BY <1>8

(* A frame that the recorder writes, and bytes that hold it from a place.  *)
IsFrame(frame, channels) == \A ch \in 1 .. Len(channels) : frame[ch] \in Numbers(channels[ch])

Holds(flat, base, at, channels, frame, bigEndian) ==
  \A ch \in 1 .. Len(channels) : \A j \in 1 .. channels[ch].bytes :
    /\ base + at[ch - 1] + j \in 1 .. Len(flat)
    /\ flat[base + at[ch - 1] + j] = Encoded(channels[ch], frame[ch], bigEndian)[j]

LEMMA RecordedIs ==
  ASSUME NEW channels \in Seq(SampleType), NEW at, Starts(at, channels), NEW frame, IsFrame(frame, channels),
         NEW bigEndian \in BOOLEAN
  PROVE  /\ Recorded(channels, frame, bigEndian) \in Seq(Digit)
         /\ Len(Recorded(channels, frame, bigEndian)) = at[Len(channels)]
         /\ Holds(Recorded(channels, frame, bigEndian), 0, at, channels, frame, bigEndian)
  <1>0. PICK n \in Nat : n = Len(channels) /\ DOMAIN channels = 1 .. n /\ \A k \in 1 .. n : channels[k] \in SampleType
    BY LenProperties
  <1>1. PICK seqs : seqs = [ch \in 1 .. n |-> Encoded(channels[ch], frame[ch], bigEndian)]
    OBVIOUS
  <1>2. ASSUME NEW ch \in 1 .. n PROVE seqs[ch] \in Seq(Digit) /\ Len(seqs[ch]) = channels[ch].bytes
    <2>1. PICK type, number : type \in SampleType /\ type = channels[ch] /\ number = frame[ch] /\ number \in Numbers(type)
      BY <1>0 DEF IsFrame
    <2>2. Encoded(type, number, bigEndian) \in Seq(Digit) /\ Len(Encoded(type, number, bigEndian)) = type.bytes
      BY <2>1, EncodedIs
    <2> QED BY <1>1, <2>1, <2>2
  <1>3. seqs \in Seq(Seq(Digit)) /\ Len(seqs) = n
    <2>1. seqs \in [1 .. n -> Seq(Digit)]
      BY <1>1, <1>2
    <2> QED BY <2>1, FunctionIsSeq
  <1>4. Ends(at, seqs)
    BY <1>0, <1>2, <1>3 DEF Starts, Ends
  <1>5. PICK flat : flat = FlattenSeq(seqs) /\ flat \in Seq(Digit) /\ LaidOut(flat, at, seqs)
    BY <1>3, <1>4, FlattenIs
  <1>6. Recorded(channels, frame, bigEndian) = flat
    BY <1>0, <1>1, <1>5 DEF Recorded
  <1>7. /\ Len(flat) = at[n]
        /\ \A k \in 1 .. n : at[k] <= Len(flat)
        /\ \A k \in 1 .. n : \A j \in 1 .. Len(seqs[k]) : flat[at[k - 1] + j] = seqs[k][j]
    BY <1>3, <1>5 DEF LaidOut
  <1>8. ASSUME NEW ch \in 1 .. n, NEW j \in 1 .. channels[ch].bytes
        PROVE  /\ 0 + at[ch - 1] + j \in 1 .. Len(flat)
               /\ flat[0 + at[ch - 1] + j] = Encoded(channels[ch], frame[ch], bigEndian)[j]
    <2>1. ch - 1 \in 0 .. n /\ channels[ch].bytes \in Nat
      BY <1>0, NumbersAre
    <2>2. PICK a \in Nat, w \in Nat, size \in Nat : /\ a = at[ch - 1] /\ w = channels[ch].bytes
                                                  /\ a + w <= size /\ size = Len(flat)
      <3>1. at[ch] = at[ch - 1] + channels[ch].bytes /\ at \in [0 .. n -> Nat]
        BY <1>0 DEF Starts
      <3>2. at[ch - 1] \in Nat /\ at[n] \in Nat /\ at[ch] <= Len(flat)
        BY <1>7, <2>1, <3>1
      <3> QED BY <1>7, <2>1, <3>1, <3>2
    <2>3. 0 + a + j = a + j /\ a + j \in 1 .. size
      BY <2>2
    <2>4. flat[a + j] = seqs[ch][j]
      BY <1>2, <1>7, <2>2
    <2> QED BY <1>1, <2>2, <2>3, <2>4
  <1>9. Holds(flat, 0, at, channels, frame, bigEndian)
    BY <1>0, <1>8 DEF Holds
  <1> QED BY <1>0, <1>5, <1>6, <1>7, <1>9

(* Bytes that contain others hold what they hold.                          *)
ContainsAt(big, base, small) ==
  \A m \in 1 .. Len(small) : base + m \in 1 .. Len(big) /\ big[base + m] = small[m]

LEMMA Contained ==
  ASSUME NEW small \in Seq(Digit), NEW big \in Seq(Digit), NEW base \in Nat, ContainsAt(big, base, small),
         NEW channels \in Seq(SampleType), NEW at, Starts(at, channels), NEW frame, NEW bigEndian,
         Holds(small, 0, at, channels, frame, bigEndian)
  PROVE  Holds(big, base, at, channels, frame, bigEndian)
  <1>0. PICK n \in Nat : n = Len(channels) /\ \A k \in 1 .. n : channels[k] \in SampleType
    BY LenProperties
  <1>1. ASSUME NEW ch \in 1 .. n, NEW j \in 1 .. channels[ch].bytes
        PROVE  /\ base + at[ch - 1] + j \in 1 .. Len(big)
               /\ big[base + at[ch - 1] + j] = Encoded(channels[ch], frame[ch], bigEndian)[j]
    <2>1. ch - 1 \in 0 .. n
      OBVIOUS
    <2>2. PICK a \in Nat : a = at[ch - 1]
      BY <1>0, <2>1 DEF Starts
    <2>3. 0 + a + j \in 1 .. Len(small) /\ small[0 + a + j] = Encoded(channels[ch], frame[ch], bigEndian)[j]
      BY <1>0, <2>2 DEF Holds
    <2>4. PICK m \in 1 .. Len(small) : m = a + j /\ 0 + a + j = m
      <3>1. j \in Nat
        BY <1>0, NumbersAre
      <3> QED BY <2>2, <2>3, <3>1
    <2>5. base + a + j = base + m
      <3>1. j \in Nat
        BY <1>0, NumbersAre
      <3> QED BY <2>2, <2>4, <3>1
    <2>6. base + m \in 1 .. Len(big) /\ big[base + m] = small[m]
      BY <2>4 DEF ContainsAt
    <2> QED BY <2>2, <2>3, <2>4, <2>5, <2>6
  <1> QED BY <1>0, <1>1 DEF Holds

(* Sequences of one length, joined: the f-th one begins after f - 1 others. *)
LEMMA EvenlyLaid ==
  ASSUME NEW count \in Nat, NEW size \in Nat, NEW seqs \in [1 .. count -> Seq(Digit)],
         \A f \in 1 .. count : Len(seqs[f]) = size
  PROVE  /\ FlattenSeq(seqs) \in Seq(Digit) /\ Len(FlattenSeq(seqs)) = size * count
         /\ \A f \in 1 .. count : ContainsAt(FlattenSeq(seqs), (f - 1) * size, seqs[f])
  <1>1. seqs \in Seq(Seq(Digit)) /\ Len(seqs) = count
    BY FunctionIsSeq
  <1>2. PICK ends : ends = [f \in 0 .. count |-> f * size]
    OBVIOUS
  <1>3. Ends(ends, seqs)
    <2>1. ASSUME NEW f \in 1 .. count PROVE ends[f] = ends[f - 1] + Len(seqs[f])
      <3>1. f * size = (f - 1) * size + size
        OBVIOUS
      <3>2. ends[f] = f * size /\ ends[f - 1] = (f - 1) * size
        BY <1>2
      <3>3. Len(seqs[f]) = size
        OBVIOUS
      <3> QED BY <3>1, <3>2, <3>3
    <2>2. ends \in [0 .. count -> Nat] /\ ends[0] = 0
      <3>1. \A f \in 0 .. count : f * size \in Nat
        OBVIOUS
      <3>2. 0 * size = 0 /\ 0 \in 0 .. count
        OBVIOUS
      <3> QED BY <1>2, <3>1, <3>2
    <2> QED BY <1>1, <2>1, <2>2 DEF Ends
  <1>4. PICK flat : flat = FlattenSeq(seqs) /\ flat \in Seq(Digit) /\ LaidOut(flat, ends, seqs)
    BY <1>1, <1>3, FlattenIs
  <1>5. PICK total \in Nat : total = size * count /\ total = Len(flat)
    <2>1. Len(flat) = ends[count]
      BY <1>1, <1>4 DEF LaidOut
    <2>2. count * size = size * count /\ size * count \in Nat
      OBVIOUS
    <2> QED BY <1>2, <2>1, <2>2
  <1>6. ASSUME NEW f \in 1 .. count PROVE ContainsAt(flat, (f - 1) * size, seqs[f])
    <2>1. PICK before \in Nat : before = (f - 1) * size /\ before + size <= total
      <3>1. (f - 1) * size + size = f * size
        OBVIOUS
      <3>2. f * size <= count * size
        OBVIOUS
      <3>3. (f - 1) * size \in Nat /\ count * size = size * count
        OBVIOUS
      <3> QED BY <1>5, <3>1, <3>2, <3>3
    <2>2. \A m \in 1 .. size : flat[before + m] = seqs[f][m]
      <3>1. \A i \in 1 .. Len(seqs[f]) : flat[ends[f - 1] + i] = seqs[f][i]
        BY <1>1, <1>4 DEF LaidOut
      <3>2. ends[f - 1] = before
        BY <1>2, <2>1
      <3> QED BY <3>1, <3>2
    <2>3. \A m \in 1 .. size : before + m \in 1 .. total
      BY <2>1
    <2> QED BY <1>5, <2>1, <2>2, <2>3 DEF ContainsAt
  <1> QED BY <1>4, <1>5, <1>6

(* The buffer of a recording: frames of so many bytes, one after another.  *)
Recording(buffer, size, count, at, r) ==
  /\ size = at[Len(r.channels)] /\ size # 0 /\ bytesPerFrame(r.channels) = size
  /\ count = Len(r.frames) /\ DOMAIN r.frames = 1 .. count /\ count # 0
  /\ size * count <= Len(buffer) /\ Len(buffer) <= size * count + size - 1
  /\ \A f \in 1 .. count : Holds(buffer, (f - 1) * size, at, r.channels, r.frames[f], r.bigEndian)

LEMMA BufferIs ==
  ASSUME NEW r \in SamplesRequest, NEW at, Starts(at, r.channels)
  PROVE  /\ Buffer(r) \in Seq(Digit)
         /\ \E size \in Nat, count \in Nat : Recording(Buffer(r), size, count, at, r)
  <1>1. PICK channels \in Seq(SampleType), frames \in Seq(Seq(Int)), bigEndian \in BOOLEAN, tail \in Seq(Digit) :
          /\ channels = r.channels /\ frames = r.frames /\ bigEndian = r.bigEndian /\ tail = r.tail
          /\ channels # <<>> /\ frames # <<>> /\ Len(tail) < bytesPerFrame(channels)
          /\ \A f \in DOMAIN frames : \A ch \in DOMAIN channels : frames[f][ch] \in Numbers(channels[ch])
    BY DEF SamplesRequest, Digit
  <1>2. PICK n \in Nat : n = Len(channels) /\ DOMAIN channels = 1 .. n /\ n # 0
                         /\ \A k \in 1 .. n : channels[k] \in SampleType
    BY <1>1, LenProperties, EmptySeq
  <1>3. PICK count \in Nat : count = Len(frames) /\ DOMAIN frames = 1 .. count /\ count # 0
    BY <1>1, LenProperties, EmptySeq
  <1>4. at \in [0 .. n -> Nat] /\ at[0] = 0 /\ (\A k \in 1 .. n : at[k] = at[k - 1] + channels[k].bytes)
        /\ Starts(at, channels)
    BY <1>1, <1>2 DEF Starts
  <1>5. PICK size \in Nat : size = at[n]
    BY <1>4
  <1>6. bytesPerFrame(channels) = size
    <2>1. PICK c \in 1 .. Len(channels) + 1 : c = Len(channels) + 1 /\ c - 1 = n
      BY <1>2
    <2>2. /\ at \in [0 .. Len(channels) -> Nat] /\ at[0] = 0
          /\ \A k \in 1 .. Len(channels) : at[k] = at[k - 1] + channels[k].bytes
      BY <1>2, <1>4
    <2>3. Offset(channels, c) = at[c - 1]
      BY <2>2, OffsetIs
    <2> QED BY <1>5, <2>1, <2>3 DEF bytesPerFrame
  <1>7. PICK seqs : seqs = [f \in 1 .. count |-> Recorded(channels, frames[f], bigEndian)]
    OBVIOUS
  <1>8. ASSUME NEW f \in 1 .. count
        PROVE  /\ seqs[f] \in Seq(Digit) /\ Len(seqs[f]) = size
               /\ Holds(seqs[f], 0, at, channels, frames[f], bigEndian)
    <2>1. PICK frame : frame = frames[f]
      OBVIOUS
    <2>2. IsFrame(frame, channels)
      BY <1>1, <1>2, <1>3, <2>1 DEF IsFrame
    <2>3. /\ Recorded(channels, frame, bigEndian) \in Seq(Digit)
          /\ Len(Recorded(channels, frame, bigEndian)) = at[Len(channels)]
          /\ Holds(Recorded(channels, frame, bigEndian), 0, at, channels, frame, bigEndian)
      BY <1>4, <2>2, RecordedIs
    <2> QED BY <1>2, <1>5, <1>7, <2>1, <2>3
  <1>9. size # 0
    <2>1. 1 \in 1 .. n /\ 1 \in 1 .. count
      BY <1>2, <1>3
    <2>2. PICK w \in Nat : w = channels[1].bytes /\ w # 0
      BY <1>2, <2>1, NumbersAre
    <2>3. 1 \in 1 .. channels[1].bytes
      BY <2>2
    <2>4. 0 + at[1 - 1] + 1 \in 1 .. Len(seqs[1])
      BY <1>2, <1>8, <2>1, <2>3 DEF Holds
    <2>5. 1 \in 1 .. size
      <3>1. at[1 - 1] = 0 /\ Len(seqs[1]) = size
        BY <1>4, <1>8, <2>1
      <3> QED BY <2>4, <3>1
    <2> QED BY <2>5
  <1>10. seqs \in [1 .. count -> Seq(Digit)] /\ \A f \in 1 .. count : Len(seqs[f]) = size
    BY <1>7, <1>8
  <1>11. PICK flat : /\ flat = FlattenSeq(seqs) /\ flat \in Seq(Digit) /\ Len(flat) = size * count
                     /\ \A f \in 1 .. count : ContainsAt(flat, (f - 1) * size, seqs[f])
    BY <1>10, EvenlyLaid
  <1>12. PICK total \in Nat : total = size * count /\ total = Len(flat)
    BY <1>11, LenProperties
  <1>13. PICK rest \in Nat : rest = Len(tail) /\ rest < size
    BY <1>1, <1>6, LenProperties
  <1>14. PICK buffer : buffer = flat \o tail
    OBVIOUS
  <1>15. buffer \in Seq(Digit) /\ Len(buffer) = total + rest
         /\ \A m \in 1 .. total + rest : buffer[m] = IF m <= total THEN flat[m] ELSE tail[m - total]
    <2>1. IsJoin(flat \o tail, flat, tail, total, rest)
      BY <1>11, <1>12, <1>13, Joined
    <2>2. flat \o tail \in Seq(Digit)
      BY <1>11, ConcatProperties
    <2>3. Len(flat \o tail) = Len(flat) + Len(tail)
      BY <1>11, ConcatProperties
    <2> QED BY <1>12, <1>13, <1>14, <2>1, <2>2, <2>3 DEF IsJoin
  <1>16. buffer = Buffer(r)
    BY <1>1, <1>3, <1>7, <1>11, <1>14 DEF Buffer
  <1>17. ASSUME NEW f \in 1 .. count
         PROVE  Holds(buffer, (f - 1) * size, at, channels, frames[f], bigEndian)
    <2>1. PICK before \in Nat : before = (f - 1) * size
      <3>1. (f - 1) * size \in Nat
        OBVIOUS
      <3> QED BY <3>1
    <2>2. PICK small, frame : /\ small = seqs[f] /\ small \in Seq(Digit) /\ frame = frames[f]
                              /\ Holds(small, 0, at, channels, frame, bigEndian)
      BY <1>8
    <2>3. ContainsAt(flat, before, small)
      BY <1>11, <2>1, <2>2
    <2>4. ContainsAt(buffer, before, small)
      <3>1. ASSUME NEW m \in 1 .. Len(small) PROVE before + m \in 1 .. Len(buffer) /\ buffer[before + m] = small[m]
        <4>1. PICK i \in 1 .. total : i = before + m /\ flat[i] = small[m]
          BY <1>12, <2>3 DEF ContainsAt
        <4>2. i \in 1 .. total + rest /\ i <= total
          OBVIOUS
        <4> QED BY <1>15, <4>1, <4>2
      <3> QED BY <3>1 DEF ContainsAt
    <2>5. Holds(buffer, before, at, channels, frame, bigEndian)
      BY <1>4, <1>15, <2>2, <2>4, Contained
    <2> QED BY <2>1, <2>2, <2>5
  <1>18. size * count <= Len(buffer) /\ Len(buffer) <= size * count + size - 1
    BY <1>12, <1>13, <1>15
  <1>19. Recording(buffer, size, count, at, r)
    BY <1>1, <1>2, <1>3, <1>5, <1>6, <1>9, <1>17, <1>18 DEF Recording
  <1> QED BY <1>15, <1>16, <1>19

(* A part of a sequence.                                                   *)
AllWithin(seq, m, n, S) == \A i \in m .. n : seq[i] \in S

IsSlice(slice, seq, m, n, S) ==
  /\ slice \in Seq(S) /\ Len(slice) = IF m <= n THEN n - m + 1 ELSE 0
  /\ \A i \in 1 .. n - m + 1 : slice[i] = seq[m + i - 1]

LEMMA SliceIs ==
  ASSUME NEW S, NEW seq, NEW m \in Int, NEW n \in Int, AllWithin(seq, m, n, S)
  PROVE  IsSlice(SubSeq(seq, m, n), seq, m, n, S)
  <1>1. \A i \in m .. n : seq[i] \in S
    BY DEF AllWithin
  <1>2. /\ SubSeq(seq, m, n) \in Seq(S)
        /\ Len(SubSeq(seq, m, n)) = IF m <= n THEN n - m + 1 ELSE 0
        /\ \A i \in 1 .. n - m + 1 : SubSeq(seq, m, n)[i] = seq[m + i - 1]
    BY <1>1, SubSeqProperties
  <1> QED BY <1>2 DEF IsSlice

(* What the decoder takes as a sample is what was written as one.          *)
LEMMA SampleIs ==
  ASSUME NEW r \in SamplesRequest, NEW at, Starts(at, r.channels), NEW size \in Nat, NEW count \in Nat,
         Recording(Buffer(r), size, count, at, r), Buffer(r) \in Seq(Digit),
         NEW f \in 1 .. count, NEW ch \in 1 .. Len(r.channels)
  PROVE  Sample(Buffer(r), r.channels, f, ch) = Encoded(r.channels[ch], r.frames[f][ch], r.bigEndian)
  <1>1. PICK channels \in Seq(SampleType), bigEndian \in BOOLEAN, buffer \in Seq(Digit) :
          channels = r.channels /\ bigEndian = r.bigEndian /\ buffer = Buffer(r)
    BY DEF SamplesRequest
  <1>2. PICK n \in Nat : n = Len(channels) /\ DOMAIN channels = 1 .. n /\ \A k \in 1 .. n : channels[k] \in SampleType
    BY LenProperties
  <1>3. PICK type, number : type \in SampleType /\ type = channels[ch] /\ number = r.frames[f][ch] /\ number \in Numbers(type)
    <2>1. f \in DOMAIN r.frames /\ ch \in DOMAIN r.channels
      BY <1>1, <1>2 DEF Recording
    <2>2. r.frames[f][ch] \in Numbers(r.channels[ch])
      BY <2>1 DEF SamplesRequest
    <2> QED BY <1>1, <1>2, <2>2
  <1>4. PICK word : /\ word = Encoded(type, number, bigEndian) /\ word \in Seq(Digit)
                    /\ Len(word) = type.bytes /\ type.bytes \in Nat
    BY <1>3, EncodedIs, NumbersAre
  <1>5. at \in [0 .. n -> Nat] /\ at[0] = 0 /\ \A k \in 1 .. n : at[k] = at[k - 1] + channels[k].bytes
    BY <1>1, <1>2 DEF Starts
  <1>6. Offset(channels, ch) = at[ch - 1]
    <2>1. PICK c \in 1 .. Len(channels) + 1 : c = ch
      BY <1>1, <1>2
    <2>2. /\ at \in [0 .. Len(channels) -> Nat] /\ at[0] = 0
          /\ \A k \in 1 .. Len(channels) : at[k] = at[k - 1] + channels[k].bytes
      BY <1>2, <1>5
    <2>3. Offset(channels, c) = at[c - 1]
      BY <2>2, OffsetIs
    <2> QED BY <2>1, <2>3
  <1>7. PICK a \in Nat : a = at[ch - 1]
    <2>1. ch - 1 \in 0 .. n
      BY <1>1, <1>2
    <2> QED BY <1>5, <2>1
  <1>8. PICK base \in Nat : base = (f - 1) * size
    <2>1. (f - 1) * size \in Nat
      OBVIOUS
    <2> QED BY <2>1
  <1>9. bytesPerFrame(channels) = size
    BY <1>1 DEF Recording
  <1>10. PICK first \in Nat : first = base + a
    OBVIOUS
  <1>11. PICK w \in Nat : w = type.bytes
    BY <1>4
  <1>12. Sample(buffer, channels, f, ch) = SubSeq(buffer, first + 1, first + w)
    BY <1>3, <1>6, <1>7, <1>8, <1>9, <1>10, <1>11 DEF Sample
  <1>13. \A j \in 1 .. w : first + j \in 1 .. Len(buffer) /\ buffer[first + j] = word[j]
    <2>1. PICK frame : frame = r.frames[f]
      OBVIOUS
    <2>2. Holds(buffer, base, at, channels, frame, bigEndian)
      BY <1>1, <1>8, <2>1 DEF Recording
    <2>3. \A j \in 1 .. channels[ch].bytes : /\ base + at[ch - 1] + j \in 1 .. Len(buffer)
                                            /\ buffer[base + at[ch - 1] + j] = Encoded(channels[ch], frame[ch], bigEndian)[j]
      BY <1>1, <2>2 DEF Holds
    <2> QED BY <1>3, <1>4, <1>7, <1>10, <1>11, <2>1, <2>3
  <1>14. PICK m \in Int, k \in Int : m = first + 1 /\ k = first + w
    OBVIOUS
  <1>15. \A i \in m .. k : buffer[i] \in Digit
    <2>1. ASSUME NEW i \in m .. k PROVE buffer[i] \in Digit
      <3>1. PICK j \in 1 .. w : i = first + j
        <4>1. i - first \in 1 .. w /\ i = first + (i - first)
          BY <1>14
        <4> QED BY <4>1
      <3>2. i \in 1 .. Len(buffer)
        BY <1>13, <3>1
      <3> QED BY <3>2, ElementOfSeq
    <2> QED BY <2>1
  <1>16. PICK read : read = SubSeq(buffer, m, k)
    OBVIOUS
  <1>17. /\ read \in Seq(Digit) /\ Len(read) = IF m <= k THEN k - m + 1 ELSE 0
         /\ \A i \in 1 .. k - m + 1 : read[i] = buffer[m + i - 1]
    <2>1. AllWithin(buffer, m, k, Digit)
      BY <1>15 DEF AllWithin
    <2>2. IsSlice(read, buffer, m, k, Digit)
      BY <1>16, <2>1, SliceIs
    <2> QED BY <2>2 DEF IsSlice
  <1>18. Len(read) = w /\ Len(word) = w
    <2>1. k - m + 1 = w /\ (m <= k <=> w # 0)
      BY <1>14
    <2>2. Len(read) = IF m <= k THEN k - m + 1 ELSE 0
      BY <1>17
    <2>3. Len(read) = w
      BY <2>1, <2>2
    <2> QED BY <1>4, <1>11, <2>3
  <1>19. ASSUME NEW i \in 1 .. w PROVE read[i] = word[i]
    <2>1. i \in 1 .. k - m + 1 /\ m + i - 1 = first + i
      BY <1>14
    <2>2. read[i] = buffer[m + i - 1]
      BY <1>17, <2>1
    <2> QED BY <1>13, <2>1, <2>2
  <1>20. read = word
    BY <1>4, <1>17, <1>18, <1>19, SeqEqual
  <1> QED BY <1>1, <1>3, <1>4, <1>12, <1>14, <1>16, <1>20

(* The numbers of one channel.                                             *)
NumberOf(r, f, ch) == r.frames[f][ch]

Normalized(type, number) ==
  LET value == IF type.signed THEN number ELSE number - Size(type.bytes) \div 2
  IN  IF value < -FullScale(type) THEN -FullScale(type) ELSE value

IsDecoded(r, count) ==
  /\ DOMAIN r.frames = 1 .. count
  /\ \A ch \in DOMAIN r.channels :
       /\ r.channels[ch] \in SampleType
       /\ \A f \in 1 .. count : NumberOf(r, f, ch) \in Numbers(r.channels[ch])
       /\ decodeToPhysical(Buffer(r), r.channels, r.bigEndian, 1, 0)[ch]
            = [f \in 1 .. count |-> Float(NumberOf(r, f, ch) * 1 + 0)]
       /\ decodeToNormalized(Buffer(r), r.channels, r.bigEndian)[ch]
            = [f \in 1 .. count |-> Normalized(r.channels[ch], NumberOf(r, f, ch))]

LEMMA DecodedIs ==
  ASSUME NEW r \in SamplesRequest
  PROVE  \E count \in Nat : IsDecoded(r, count)
  <1>1. PICK channels, bigEndian, frames : channels \in Seq(SampleType) /\ bigEndian \in BOOLEAN /\
          channels = r.channels /\ bigEndian = r.bigEndian /\ channels # <<>> /\ frames = r.frames
          /\ \A f \in DOMAIN frames : \A ch \in DOMAIN channels : frames[f][ch] \in Numbers(channels[ch])
    BY DEF SamplesRequest
  <1>2. PICK n \in Nat : n = Len(channels) /\ DOMAIN channels = 1 .. n /\ \A k \in 1 .. n : channels[k] \in SampleType
    BY <1>1, LenProperties
  <1>3. PICK at : Starts(at, r.channels)
    BY <1>1, StartsExist
  <1>4. PICK size \in Nat, count \in Nat : Recording(Buffer(r), size, count, at, r)
    BY <1>3, BufferIs
  <1>5. PICK buffer \in Seq(Digit) : buffer = Buffer(r)
    BY <1>3, BufferIs
  <1>6. /\ size # 0 /\ bytesPerFrame(channels) = size /\ DOMAIN frames = 1 .. count /\ count # 0
        /\ size * count <= Len(buffer) /\ Len(buffer) <= size * count + size - 1
    BY <1>1, <1>4, <1>5 DEF Recording
  <1>7. PICK length \in Nat : length = Len(buffer)
    BY LenProperties
  <1>8. Len(buffer) \div bytesPerFrame(channels) = count
    <2>1. size * count <= length /\ length <= size * count + size - 1
      BY <1>6, <1>7
    <2>2. length \div size = count
      <3>1. PICK a \in Int, q \in Int, b \in Nat : a = length /\ q = count /\ b = size
        OBVIOUS
      <3>2. b # 0 /\ b * q <= a /\ a <= b * q + b - 1
        BY <1>6, <2>1, <3>1
      <3>3. a \div b = q
        BY <3>2, QuotientIs
      <3> QED BY <3>1, <3>3
    <2> QED BY <1>6, <1>7, <2>2
  <1>9. buffer # <<>>
    <2>1. size * count > 0
      BY <1>6
    <2>2. PICK p \in Nat : p = size * count /\ p > 0
      BY <2>1
    <2>3. Len(buffer) # 0
      BY <1>6, <1>7, <2>2
    <2> QED BY <2>3, EmptySeq
  <1>10. ASSUME NEW ch \in 1 .. n, NEW f \in 1 .. count
         PROVE  /\ NumberOf(r, f, ch) \in Numbers(channels[ch])
                /\ decodeRawSample(channels[ch], Sample(buffer, channels, f, ch), bigEndian) = NumberOf(r, f, ch)
    <2>1. ch \in 1 .. Len(r.channels)
      BY <1>1, <1>2
    <2>2. Sample(Buffer(r), r.channels, f, ch) = Encoded(r.channels[ch], r.frames[f][ch], r.bigEndian)
      BY <1>3, <1>4, <1>5, <2>1, SampleIs
    <2>3. PICK type, number : type \in SampleType /\ type = channels[ch] /\ number = frames[f][ch] /\ number \in Numbers(type)
      BY <1>1, <1>2, <1>6
    <2>4. decodeRawSample(type, Encoded(type, number, bigEndian), bigEndian) = number
      BY <1>1, <2>3, EncodedIs
    <2> QED BY <1>1, <1>5, <2>2, <2>3, <2>4 DEF NumberOf
  <1>11. ASSUME NEW ch \in 1 .. n
         PROVE  decodeToPhysical(buffer, channels, bigEndian, 1, 0)[ch]
                  = [f \in 1 .. count |-> Float(NumberOf(r, f, ch) * 1 + 0)]
    <2>1. decodeToPhysical(buffer, channels, bigEndian, 1, 0)[ch]
            = [f \in 1 .. count |-> Float(decodeRawSample(channels[ch], Sample(buffer, channels, f, ch), bigEndian) * 1 + 0)]
      BY <1>1, <1>2, <1>8, <1>9 DEF decodeToPhysical, Decoded
    <2> QED BY <1>10, <2>1
  <1>12. ASSUME NEW ch \in 1 .. n
         PROVE  decodeToNormalized(buffer, channels, bigEndian)[ch]
                  = [f \in 1 .. count |-> Normalized(channels[ch], NumberOf(r, f, ch))]
    <2>1. decodeToNormalized(buffer, channels, bigEndian)[ch]
            = [f \in 1 .. count |-> decodeNormalizedSample(channels[ch], Sample(buffer, channels, f, ch), bigEndian)]
      BY <1>1, <1>2, <1>8, <1>9 DEF decodeToNormalized, Decoded
    <2>2. ASSUME NEW f \in 1 .. count
          PROVE  decodeNormalizedSample(channels[ch], Sample(buffer, channels, f, ch), bigEndian)
                   = Normalized(channels[ch], NumberOf(r, f, ch))
      BY <1>10 DEF decodeNormalizedSample, Normalized
    <2> QED BY <2>1, <2>2
  <1>13. IsDecoded(r, count)
    <2>1. DOMAIN r.frames = 1 .. count /\ DOMAIN r.channels = 1 .. n
      BY <1>1, <1>2, <1>6
    <2>2. ASSUME NEW ch \in DOMAIN r.channels
          PROVE  /\ r.channels[ch] \in SampleType
                 /\ \A f \in 1 .. count : NumberOf(r, f, ch) \in Numbers(r.channels[ch])
                 /\ decodeToPhysical(Buffer(r), r.channels, r.bigEndian, 1, 0)[ch]
                      = [f \in 1 .. count |-> Float(NumberOf(r, f, ch) * 1 + 0)]
                 /\ decodeToNormalized(Buffer(r), r.channels, r.bigEndian)[ch]
                      = [f \in 1 .. count |-> Normalized(r.channels[ch], NumberOf(r, f, ch))]
      <3>1. ch \in 1 .. n
        BY <2>1
      <3>2. r.channels[ch] \in SampleType
        BY <1>1, <1>2, <3>1
      <3>3. \A f \in 1 .. count : NumberOf(r, f, ch) \in Numbers(r.channels[ch])
        BY <1>1, <1>10, <3>1
      <3>4. decodeToPhysical(Buffer(r), r.channels, r.bigEndian, 1, 0)[ch]
              = [f \in 1 .. count |-> Float(NumberOf(r, f, ch) * 1 + 0)]
        BY <1>1, <1>5, <1>11, <3>1
      <3>5. decodeToNormalized(Buffer(r), r.channels, r.bigEndian)[ch]
              = [f \in 1 .. count |-> Normalized(r.channels[ch], NumberOf(r, f, ch))]
        BY <1>1, <1>5, <1>12, <3>1
      <3> QED BY <3>2, <3>3, <3>4, <3>5
    <2> QED BY <2>1, <2>2 DEF IsDecoded
  <1> QED BY <1>13

(* The unit is 1, or small enough to leave the precision of a float.       *)
IsUnit(u, m) == u \in Nat /\ u # 0 /\ (u = 1 \/ \E h \in Nat : u = 2 * h /\ Precision * h <= m)

LEMMA UnitIs ==
  ASSUME NEW m \in Nat
  PROVE  IsUnit(Unit(m), m)
  <1> DEFINE Is(t) == t = [k \in 0 .. Base |->
                             IF k = 0 THEN 1
                             ELSE IF m < Precision * t[k - 1] THEN t[k - 1] ELSE 2 * t[k - 1]]
  <1>0. PICK N, base, precise : N = Nat /\ base = 1 /\ precise = Precision
    OBVIOUS
  <1>1. precise \in Nat /\ Base \in Nat
    <2>1. PICK p : Powers(p, 3) /\ Size(3) = p[3]
      BY SizeIs
    <2>2. 3 \in 0 .. 3
      OBVIOUS
    <2> QED BY <1>0, <2>1, <2>2, BaseIs DEF Powers, Precision
  <1>2. PICK step : step = [k \in 1 .. Base |-> [x \in N |-> IF m < precise * x THEN x ELSE 2 * x]]
    OBVIOUS
  <1>3. step \in [1 .. Base -> [N -> N]] /\ base \in N
    <2>1. \A x \in N : (IF m < precise * x THEN x ELSE 2 * x) \in N
      BY <1>0
    <2> QED BY <1>0, <1>2, <2>1
  <1>4. PICK t : Recurses(t, Base, N, base, step)
    BY <1>1, <1>3, Recursion
  <1>5. t \in [0 .. Base -> Nat] /\ t[0] = 1 /\ \A k \in 1 .. Base : t[k] = step[k][t[k - 1]]
    BY <1>0, <1>4 DEF Recurses
  <1>6. ASSUME NEW k \in 1 .. Base
        PROVE  /\ k - 1 \in 0 .. Base /\ t[k - 1] \in Nat
               /\ t[k] = IF m < precise * t[k - 1] THEN t[k - 1] ELSE 2 * t[k - 1]
    <2>1. k - 1 \in 0 .. Base
      BY <1>1
    <2>2. t[k - 1] \in N
      BY <1>0, <1>5, <2>1
    <2>3. step[k][t[k - 1]] = IF m < precise * t[k - 1] THEN t[k - 1] ELSE 2 * t[k - 1]
      BY <1>2, <2>2
    <2> QED BY <1>0, <1>5, <2>1, <2>2, <2>3
  <1>7. Is(t)
    <2>1. ASSUME NEW k \in 0 .. Base
          PROVE  t[k] = IF k = 0 THEN 1
                        ELSE IF m < Precision * t[k - 1] THEN t[k - 1] ELSE 2 * t[k - 1]
      <3>1. CASE k = 0
        BY <1>5, <3>1
      <3>2. CASE k # 0
        <4>1. k \in 1 .. Base
          BY <1>1, <3>2
        <4> QED BY <1>0, <1>6, <3>2, <4>1
      <3> QED BY <3>1, <3>2
    <2> QED BY <1>5, <2>1
  <1>8. PICK c : c = (CHOOSE u : Is(u))
    OBVIOUS
  <1>9. Is(c)
    BY <1>7, <1>8
  <1>10. Unit(m) = c[Base]
    BY <1>8 DEF Unit
  <1>11. c[0] = 1 /\ \A k \in 1 .. Base : c[k] = IF m < precise * c[k - 1] THEN c[k - 1] ELSE 2 * c[k - 1]
    <2>1. ASSUME NEW k \in 1 .. Base
          PROVE  c[k] = IF m < precise * c[k - 1] THEN c[k - 1] ELSE 2 * c[k - 1]
      BY <1>0, <1>1, <1>9
    <2>2. c[0] = 1
      BY <1>1, <1>9
    <2> QED BY <2>1, <2>2
  <1> HIDE DEF Is
  <1> DEFINE T == {k \in 0 .. Base : IsUnit(c[k], m)}
  <1>12. 0 \in T
    BY <1>1, <1>11 DEF IsUnit
  <1>13. ASSUME NEW k \in 0 .. Base - 1, k \in T PROVE k + 1 \in T
    <2>1. PICK j \in 1 .. Base : j = k + 1 /\ j - 1 = k
      BY <1>1
    <2>2. PICK x \in Nat : x = c[k] /\ x # 0 /\ IsUnit(x, m)
      BY <1>13 DEF IsUnit
    <2>3. c[j] = IF m < precise * x THEN x ELSE 2 * x
      BY <1>11, <2>1, <2>2
    <2>4. CASE m < precise * x
      BY <2>1, <2>2, <2>3, <2>4
    <2>5. CASE ~(m < precise * x)
      <3>1. PICK y \in Nat : y = precise * x
        BY <1>1
      <3>2. Precision * x <= m /\ 2 * x \in Nat /\ 2 * x # 0
        BY <1>0, <2>2, <2>5, <3>1
      <3>3. IsUnit(2 * x, m)
        BY <3>2 DEF IsUnit
      <3> QED BY <2>1, <2>3, <2>5, <3>3
    <2> QED BY <2>4, <2>5
  <1> HIDE DEF T
  <1>14. \A k \in 0 .. Base : k \in T
    BY <1>1, <1>12, <1>13, SetInduction
  <1>15. Base \in 0 .. Base
    BY <1>1
  <1> QED BY <1>10, <1>14, <1>15 DEF T

(* Rounding is off by half a unit at most.                                 *)
LEMMA RoundedIs ==
  ASSUME NEW m \in Nat, NEW u \in Nat, u # 0
  PROVE  /\ Rounded(m, u) \in Int
         /\ 2 * (Rounded(m, u) - m) <= u /\ 2 * (m - Rounded(m, u)) <= u
  <1>1. PICK q \in Int, r \in Int : q = m \div u /\ r = m % u /\ m = u * q + r /\ 0 <= r /\ r < u
    OBVIOUS
  <1> DEFINE up == 2 * r > u \/ (2 * r = u /\ q % 2 = 1)
  <1>3. Rounded(m, u) = u * (IF up THEN q + 1 ELSE q)
    BY <1>1 DEF Rounded
  <1>2. (up => 2 * r >= u) /\ (~up => 2 * r <= u)
    BY <1>1
  <1> HIDE DEF up
  <1>4. PICK p \in Int : p = u * q
    OBVIOUS
  <1>5. u * (q + 1) = p + u
    BY <1>4
  <1>6. CASE up
    <2>1. Rounded(m, u) = p + u
      BY <1>3, <1>5, <1>6
    <2>2. 2 * r >= u
      BY <1>1, <1>2, <1>6
    <2> QED BY <1>1, <1>4, <2>1, <2>2
  <1>7. CASE ~up
    <2>1. Rounded(m, u) = p
      BY <1>3, <1>4, <1>7
    <2>2. 2 * r <= u
      BY <1>1, <1>2, <1>7
    <2> QED BY <1>1, <1>4, <2>1, <2>2
  <1> QED BY <1>6, <1>7

(* A float is as near to a number as its precision allows.                 *)
LEMMA FloatIs ==
  ASSUME NEW x \in Int
  PROVE  ReadsAs(Float(x), x)
  <1>1. PICK m \in Nat : m = Abs(x)
    BY DEF Abs
  <1>2. PICK u \in Nat : u = Unit(m) /\ u # 0 /\ (u = 1 \/ \E h \in Nat : u = 2 * h /\ Precision * h <= m)
    BY UnitIs DEF IsUnit
  <1>3. PICK y \in Int : y = Rounded(m, u) /\ 2 * (y - m) <= u /\ 2 * (m - y) <= u
    BY <1>2, RoundedIs
  <1>4. Float(x) = IF x < 0 THEN -y ELSE y
    BY <1>1, <1>2, <1>3 DEF Float
  <1>5. PICK error \in Nat : error = Abs(y - m)
    <2>1. PICK d \in Int : d = y - m
      OBVIOUS
    <2>2. Abs(d) \in Nat
      BY DEF Abs
    <2> QED BY <2>1, <2>2
  <1>6. Abs(Float(x) - x) = error
    <2>1. CASE x < 0
      <3>1. m = -x /\ Float(x) = -y
        BY <1>1, <1>4, <2>1 DEF Abs
      <3> QED BY <1>5, <3>1 DEF Abs
    <2>2. CASE ~(x < 0)
      <3>1. m = x /\ Float(x) = y
        BY <1>1, <1>4, <2>2 DEF Abs
      <3> QED BY <1>5, <3>1
    <2> QED BY <2>1, <2>2
  <1>7. PICK precise \in Nat : precise = Precision
    <2>1. PICK p : Powers(p, 3) /\ Size(3) = p[3]
      BY SizeIs
    <2>2. 3 \in 0 .. 3
      OBVIOUS
    <2> QED BY <2>1, <2>2 DEF Powers, Precision
  <1>8. precise * error <= m
    <2>1. CASE u = 1
      <3>1. error = 0
        BY <1>3, <1>5, <2>1 DEF Abs
      <3> QED BY <3>1
    <2>2. ASSUME NEW h \in Nat, u = 2 * h, Precision * h <= m PROVE precise * error <= m
      <3>1. error <= h
        BY <1>3, <1>5, <2>2 DEF Abs
      <3>2. PICK d \in Nat : h = error + d
        BY <3>1
      <3>3. PICK a \in Nat, b \in Nat : a = precise * error /\ b = precise * d
        OBVIOUS
      <3>4. precise * h = a + b
        BY <3>2, <3>3
      <3> QED BY <1>7, <2>2, <3>3, <3>4
    <2> QED BY <1>2, <2>1, <2>2
  <1> QED BY <1>1, <1>6, <1>7, <1>8 DEF ReadsAs

(* What normalizing a number does to it.                                   *)
LEMMA NormalizedIs ==
  ASSUME NEW type \in SampleType, NEW number \in Numbers(type),
         NEW middle, middle = IF type.signed THEN 0 ELSE Size(type.bytes) \div 2
  PROVE  /\ number \in Int /\ Lowest(type) \in Int /\ Normalized(type, number) \in Int
         /\ Normalized(type, number) \in -FullScale(type) .. FullScale(type)
         /\ Normalized(type, number) = number - middle \/ number = Lowest(type)
         /\ middle \in Int /\ Lowest(type) - middle < -FullScale(type) /\ FullScale(type) \in Int
  <1>1. PICK half \in Nat : /\ half # 0 /\ Size(type.bytes) = 2 * half /\ Size(type.bytes) \div 2 = half
                            /\ FullScale(type) = half - 1
                            /\ Lowest(type) = IF type.signed THEN -half ELSE 0
                            /\ number \in Int /\ Lowest(type) <= number /\ number < Lowest(type) + 2 * half
                            /\ type.signed \in BOOLEAN
    BY NumbersAre
  <1>2. Normalized(type, number) = LET value == IF type.signed THEN number ELSE number - half
                                   IN  IF value < -(half - 1) THEN -(half - 1) ELSE value
    BY <1>1 DEF Normalized
  <1>3. CASE type.signed
    BY <1>1, <1>2, <1>3
  <1>4. CASE ~type.signed
    BY <1>1, <1>2, <1>4
  <1> QED BY <1>1, <1>3, <1>4

(* The request and the answer that Decode gives to it.                     *)
LEMMA DecodedReadsBack ==
  ASSUME request \in SamplesRequest,
         answer = <<[physical   |-> decodeToPhysical(Buffer(request), request.channels, request.bigEndian, 1, 0),
                     normalized |-> decodeToNormalized(Buffer(request), request.channels, request.bigEndian)]>>
  PROVE  SamplesReadBack
  <1>1. PICK r, physical, normalized :
          /\ r = request /\ r \in SamplesRequest
          /\ physical = decodeToPhysical(Buffer(r), r.channels, r.bigEndian, 1, 0)
          /\ normalized = decodeToNormalized(Buffer(r), r.channels, r.bigEndian)
    OBVIOUS
  <1>2. answer[1].physical = physical /\ answer[1].normalized = normalized
    BY <1>1
  <1>3. PICK count \in Nat : IsDecoded(r, count)
    BY <1>1, DecodedIs
  <1> DEFINE type(ch)   == request.channels[ch]
             frames     == DOMAIN request.frames
             wave(ch)   == answer[1].normalized[ch]
             middle(ch) == IF type(ch).signed THEN 0 ELSE Size(type(ch).bytes) \div 2
             number(ch, frame) == request.frames[frame][ch]
  <1>4. ASSUME NEW ch \in DOMAIN request.channels
        PROVE  /\ DOMAIN answer[1].physical[ch] = frames
               /\ \A frame \in frames : ReadsAs(answer[1].physical[ch][frame], number(ch, frame))
               /\ DOMAIN wave(ch) = frames
               /\ \A frame \in frames :
                    /\ wave(ch)[frame] \in -FullScale(type(ch)) .. FullScale(type(ch))
                    /\ wave(ch)[frame] = number(ch, frame) - middle(ch) \/ number(ch, frame) = Lowest(type(ch))
               /\ \A f, g \in frames :
                    number(ch, f) < number(ch, g) => wave(ch)[f] < wave(ch)[g] \/ number(ch, f) = Lowest(type(ch))
    <2>1. PICK t, c, mid : t \in SampleType /\ t = type(ch) /\ c = ch /\ mid = middle(ch)
                                          /\ mid = IF t.signed THEN 0 ELSE Size(t.bytes) \div 2
      BY <1>1, <1>3 DEF IsDecoded
    <2>2. PICK num : num = [f \in 1 .. count |-> NumberOf(r, f, c)]
      OBVIOUS
    <2>3. /\ frames = 1 .. count
          /\ \A f \in 1 .. count : num[f] \in Numbers(t) /\ num[f] = number(ch, f) /\ num[f] = NumberOf(r, f, c)
      BY <1>1, <1>3, <2>1, <2>2 DEF IsDecoded, NumberOf
    <2>4. /\ physical[c] = [f \in 1 .. count |-> Float(NumberOf(r, f, c) * 1 + 0)]
          /\ normalized[c] = [f \in 1 .. count |-> Normalized(t, NumberOf(r, f, c))]
      <3>1. c \in DOMAIN r.channels /\ r.channels[c] = t
        BY <1>1, <2>1
      <3>2. decodeToPhysical(Buffer(r), r.channels, r.bigEndian, 1, 0)[c]
              = [f \in 1 .. count |-> Float(NumberOf(r, f, c) * 1 + 0)]
        BY <1>3, <3>1, Zenon DEF IsDecoded
      <3>3. decodeToNormalized(Buffer(r), r.channels, r.bigEndian)[c]
              = [f \in 1 .. count |-> Normalized(r.channels[c], NumberOf(r, f, c))]
        BY <1>3, <3>1, Zenon DEF IsDecoded
      <3> QED BY <1>1, <3>1, <3>2, <3>3
    <2>5. PICK w : w = wave(ch) /\ w = normalized[c]
      BY <1>2, <2>1
    <2>6. PICK p : p = answer[1].physical[ch] /\ p = physical[c]
      BY <1>2, <2>1
    <2>7. ASSUME NEW f \in 1 .. count
          PROVE  /\ num[f] \in Int /\ Lowest(t) \in Int /\ w[f] \in Int
                 /\ w[f] \in -FullScale(t) .. FullScale(t)
                 /\ w[f] = num[f] - mid \/ num[f] = Lowest(t)
                 /\ mid \in Int /\ Lowest(t) - mid < -FullScale(t) /\ FullScale(t) \in Int
      <3>1. PICK x \in Numbers(t) : x = num[f] /\ w[f] = Normalized(t, x)
        BY <2>3, <2>4, <2>5
      <3> QED BY <2>1, <3>1, NormalizedIs
    <2>8. DOMAIN w = 1 .. count
      BY <2>4, <2>5
    <2>9. DOMAIN p = 1 .. count /\ \A f \in 1 .. count : ReadsAs(p[f], number(ch, f))
      <3>1. ASSUME NEW f \in 1 .. count PROVE ReadsAs(p[f], number(ch, f))
        <4>1. PICK x \in Int : x = num[f]
          BY <2>7
        <4>2. x * 1 + 0 = x
          OBVIOUS
        <4>3. p[f] = Float(x)
          BY <2>3, <2>4, <2>6, <4>1, <4>2
        <4>4. ReadsAs(Float(x), x)
          BY FloatIs
        <4> QED BY <2>3, <4>1, <4>3, <4>4
      <3> QED BY <2>4, <2>6, <3>1
    <2>10. ASSUME NEW f \in 1 .. count, NEW g \in 1 .. count, num[f] < num[g]
           PROVE  w[f] < w[g] \/ num[f] = Lowest(t)
      <3>1. PICK a \in Int, b \in Int, u \in Int, v \in Int, low \in Int, m \in Int, full \in Int :
              /\ a = num[f] /\ b = num[g] /\ u = w[f] /\ v = w[g] /\ low = Lowest(t) /\ m = mid /\ full = FullScale(t)
        BY <2>7
      <3>2. /\ u = a - m \/ a = low
            /\ v = b - m \/ b = low
            /\ low - m < -full /\ -full <= v
        BY <2>7, <3>1
      <3>3. a < b /\ low <= a
        <4>1. num[f] \in Numbers(t)
          BY <2>3
        <4>2. low <= num[f]
          BY <2>1, <3>1, <4>1, NumbersAre
        <4> QED BY <2>10, <3>1, <4>2
      <3> QED BY <3>1, <3>2, <3>3
    <2> HIDE DEF type, frames, wave, middle, number
    <2> QED BY <2>1, <2>3, <2>5, <2>6, <2>7, <2>8, <2>9, <2>10
  <1> HIDE <1>1, <1>2
  <1> QED BY <1>4, Zenon DEF SamplesReadBack

(* From s a reader of a text comes to t.                                   *)
State(mode, field, fields) == [mode |-> mode, field |-> field, fields |-> fields]

Path(a, s, text) == a[0] = s /\ \A k \in 1 .. Len(text) : a[k] = Reads(a[k - 1], text[k])

Leads(s, text, t) == \E a : Path(a, s, text) /\ a[Len(text)] = t

LEMMA LeadsByOne ==
  ASSUME NEW s, NEW c
  PROVE  Leads(s, <<c>>, Reads(s, c))
  <1>1. PICK a : a = [k \in 0 .. 1 |-> IF k = 0 THEN s ELSE Reads(s, c)]
    OBVIOUS
  <1>2. a[0] = s /\ a[1] = Reads(s, c)
    BY <1>1
  <1>3. Len(<<c>>) = 1 /\ <<c>>[1] = c
    OBVIOUS
  <1>4. ASSUME NEW k \in 1 .. 1 PROVE a[k] = Reads(a[k - 1], <<c>>[k])
    <2>1. k = 1 /\ k - 1 = 0
      OBVIOUS
    <2> QED BY <1>2, <1>3, <2>1
  <1>5. Path(a, s, <<c>>)
    BY <1>2, <1>3, <1>4 DEF Path
  <1> QED BY <1>2, <1>3, <1>5 DEF Leads

LEMMA LeadsByNone ==
  ASSUME NEW s
  PROVE  Leads(s, <<>>, s)
  <1>1. PICK a : a = [k \in 0 .. 0 |-> s]
    OBVIOUS
  <1>2. a[0] = s /\ Len(<<>>) = 0
    BY <1>1
  <1>3. Path(a, s, <<>>)
    BY <1>2 DEF Path
  <1> QED BY <1>2, <1>3 DEF Leads

LEMMA LeadsOn ==
  ASSUME NEW S, NEW x \in Seq(S), NEW y \in Seq(S), NEW s, NEW t, NEW u, Leads(s, x, t), Leads(t, y, u)
  PROVE  Leads(s, x \o y, u)
  <1>0. PICK m \in Nat, n \in Nat : m = Len(x) /\ n = Len(y)
    BY LenProperties
  <1>1. PICK a : Path(a, s, x) /\ a[m] = t
    BY <1>0 DEF Leads
  <1>2. PICK b : Path(b, t, y) /\ b[n] = u
    BY <1>0 DEF Leads
  <1>3. PICK z : z = x \o y
    OBVIOUS
  <1>4. Len(z) = m + n /\ \A k \in 1 .. m + n : z[k] = IF k <= m THEN x[k] ELSE y[k - m]
    <2>1. Len(x \o y) = m + n /\ IsJoin(x \o y, x, y, m, n)
      BY <1>0, Joined
    <2> QED BY <1>3, <2>1 DEF IsJoin
  <1>5. PICK c : c = [k \in 0 .. m + n |-> IF k <= m THEN a[k] ELSE b[k - m]]
    OBVIOUS
  <1>6. a[0] = s /\ \A k \in 1 .. m : a[k] = Reads(a[k - 1], x[k])
    BY <1>0, <1>1 DEF Path
  <1>7. b[0] = t /\ \A k \in 1 .. n : b[k] = Reads(b[k - 1], y[k])
    BY <1>0, <1>2 DEF Path
  <1>8. c[0] = s
    <2>1. 0 \in 0 .. m + n /\ 0 <= m
      OBVIOUS
    <2> QED BY <1>5, <1>6, <2>1
  <1>9. ASSUME NEW k \in 1 .. m + n PROVE c[k] = Reads(c[k - 1], z[k])
    <2>1. CASE k <= m
      <3>1. k \in 1 .. m /\ k - 1 <= m /\ k - 1 \in 0 .. m + n
        BY <2>1
      <3>2. c[k] = a[k] /\ c[k - 1] = a[k - 1] /\ z[k] = x[k]
        BY <1>4, <1>5, <2>1, <3>1
      <3> QED BY <1>6, <3>1, <3>2
    <2>2. CASE ~(k <= m)
      <3>1. PICK j \in 1 .. n : j = k - m /\ j - 1 = k - 1 - m
        <4>1. k - m \in 1 .. n /\ (k - m) - 1 = k - 1 - m
          BY <2>2
        <4> QED BY <4>1
      <3>2. c[k] = b[j] /\ z[k] = y[j]
        BY <1>4, <1>5, <2>2, <3>1
      <3>3. c[k - 1] = b[j - 1]
        <4>1. CASE k - 1 <= m
          <5>1. k - 1 = m /\ j - 1 = 0 /\ m \in 0 .. m + n
            BY <2>2, <3>1, <4>1
          <5>2. c[m] = a[m]
            BY <1>5, <5>1
          <5> QED BY <1>1, <1>7, <5>1, <5>2
        <4>2. CASE ~(k - 1 <= m)
          <5>1. k - 1 \in 0 .. m + n
            OBVIOUS
          <5> QED BY <1>5, <3>1, <4>2, <5>1
        <4> QED BY <4>1, <4>2
      <3> QED BY <1>7, <3>1, <3>2, <3>3
    <2> QED BY <2>1, <2>2
  <1>10. Path(c, s, z)
    BY <1>4, <1>8, <1>9 DEF Path
  <1>11. c[m + n] = u
    <2>1. CASE n = 0
      <3>1. m + n <= m /\ m + n \in 0 .. m + n /\ m + n = m
        BY <2>1
      <3>2. c[m + n] = a[m]
        BY <1>5, <3>1
      <3> QED BY <1>1, <1>2, <1>7, <2>1, <3>2
    <2>2. CASE n # 0
      <3>1. ~(m + n <= m) /\ m + n \in 0 .. m + n /\ m + n - m = n
        BY <2>2
      <3> QED BY <1>2, <1>5, <3>1
    <2> QED BY <2>1, <2>2
  <1>12. Leads(s, z, u)
    BY <1>4, <1>10, <1>11 DEF Leads
  <1> QED BY <1>3, <1>12

(* Texts that lead from state to state lead, joined, from first to last.   *)
LEMMA LeadsThrough ==
  ASSUME NEW S, NEW seqs \in Seq(Seq(S)), NEW st,
         \A k \in 1 .. Len(seqs) : Leads(st[k - 1], seqs[k], st[k])
  PROVE  Leads(st[0], FlattenSeq(seqs), st[Len(seqs)])
  <1>0. PICK n \in Nat : n = Len(seqs)
    BY LenProperties
  <1>1. PICK g : Grows(g, seqs, S) /\ FlattenSeq(seqs) = g[n]
    BY <1>0, FlattenGrows
  <1>2. g \in [0 .. n -> Seq(S)] /\ g[0] = <<>> /\ \A k \in 1 .. n : g[k] = g[k - 1] \o seqs[k]
    BY <1>0, <1>1 DEF Grows
  <1> DEFINE T == {k \in 0 .. n : Leads(st[0], g[k], st[k])}
  <1>3. 0 \in T
    BY <1>2, LeadsByNone
  <1>4. ASSUME NEW k \in 0 .. n - 1, k \in T PROVE k + 1 \in T
    <2>1. PICK i \in 1 .. n : i = k + 1 /\ i - 1 = k
      OBVIOUS
    <2>2. PICK x, y, s, t, u : x = g[k] /\ y = seqs[i] /\ s = st[0] /\ t = st[k] /\ u = st[i]
      OBVIOUS
    <2>3. x \in Seq(S) /\ y \in Seq(S)
      <3>1. k \in 0 .. n /\ i \in 1 .. Len(seqs)
        BY <1>0
      <3> QED BY <1>2, <2>2, <3>1, ElementOfSeq
    <2>4. Leads(s, x, t) /\ Leads(t, y, u)
      BY <1>0, <1>4, <2>1, <2>2
    <2>5. Leads(s, x \o y, u)
      BY <2>3, <2>4, LeadsOn
    <2>6. g[i] = x \o y /\ i \in 0 .. n
      <3>1. g[i] = g[i - 1] \o seqs[i]
        BY <1>2
      <3>2. i \in 0 .. n
        BY <1>0
      <3> QED BY <2>1, <2>2, <3>1, <3>2
    <2>7. i \in T
      BY <2>2, <2>5, <2>6
    <2> QED BY <2>1, <2>7
  <1> HIDE DEF T
  <1>5. n \in T
    <2>1. \A k \in 0 .. n : k \in T
      BY <1>3, <1>4, SetInduction
    <2> QED BY <2>1
  <1> QED BY <1>0, <1>1, <1>5 DEF T

(* What ReadBack computes is where the row leads from the start.           *)
LEMMA ReadBackIs ==
  ASSUME NEW S, NEW row \in Seq(S), NEW t, Leads(State("start", <<>>, <<>>), row, t)
  PROVE  ReadBack(row) = t
  <1>0. PICK n \in Nat : n = Len(row)
    BY LenProperties
  <1>1. PICK s : s = State("start", <<>>, <<>>)
    OBVIOUS
  <1>2. PICK a : Path(a, s, row) /\ a[n] = t
    BY <1>0, <1>1 DEF Leads
  <1>3. a[0] = s /\ \A k \in 1 .. n : a[k] = Reads(a[k - 1], row[k])
    BY <1>0, <1>2 DEF Path
  <1> DEFINE Is(u) == u = [k \in 0 .. n |-> IF k = 0 THEN s ELSE Reads(u[k - 1], row[k])]
  <1>4. PICK w : w = [k \in 0 .. n |-> a[k]]
    OBVIOUS
  <1>5. Is(w)
    <2>1. ASSUME NEW k \in 0 .. n PROVE w[k] = IF k = 0 THEN s ELSE Reads(w[k - 1], row[k])
      <3>1. CASE k = 0
        BY <1>3, <1>4, <3>1
      <3>2. CASE k # 0
        <4>1. k \in 1 .. n /\ k - 1 \in 0 .. n
          BY <3>2
        <4> QED BY <1>3, <1>4, <3>2, <4>1
      <3> QED BY <3>1, <3>2
    <2> QED BY <1>4, <2>1
  <1>6. PICK after : after = (CHOOSE u : Is(u))
    OBVIOUS
  <1>7. Is(after)
    BY <1>5, <1>6
  <1>8. ReadBack(row) = after[n]
    BY <1>0, <1>1, <1>6 DEF ReadBack, State
  <1>9. \A k \in 0 .. n : after[k] = IF k = 0 THEN s ELSE Reads(after[k - 1], row[k])
    BY <1>7
  <1> HIDE DEF Is
  <1> DEFINE T == {k \in 0 .. n : after[k] = a[k]}
  <1>10. 0 \in T
    <2>1. 0 \in 0 .. n
      OBVIOUS
    <2> QED BY <1>3, <1>9, <2>1
  <1>11. ASSUME NEW k \in 0 .. n - 1, k \in T PROVE k + 1 \in T
    <2>1. PICK i \in 1 .. n : i = k + 1 /\ i - 1 = k /\ i \in 0 .. n /\ i # 0
      <3>1. k + 1 \in 1 .. n /\ (k + 1) - 1 = k /\ k + 1 # 0 /\ k + 1 \in 0 .. n
        OBVIOUS
      <3> QED BY <3>1
    <2>2. after[i] = Reads(after[k], row[i]) /\ a[i] = Reads(a[k], row[i])
      BY <1>3, <1>9, <2>1
    <2>3. after[k] = a[k]
      BY <1>11
    <2>4. i \in T
      BY <2>1, <2>2, <2>3
    <2> QED BY <2>1, <2>4
  <1> HIDE DEF T
  <1>12. n \in T
    <2>1. \A k \in 0 .. n : k \in T
      BY <1>10, <1>11, SetInduction
    <2> QED BY <2>1
  <1> QED BY <1>2, <1>8, <1>12 DEF T

LEMMA LeadsBy ==
  ASSUME NEW s, NEW c, NEW t, Reads(s, c) = t
  PROVE  Leads(s, <<c>>, t)
  BY LeadsByOne

(* The steps of a reader.                                                  *)
LEMMA ReadsOpening ==
  ASSUME NEW f, NEW d
  PROVE  Reads(State("start", f, d), quote) = State("quoted", f, d)
  BY DEF Reads, State, quote

LEMMA ReadsClosing ==
  ASSUME NEW f, NEW d
  PROVE  Reads(State("quoted", f, d), quote) = State("closed", f, d)
  BY DEF Reads, State, quote

LEMMA ReadsDoubled ==
  ASSUME NEW f, NEW d
  PROVE  Reads(State("closed", f, d), quote) = State("quoted", Append(f, quote), d)
  BY DEF Reads, State, Taken, quote

LEMMA ReadsQuoted ==
  ASSUME NEW f, NEW d, NEW c, c # quote
  PROVE  Reads(State("quoted", f, d), c) = State("quoted", Append(f, c), d)
  BY DEF Reads, State, Taken, quote

LEMMA ReadsPlain ==
  ASSUME NEW f, NEW d, NEW mode \in {"start", "plain"}
  PROVE  Reads(State(mode, f, d), "x") = State("plain", Append(f, "x"), d)
  BY DEF Reads, State, Taken, quote

LEMMA ReadsComma ==
  ASSUME NEW f, NEW d, NEW mode \in {"start", "plain", "closed"}
  PROVE  Reads(State(mode, f, d), ",") = State("start", <<>>, Append(d, f))
  BY DEF Reads, State, Ended, quote

LEMMA ReadsReturn ==
  ASSUME NEW f, NEW d, NEW mode \in {"start", "plain", "closed"}
  PROVE  Reads(State(mode, f, d), "cr") = State("cr", <<>>, Append(d, f))
  BY DEF Reads, State, Ended, quote

LEMMA ReadsFeed ==
  ASSUME NEW f, NEW d
  PROVE  Reads(State("cr", f, d), "lf") = State("end", f, d)
  BY DEF Reads, State, quote

(* Two characters are one after the other.                                 *)
LEMMA TwoCharacters ==
  ASSUME NEW c \in Character, NEW d \in Character
  PROVE  <<c>> \in Seq(Character) /\ <<c, d>> \in Seq(Character) /\ <<c>> \o <<d>> = <<c, d>>
  <1>1. <<c>> \in Seq(Character) /\ <<d>> \in Seq(Character) /\ <<c, d>> \in Seq(Character)
    OBVIOUS
  <1>2. PICK p, q, r : p = <<c>> /\ q = <<d>> /\ r = p \o q
    OBVIOUS
  <1>3. Len(p) = 1 /\ p[1] = c /\ p \in Seq(Character) /\ Len(q) = 1 /\ q[1] = d /\ q \in Seq(Character)
    BY <1>1, <1>2
  <1>4. r \in Seq(Character) /\ Len(r) = 1 + 1 /\ IsJoin(r, p, q, 1, 1)
    <2>1. PICK one \in Nat : one = 1 /\ one = Len(p) /\ one = Len(q)
      BY <1>3
    <2>2. p \o q \in Seq(Character) /\ Len(p \o q) = one + one /\ IsJoin(p \o q, p, q, one, one)
      BY <1>3, <2>1, Joined
    <2> QED BY <1>2, <2>1, <2>2
  <1>5. r[1] = c /\ r[2] = d
    <2>1. 1 \in 1 .. 1 + 1 /\ 2 \in 1 .. 1 + 1 /\ 2 - 1 = 1
      OBVIOUS
    <2>2. r[1] = p[1] /\ r[2] = q[2 - 1]
      BY <1>4, <2>1 DEF IsJoin
    <2> QED BY <1>3, <2>1, <2>2
  <1>6. PICK two : two = <<c, d>> /\ two \in Seq(Character) /\ Len(two) = 2 /\ two[1] = c /\ two[2] = d
    <2>1. PICK two : two = <<c, d>>
      OBVIOUS
    <2>2. Len(two) = 2 /\ two[1] = c /\ two[2] = d
      BY <2>1
    <2> QED BY <1>1, <2>1, <2>2
  <1>7. r = two
    <2>1. Len(r) = Len(two)
      BY <1>4, <1>6
    <2>2. \A i \in 1 .. Len(r) : r[i] = two[i]
      BY <1>4, <1>5, <1>6
    <2> QED BY <1>4, <1>6, <2>1, <2>2, SeqEqual
  <1> QED BY <1>1, <1>2, <1>6, <1>7

LEMMA Characters ==
  ASSUME NEW c \in Character
  PROVE  <<c>> \in Seq(Character) /\ <<c, c>> \in Seq(Character) /\ <<c>> \o <<c>> = <<c, c>>
  BY TwoCharacters

(* What has been read of a field or of the fields.                         *)
LEMMA UpTo ==
  ASSUME NEW S, NEW s \in Seq(S)
  PROVE  /\ SubSeq(s, 1, 0) = <<>> /\ SubSeq(s, 1, Len(s)) = s
         /\ \A k \in 1 .. Len(s) : SubSeq(s, 1, k) = Append(SubSeq(s, 1, k - 1), s[k])
  <1>0. PICK n \in Nat : n = Len(s)
    BY LenProperties
  <1>1. SubSeq(s, 1, 0) = <<>>
    BY SubSeqEmpty
  <1>2. SubSeq(s, 1, Len(s)) = s
    BY SubSeqFull
  <1>3. ASSUME NEW k \in 1 .. n PROVE SubSeq(s, 1, k) = Append(SubSeq(s, 1, k - 1), s[k])
    <2>1. 1 \in 1 .. Len(s) /\ k \in 1 .. Len(s) /\ k \in Int /\ k - 1 \in Int
      BY <1>0
    <2>2. SubSeq(s, 1, k) = SubSeq(s, 1, k - 1) \o <<s[k]>>
      BY <2>1, SubSeqRecursiveSecond
    <2>3. PICK before, e : before = SubSeq(s, 1, k - 1) /\ e = s[k]
      OBVIOUS
    <2>4. e \in S
      BY <2>1, <2>3, ElementOfSeq
    <2>5. before \in Seq(S)
      <3>1. \A i \in 1 .. k - 1 : s[i] \in S
        <4>1. ASSUME NEW i \in 1 .. k - 1 PROVE s[i] \in S
          <5>1. i \in 1 .. Len(s)
            BY <1>0, <2>1
          <5> QED BY <5>1, ElementOfSeq
        <4> QED BY <4>1
      <3> QED BY <2>1, <2>3, <3>1, SubSeqProperties
    <2>6. Append(before, e) = before \o <<e>>
      BY <2>4, <2>5, AppendIsConcat
    <2> QED BY <2>2, <2>3, <2>6
  <1> QED BY <1>0, <1>1, <1>2, <1>3

(* A field without the characters that need quotes is read as it is.       *)
NeedsNoQuotes(field) == ToSet(field) \cap {",", quote, "cr", "lf"} = {}

LEMMA PlainIsRead ==
  ASSUME NEW field \in Seq(Character), NEW d, NeedsNoQuotes(field)
  PROVE  \E mode \in {"start", "plain"} : Leads(State("start", <<>>, d), field, State(mode, field, d))
  <1>0. PICK n \in Nat : n = Len(field) /\ DOMAIN field = 1 .. n
    BY LenProperties
  <1>1. ASSUME NEW k \in 1 .. n PROVE field[k] = "x"
    <2>1. field[k] \in Character
      BY <1>0, ElementOfSeq
    <2>2. field[k] \in ToSet(field)
      BY <1>0 DEF ToSet
    <2> QED BY <2>1, <2>2 DEF Character, NeedsNoQuotes
  <1>2. PICK modes : modes = [k \in 0 .. n |-> IF k = 0 THEN "start" ELSE "plain"]
    OBVIOUS
  <1>3. PICK a : a = [k \in 0 .. n |-> State(modes[k], SubSeq(field, 1, k), d)]
    OBVIOUS
  <1>4. a[0] = State("start", <<>>, d)
    <2>1. modes[0] = "start" /\ SubSeq(field, 1, 0) = <<>> /\ 0 \in 0 .. n
      BY <1>2, UpTo
    <2> QED BY <1>3, <2>1
  <1>5. ASSUME NEW k \in 1 .. n PROVE a[k] = Reads(a[k - 1], field[k])
    <2>1. k - 1 \in 0 .. n /\ k \in 0 .. n /\ k # 0
      OBVIOUS
    <2>2. PICK mode, f : mode \in {"start", "plain"} /\ mode = modes[k - 1] /\ f = SubSeq(field, 1, k - 1)
      <3>1. modes[k - 1] \in {"start", "plain"}
        BY <1>2, <2>1
      <3> QED BY <3>1
    <2>3. a[k - 1] = State(mode, f, d)
      BY <1>3, <2>1, <2>2
    <2>4. SubSeq(field, 1, k) = Append(f, field[k])
      BY <1>0, <2>2, UpTo
    <2>5. a[k] = State("plain", Append(f, "x"), d)
      BY <1>1, <1>2, <1>3, <2>1, <2>4
    <2>6. Reads(State(mode, f, d), "x") = State("plain", Append(f, "x"), d)
      BY <2>2, ReadsPlain
    <2> QED BY <1>1, <2>3, <2>5, <2>6
  <1>6. Path(a, State("start", <<>>, d), field)
    BY <1>0, <1>4, <1>5 DEF Path
  <1>7. PICK mode \in {"start", "plain"} : mode = modes[n] /\ n \in 0 .. n
    <2>1. n \in 0 .. n
      BY <1>0
    <2>2. modes[n] \in {"start", "plain"}
      BY <1>2, <2>1
    <2> QED BY <2>1, <2>2
  <1>8. a[n] = State(mode, field, d)
    <2>1. SubSeq(field, 1, n) = field
      BY <1>0, UpTo
    <2> QED BY <1>3, <1>7, <2>1
  <1> QED BY <1>0, <1>6, <1>8 DEF Leads

(* A quoted field is read as what is between its quotes.                   *)
LEMMA QuotedIsRead ==
  ASSUME NEW field \in Seq(Character), NEW d
  PROVE  /\ Leads(State("start", <<>>, d), <<quote>> \o FlattenSeq(Quotes(field)) \o <<quote>>, State("closed", field, d))
         /\ <<quote>> \o FlattenSeq(Quotes(field)) \o <<quote>> \in Seq(Character)
  <1>0. PICK n \in Nat : n = Len(field) /\ DOMAIN field = 1 .. n /\ \A k \in 1 .. n : field[k] \in Character
    BY LenProperties
  <1>1. PICK seqs : seqs = Quotes(field)
    OBVIOUS
  <1>2. ASSUME NEW k \in 1 .. n
        PROVE  /\ seqs[k] = IF field[k] = quote THEN <<quote, quote>> ELSE <<field[k]>>
               /\ seqs[k] \in Seq(Character)
    <2>1. seqs[k] = IF field[k] = quote THEN <<quote, quote>> ELSE <<field[k]>>
      BY <1>0, <1>1 DEF Quotes
    <2>2. field[k] \in Character /\ quote \in Character
      BY <1>0 DEF Character
    <2>3. PICK c \in Character : c = field[k]
      BY <2>2
    <2>4. <<c>> \in Seq(Character) /\ <<quote, quote>> \in Seq(Character)
      BY <2>2
    <2> QED BY <2>1, <2>3, <2>4
  <1>3. seqs \in Seq(Seq(Character)) /\ Len(seqs) = n
    <2>1. seqs \in [1 .. n -> Seq(Character)]
      <3>1. seqs = [k \in 1 .. n |-> seqs[k]]
        BY <1>0, <1>1 DEF Quotes
      <3> QED BY <1>2, <3>1
    <2> QED BY <2>1, FunctionIsSeq
  <1>4. PICK st : st = [k \in 0 .. n |-> State("quoted", SubSeq(field, 1, k), d)]
    OBVIOUS
  <1>5. ASSUME NEW k \in 1 .. n PROVE Leads(st[k - 1], seqs[k], st[k])
    <2>1. k - 1 \in 0 .. n /\ k \in 0 .. n
      OBVIOUS
    <2>2. PICK f, c : f = SubSeq(field, 1, k - 1) /\ c = field[k]
      OBVIOUS
    <2>3. st[k - 1] = State("quoted", f, d) /\ st[k] = State("quoted", Append(f, c), d)
      <3>1. SubSeq(field, 1, k) = Append(f, c)
        BY <1>0, <2>2, UpTo
      <3> QED BY <1>4, <2>1, <2>2, <3>1
    <2>4. CASE c # quote
      <3>2. Reads(State("quoted", f, d), c) = State("quoted", Append(f, c), d)
        BY <2>4, ReadsQuoted
      <3>1. Leads(State("quoted", f, d), <<c>>, State("quoted", Append(f, c), d))
        BY <3>2, LeadsBy
      <3> QED BY <1>2, <2>2, <2>3, <2>4, <3>1, <3>2
    <2>5. CASE c = quote
      <3>1. Leads(State("quoted", f, d), <<quote>>, State("closed", f, d))
        BY LeadsBy, ReadsClosing
      <3>2. Leads(State("closed", f, d), <<quote>>, State("quoted", Append(f, quote), d))
        BY LeadsBy, ReadsDoubled
      <3>3. PICK q : q = <<quote>> /\ q \in Seq(Character) /\ q \o q = <<quote, quote>>
        <4>1. quote \in Character
          BY DEF Character
        <4> QED BY <4>1, Characters
      <3>4. Leads(State("quoted", f, d), q \o q, State("quoted", Append(f, quote), d))
        BY <3>1, <3>2, <3>3, LeadsOn
      <3> QED BY <1>2, <2>2, <2>3, <2>5, <3>3, <3>4
    <2> QED BY <2>4, <2>5
  <1>6. PICK inner : inner = FlattenSeq(seqs) /\ inner \in Seq(Character)
    <2>1. PICK g : Grows(g, seqs, Character) /\ FlattenSeq(seqs) = g[Len(seqs)]
      BY <1>3, FlattenGrows
    <2>2. g[n] \in Seq(Character)
      BY <1>3, <2>1 DEF Grows
    <2> QED BY <1>3, <2>1, <2>2
  <1>7. Leads(State("quoted", <<>>, d), inner, State("quoted", field, d))
    <2>1. Leads(st[0], FlattenSeq(seqs), st[Len(seqs)])
      BY <1>3, <1>5, LeadsThrough
    <2>2. st[0] = State("quoted", <<>>, d) /\ st[n] = State("quoted", field, d)
      <3>1. SubSeq(field, 1, 0) = <<>> /\ SubSeq(field, 1, n) = field /\ 0 \in 0 .. n /\ n \in 0 .. n
        BY <1>0, UpTo
      <3> QED BY <1>4, <3>1
    <2> QED BY <1>3, <1>6, <2>1, <2>2
  <1>8. PICK q : q = <<quote>> /\ q \in Seq(Character)
    <2>1. quote \in Character
      BY DEF Character
    <2> QED BY <2>1, Characters
  <1>9. Leads(State("start", <<>>, d), q, State("quoted", <<>>, d))
    BY <1>8, LeadsBy, ReadsOpening
  <1>10. Leads(State("quoted", field, d), q, State("closed", field, d))
    BY <1>8, LeadsBy, ReadsClosing
  <1>11. PICK front : front = q \o inner /\ front \in Seq(Character)
    BY <1>6, <1>8, ConcatProperties
  <1>12. Leads(State("start", <<>>, d), front, State("quoted", field, d))
    BY <1>6, <1>7, <1>8, <1>9, <1>11, LeadsOn
  <1>13. Leads(State("start", <<>>, d), front \o q, State("closed", field, d))
    BY <1>8, <1>10, <1>11, <1>12, LeadsOn
  <1>14. front \o q \in Seq(Character)
    BY <1>8, <1>11, ConcatProperties
  <1> QED BY <1>1, <1>6, <1>8, <1>11, <1>13, <1>14

LEMMA EscapedIsRead ==
  ASSUME NEW field \in Seq(Character), NEW d
  PROVE  /\ csvEscape(field) \in Seq(Character)
         /\ \E mode \in {"start", "plain", "closed"} :
              Leads(State("start", <<>>, d), csvEscape(field), State(mode, field, d))
  <1>1. CASE NeedsNoQuotes(field)
    <2>1. csvEscape(field) = field
      BY <1>1 DEF csvEscape, NeedsNoQuotes
    <2>2. PICK mode \in {"start", "plain"} : Leads(State("start", <<>>, d), field, State(mode, field, d))
      BY <1>1, PlainIsRead
    <2>3. mode \in {"start", "plain", "closed"}
      OBVIOUS
    <2> QED BY <2>1, <2>2, <2>3
  <1>2. CASE ~NeedsNoQuotes(field)
    <2>1. csvEscape(field) = <<quote>> \o FlattenSeq(Quotes(field)) \o <<quote>>
      BY <1>2 DEF csvEscape, NeedsNoQuotes
    <2>2. PICK mode \in {"start", "plain", "closed"} : mode = "closed"
      OBVIOUS
    <2> QED BY <2>1, <2>2, QuotedIsRead
  <1> QED BY <1>1, <1>2

(* A row is read as its fields: after each comma, those before it.         *)
LEMMA RowIsRead ==
  ASSUME NEW fields \in Seq(Seq(Character)), fields # <<>>
  PROVE  ReadBack(csvRow(fields)) = State("end", <<>>, fields)
  <1>0. PICK n \in Nat : n = Len(fields) /\ n # 0 /\ DOMAIN fields = 1 .. n
    BY LenProperties, EmptySeq
  <1>1. PICK parts : parts = [i \in 1 .. n |-> csvEscape(fields[i]) \o IF i < n THEN <<",">> ELSE <<"cr", "lf">>]
    OBVIOUS
  <1>2. PICK st : st = [i \in 0 .. n |-> IF i < n THEN State("start", <<>>, SubSeq(fields, 1, i))
                                         ELSE State("end", <<>>, fields)]
    OBVIOUS
  <1>3. PICK comma, return, feed : comma = <<",">> /\ return = <<"cr">> /\ feed = <<"lf">>
    OBVIOUS
  <1>4. comma \in Seq(Character) /\ return \in Seq(Character) /\ feed \in Seq(Character)
    <2>1. "," \in Character /\ "cr" \in Character /\ "lf" \in Character
      BY DEF Character
    <2> QED BY <1>3, <2>1, Characters
  <1>5. PICK end : end = return \o feed /\ end \in Seq(Character) /\ end = <<"cr", "lf">>
    <2>1. "cr" \in Character /\ "lf" \in Character
      BY DEF Character
    <2>2. return \o feed = <<"cr", "lf">>
      BY <1>3, <2>1, TwoCharacters
    <2> QED BY <1>4, <2>2, ConcatProperties
  <1>6. ASSUME NEW i \in 1 .. n PROVE parts[i] \in Seq(Character) /\ Leads(st[i - 1], parts[i], st[i])
    <2>1. i - 1 \in 0 .. n /\ i \in 0 .. n /\ i - 1 < n
      BY <1>0
    <2>2. PICK field, d : field \in Seq(Character) /\ field = fields[i] /\ d = SubSeq(fields, 1, i - 1)
      BY <1>0, ElementOfSeq
    <2>3. st[i - 1] = State("start", <<>>, d)
      BY <1>2, <2>1, <2>2
    <2>4. SubSeq(fields, 1, i) = Append(d, field)
      BY <1>0, <2>2, UpTo
    <2>5. PICK text \in Seq(Character), mode \in {"start", "plain", "closed"} :
            text = csvEscape(field) /\ Leads(State("start", <<>>, d), text, State(mode, field, d))
      BY <2>2, EscapedIsRead
    <2>6. CASE i < n
      <3>1. parts[i] = text \o comma
        BY <1>1, <1>3, <2>2, <2>5, <2>6
      <3>2. Leads(State(mode, field, d), comma, State("start", <<>>, Append(d, field)))
        BY <1>3, LeadsBy, ReadsComma
      <3>3. Leads(State("start", <<>>, d), text \o comma, State("start", <<>>, Append(d, field)))
        BY <1>4, <2>5, <3>2, LeadsOn
      <3>4. st[i] = State("start", <<>>, Append(d, field))
        BY <1>2, <2>1, <2>4, <2>6
      <3>5. text \o comma \in Seq(Character)
        BY <1>4, ConcatProperties
      <3> QED BY <2>3, <3>1, <3>3, <3>4, <3>5
    <2>7. CASE i = n
      <3>0. ~(i < n)
        BY <1>0, <2>7
      <3>1. parts[i] = text \o end
        BY <1>1, <1>5, <2>2, <2>5, <3>0
      <3>2. Leads(State(mode, field, d), return, State("cr", <<>>, Append(d, field)))
        BY <1>3, LeadsBy, ReadsReturn
      <3>3. Leads(State("cr", <<>>, Append(d, field)), feed, State("end", <<>>, Append(d, field)))
        BY <1>3, LeadsBy, ReadsFeed
      <3>4. Leads(State(mode, field, d), end, State("end", <<>>, Append(d, field)))
        BY <1>4, <1>5, <3>2, <3>3, LeadsOn
      <3>5. Leads(State("start", <<>>, d), text \o end, State("end", <<>>, Append(d, field)))
        BY <1>5, <2>5, <3>4, LeadsOn
      <3>6. Append(d, field) = fields
        BY <1>0, <2>4, <2>7, UpTo
      <3>7. st[i] = State("end", <<>>, Append(d, field))
        BY <1>2, <2>1, <3>0, <3>6
      <3>8. text \o end \in Seq(Character)
        BY <1>5, ConcatProperties
      <3> QED BY <2>3, <3>1, <3>5, <3>7, <3>8
    <2> QED BY <1>0, <2>6, <2>7
  <1>7. parts \in Seq(Seq(Character)) /\ Len(parts) = n
    <2>1. parts \in [1 .. n -> Seq(Character)]
      <3>1. DOMAIN parts = 1 .. n /\ parts = [i \in 1 .. n |-> parts[i]]
        BY <1>1
      <3> QED BY <1>6, <3>1
    <2> QED BY <1>0, <2>1, FunctionIsSeq
  <1>8. Leads(st[0], FlattenSeq(parts), st[n])
    <2>1. \A i \in 1 .. Len(parts) : Leads(st[i - 1], parts[i], st[i])
      BY <1>6, <1>7
    <2>2. Leads(st[0], FlattenSeq(parts), st[Len(parts)])
      BY <1>7, <2>1, LeadsThrough
    <2> QED BY <1>7, <2>2
  <1>9. st[0] = State("start", <<>>, <<>>) /\ st[n] = State("end", <<>>, fields)
    <2>1. 0 \in 0 .. n /\ n \in 0 .. n /\ 0 < n /\ ~(n < n)
      BY <1>0
    <2>2. SubSeq(fields, 1, 0) = <<>>
      BY UpTo
    <2> QED BY <1>2, <2>1, <2>2
  <1>10. PICK row : row = FlattenSeq(parts) /\ row \in Seq(Character)
    <2>1. PICK g : Grows(g, parts, Character) /\ FlattenSeq(parts) = g[Len(parts)]
      BY <1>7, FlattenGrows
    <2>2. g[n] \in Seq(Character)
      <3>1. g \in [0 .. n -> Seq(Character)]
        BY <1>7, <2>1 DEF Grows
      <3>2. n \in 0 .. n
        BY <1>0
      <3> QED BY <3>1, <3>2
    <2> QED BY <1>7, <2>1, <2>2
  <1>11. csvRow(fields) = row
    BY <1>0, <1>1, <1>10 DEF csvRow
  <1>12. ReadBack(row) = State("end", <<>>, fields)
    BY <1>8, <1>9, <1>10, ReadBackIs
  <1> QED BY <1>11, <1>12

(* The request and the answer that Export gives to it.                     *)
LEMMA ExportedReadsBack ==
  ASSUME request \in CsvRequest, answer = <<csvRow(request.fields)>>
  PROVE  CsvReadsBack
  <1>1. PICK fields : fields = request.fields /\ fields \in Seq(Seq(Character)) /\ fields # <<>>
    BY DEF CsvRequest
  <1>2. ReadBack(answer[1]) = State("end", <<>>, fields)
    BY <1>1, RowIsRead
  <1>3. ReadBack(answer[1]).mode = "end" /\ ReadBack(answer[1]).fields = request.fields
    BY <1>1, <1>2 DEF State
  <1> QED BY <1>3 DEF CsvReadsBack
-----------------------------------------------------------------------------
(* The request and the answer that Reload gives to it.                     *)
LEMMA ReloadedSurvives ==
  ASSUME request \in SettingsRequest, answer = <<LoadedParams(SavedParams(request.params))>>
  PROVE  SettingsSurvive
  <1>1. PICK p : /\ p = request.params
                 /\ p \in [effect : STRING, brightness : -100 .. 100, contrast : 0 .. 200,
                           flipHorizontal : BOOLEAN, blurRadius : 0 .. 10, gaussianKernel : {k \in 1 .. 31 : k % 2 = 1}]
    BY DEF SettingsRequest
  <1>2. PICK loaded : loaded = LoadedParams(SavedParams(p)) /\ loaded = answer[1]
    BY <1>1
  <1>3. Clamped(p.brightness, -100, 100) = p.brightness /\ Clamped(p.contrast, 0, 200) = p.contrast
        /\ Clamped(p.blurRadius, 0, 10) = p.blurRadius /\ Clamped(Odd(p.gaussianKernel), 1, 31) = p.gaussianKernel
    BY <1>1 DEF Clamped, Odd
  <1>4. loaded = [effect |-> IF p.effect \in Effects THEN p.effect ELSE "brightness",
                  brightness |-> p.brightness, contrast |-> p.contrast,
                  flipHorizontal |-> p.flipHorizontal,
                  blurRadius |-> p.blurRadius, gaussianKernel |-> p.gaussianKernel]
    <2>1. (IF p.flipHorizontal THEN "horizontal" ELSE "vertical") # "vertical" <=> p.flipHorizontal
      BY <1>1
    <2>2. PICK saved : saved = SavedParams(p)
      OBVIOUS
    <2>3. /\ saved.effect = p.effect /\ saved.brightness = p.brightness /\ saved.contrast = p.contrast
          /\ saved.flipMode = IF p.flipHorizontal THEN "horizontal" ELSE "vertical"
          /\ saved.blurRadius = p.blurRadius /\ saved.gaussianKernel = p.gaussianKernel
      BY <2>2 DEF SavedParams
    <2>4. (saved.flipMode # "vertical") = p.flipHorizontal
      BY <1>1, <2>1, <2>3
    <2> QED BY <1>2, <1>3, <2>2, <2>3, <2>4 DEF LoadedParams
  <1>5. loaded = [p EXCEPT !.effect = IF @ \in Effects THEN @ ELSE "brightness"]
    BY <1>1, <1>4
  <1> QED BY <1>1, <1>2, <1>5 DEF SettingsSurvive

-----------------------------------------------------------------------------
(* Kahn's layers.                                                          *)

(* What holds after every round: the layers and what is left share out the *)
(* nodes, and an edge into a layer starts in an earlier one.               *)
Round(nodes) == [layers : Seq(SUBSET nodes), left : SUBSET nodes]

InOneLayer(round, nodes) ==
  /\ \A v \in nodes : v \notin round.left <=> \E l \in DOMAIN round.layers : v \in round.layers[l]
  /\ \A l, m \in DOMAIN round.layers : \A v \in nodes :
       v \in round.layers[l] /\ v \in round.layers[m] => l = m

FromEarlier(round, edges, nodes) ==
  \A v \in nodes, w \in nodes, l \in DOMAIN round.layers :
    <<v, w>> \in edges /\ w \in round.layers[l] =>
      \E m \in DOMAIN round.layers : m < l /\ v \in round.layers[m]

Sound(round, edges, nodes) ==
  round \in Round(nodes) /\ InOneLayer(round, nodes) /\ FromEarlier(round, edges, nodes)

LEMMA RoundIsRound ==
  ASSUME NEW nodes, NEW edges, NEW round \in Round(nodes)
  PROVE  NextRound(edges, nodes, round) \in Round(nodes)
  <1>1. PICK F : F = Free(edges, nodes \ round.left, round.left)
    OBVIOUS
  <1>2. F \in SUBSET nodes /\ round.layers \in Seq(SUBSET nodes) /\ round.left \in SUBSET nodes
    BY <1>1 DEF Free, Round
  <1>3. Append(round.layers, F) \in Seq(SUBSET nodes)
    <2>1. PICK S : S = SUBSET nodes
      OBVIOUS
    <2>2. F \in S /\ round.layers \in Seq(S)
      BY <1>2, <2>1
    <2>3. Append(round.layers, F) \in Seq(S)
      BY <2>2
    <2> QED BY <2>1, <2>3
  <1>4. NextRound(edges, nodes, round) =
          IF F = {} THEN round ELSE [layers |-> Append(round.layers, F), left |-> round.left \ F]
    BY <1>1 DEF NextRound
  <1> QED BY <1>2, <1>3, <1>4 DEF Round

LEMMA RoundIsSound ==
  ASSUME NEW nodes, NEW edges \in SUBSET (nodes \X nodes), NEW round, Sound(round, edges, nodes)
  PROVE  Sound(NextRound(edges, nodes, round), edges, nodes)
  <1>1. PICK F : F = Free(edges, nodes \ round.left, round.left)
    OBVIOUS
  <1>2. round \in Round(nodes) /\ InOneLayer(round, nodes) /\ FromEarlier(round, edges, nodes)
    BY DEF Sound
  <1>3. PICK layers, left : layers = round.layers /\ left = round.left
    OBVIOUS
  <1>4. layers \in Seq(SUBSET nodes) /\ left \in SUBSET nodes
    BY <1>2, <1>3 DEF Round
  <1>5. PICK n \in Nat : n = Len(layers) /\ DOMAIN layers = 1 .. n
    BY <1>4
  <1>6. PICK next : next = NextRound(edges, nodes, round)
    OBVIOUS
  <1>7. next \in Round(nodes)
    BY <1>2, <1>6, RoundIsRound
  <1>8. F \in SUBSET left /\ \A v \in nodes, w \in F : <<v, w>> \in edges => v \in nodes \ left
    <2>1. F \in SUBSET left
      BY <1>1, <1>3 DEF Free
    <2>2. ASSUME NEW v \in nodes, NEW w \in F, <<v, w>> \in edges PROVE v \in nodes \ left
      <3>1. PICK e \in edges : e = <<v, w>>
        BY <2>2
      <3>2. e[2] = w => e[1] \in nodes \ left
        BY <1>1, <1>3, <3>1 DEF Free
      <3> QED BY <3>1, <3>2
    <2> QED BY <2>1, <2>2
  <1>9. CASE F = {}
    <2>1. next = round
      BY <1>1, <1>6, <1>9 DEF NextRound
    <2> QED BY <1>6, <2>1
  <1>10. CASE F # {}
    <2>1. next = [layers |-> Append(layers, F), left |-> left \ F]
      BY <1>1, <1>3, <1>6, <1>10 DEF NextRound
    <2>2. PICK wider : wider = Append(layers, F)
      OBVIOUS
    <2>3. /\ next.layers = wider /\ next.left = left \ F
          /\ DOMAIN wider = 1 .. n + 1 /\ wider[n + 1] = F /\ \A l \in 1 .. n : wider[l] = layers[l]
      BY <1>4, <1>5, <2>1, <2>2
    <2>4. \A v \in nodes : v \notin left <=> \E l \in 1 .. n : v \in layers[l]
      BY <1>2, <1>3, <1>5 DEF InOneLayer
    <2>5. \A l, m \in 1 .. n : \A v \in nodes : v \in layers[l] /\ v \in layers[m] => l = m
      BY <1>2, <1>3, <1>5 DEF InOneLayer
    <2>6. ASSUME NEW v \in nodes PROVE v \notin left \ F <=> \E l \in 1 .. n + 1 : v \in wider[l]
      <3>1. ASSUME v \notin left \ F PROVE \E l \in 1 .. n + 1 : v \in wider[l]
        <4>1. CASE v \in F
          <5>1. n + 1 \in 1 .. n + 1
            OBVIOUS
          <5> QED BY <2>3, <4>1, <5>1
        <4>2. CASE v \notin F
          <5>1. PICK l \in 1 .. n : v \in layers[l]
            BY <2>4, <3>1, <4>2
          <5>2. l \in 1 .. n + 1 /\ wider[l] = layers[l]
            BY <2>3
          <5> QED BY <5>1, <5>2
        <4> QED BY <4>1, <4>2
      <3>2. ASSUME NEW l \in 1 .. n + 1, v \in wider[l] PROVE v \notin left \ F
        <4>1. CASE l = n + 1
          BY <2>3, <3>2, <4>1
        <4>2. CASE l # n + 1
          <5>1. l \in 1 .. n
            BY <4>2
          <5> QED BY <2>3, <2>4, <3>2, <5>1
        <4> QED BY <4>1, <4>2
      <3> QED BY <3>1, <3>2
    <2>7. ASSUME NEW l \in 1 .. n + 1, NEW m \in 1 .. n + 1, NEW v \in nodes, v \in wider[l], v \in wider[m] PROVE l = m
      <3>1. \A k \in 1 .. n + 1 : IF k = n + 1 THEN v \in F <=> v \in wider[k] ELSE k \in 1 .. n /\ wider[k] = layers[k]
        BY <2>3
      <3>2. \A k \in 1 .. n : v \in layers[k] => v \notin F
        BY <1>8, <2>4
      <3> QED BY <2>5, <2>7, <3>1, <3>2
    <2>8. InOneLayer(next, nodes)
      BY <2>3, <2>6, <2>7 DEF InOneLayer
    <2>9. ASSUME NEW v \in nodes, NEW w \in nodes, NEW l \in 1 .. n + 1, <<v, w>> \in edges, w \in wider[l]
          PROVE  \E m \in 1 .. n + 1 : m < l /\ v \in wider[m]
      <3>1. \E m \in 1 .. n : m < l /\ v \in layers[m]
        <4>1. CASE l = n + 1
          <5>1. v \notin left
            BY <1>8, <2>3, <2>9, <4>1
          <5>2. PICK m \in 1 .. n : v \in layers[m]
            BY <2>4, <5>1
          <5>3. m < l
            BY <4>1
          <5> QED BY <5>2, <5>3
        <4>2. CASE l # n + 1
          <5>1. l \in 1 .. n /\ w \in layers[l]
            BY <2>3, <2>9, <4>2
          <5> QED BY <1>2, <1>3, <1>5, <2>9, <5>1 DEF FromEarlier
        <4> QED BY <4>1, <4>2
      <3>2. PICK m \in 1 .. n : m < l /\ v \in layers[m]
        BY <3>1
      <3>3. m \in 1 .. n + 1 /\ wider[m] = layers[m]
        BY <2>3
      <3> QED BY <3>2, <3>3
    <2>10. FromEarlier(next, edges, nodes)
      BY <2>3, <2>9 DEF FromEarlier
    <2> QED BY <1>6, <1>7, <2>8, <2>10 DEF Sound
  <1> QED BY <1>9, <1>10

(* A round after which something is free had fewer nodes left to place.    *)
Blocked(round, edges, nodes) == Free(edges, nodes \ round.left, round.left) = {}

Nearer(round, edges, nodes, k) ==
  Cardinality(round.left) <= Cardinality(nodes) - k \/ Blocked(round, edges, nodes)

LEMMA RoundIsNearer ==
  ASSUME NEW nodes, IsFiniteSet(nodes), NEW edges, NEW round \in Round(nodes),
         NEW k \in Nat, Nearer(round, edges, nodes, k)
  PROVE  Nearer(NextRound(edges, nodes, round), edges, nodes, k + 1)
  <1>1. CASE Blocked(round, edges, nodes)
    <2>1. NextRound(edges, nodes, round) = round
      BY <1>1 DEF NextRound, Blocked
    <2> QED BY <1>1, <2>1 DEF Nearer
  <1>2. CASE ~Blocked(round, edges, nodes)
    <2>1. PICK F : F = Free(edges, nodes \ round.left, round.left)
      OBVIOUS
    <2>2. PICK left, rest : left = round.left /\ rest = left \ F
      OBVIOUS
    <2>3. F # {} /\ F \subseteq left /\ left \subseteq nodes
      BY <1>2, <2>1, <2>2 DEF Blocked, Free, Round
    <2>4. IsFiniteSet(left)
      BY <2>3, FS_Subset
    <2>5. rest \subseteq left /\ rest # left
      BY <2>2, <2>3
    <2>6. Cardinality(rest) < Cardinality(left) /\ Cardinality(rest) \in Nat /\ Cardinality(left) \in Nat
          /\ Cardinality(nodes) \in Nat
      <3>1. IsFiniteSet(rest) /\ Cardinality(rest) <= Cardinality(left)
            /\ (Cardinality(rest) = Cardinality(left) => rest = left)
        BY <2>4, <2>5, FS_Subset
      <3>2. Cardinality(rest) \in Nat /\ Cardinality(left) \in Nat /\ Cardinality(nodes) \in Nat
        BY <2>4, <3>1, FS_CardinalityType
      <3> QED BY <2>5, <3>1, <3>2
    <2>7. Cardinality(left) <= Cardinality(nodes) - k
      BY <1>2, <2>2 DEF Nearer
    <2>8. NextRound(edges, nodes, round).left = rest
      BY <2>1, <2>2, <2>3 DEF NextRound
    <2>9. Cardinality(rest) <= Cardinality(nodes) - (k + 1)
      BY <2>6, <2>7
    <2> QED BY <2>8, <2>9 DEF Nearer
  <1> QED BY <1>1, <1>2

(* The rounds of Kahn's loop.                                              *)
Rounds(c, edges, nodes, n) ==
  /\ c[0] = [layers |-> <<>>, left |-> nodes]
  /\ \A k \in 1 .. n : c[k] = NextRound(edges, nodes, c[k - 1])

LEMMA KahnIs ==
  ASSUME NEW nodes, NEW edges, NEW n \in Nat, n = Cardinality(nodes)
  PROVE  \E c : Rounds(c, edges, nodes, n) /\ Kahn(edges, nodes) = c[n]
  <1> DEFINE Is(c) == c = [k \in 0 .. n |->
                             IF k = 0 THEN [layers |-> <<>>, left |-> nodes]
                             ELSE NextRound(edges, nodes, c[k - 1])]
  <1>1. PICK S, base : S = Round(nodes) /\ base = [layers |-> <<>>, left |-> nodes]
    OBVIOUS
  <1>2. base \in S
    BY <1>1 DEF Round
  <1>3. PICK step : step = [k \in 1 .. n |-> [x \in S |-> NextRound(edges, nodes, x)]]
    OBVIOUS
  <1>4. step \in [1 .. n -> [S -> S]]
    <2>1. \A x \in S : NextRound(edges, nodes, x) \in S
      BY <1>1, RoundIsRound
    <2> QED BY <1>3, <2>1
  <1>5. PICK f : Recurses(f, n, S, base, step)
    BY <1>2, <1>4, Recursion
  <1>6. f \in [0 .. n -> S] /\ f[0] = base /\ \A k \in 1 .. n : f[k] = step[k][f[k - 1]]
    BY <1>5 DEF Recurses
  <1>7. ASSUME NEW k \in 0 .. n
        PROVE  f[k] = IF k = 0 THEN [layers |-> <<>>, left |-> nodes] ELSE NextRound(edges, nodes, f[k - 1])
    <2>1. CASE k = 0
      BY <1>1, <1>6, <2>1
    <2>2. CASE k # 0
      <3>1. k \in 1 .. n /\ k - 1 \in 0 .. n
        BY <2>2
      <3>2. f[k] = step[k][f[k - 1]] /\ f[k - 1] \in S
        BY <1>6, <3>1
      <3> QED BY <1>3, <2>2, <3>1, <3>2
    <2> QED BY <2>1, <2>2
  <1>8. Is(f)
    BY <1>6, <1>7
  <1>9. PICK c : c = (CHOOSE u : Is(u))
    OBVIOUS
  <1>10. Is(c)
    BY <1>8, <1>9
  <1>11. Kahn(edges, nodes) = c[n]
    BY <1>9 DEF Kahn
  <1>12. Rounds(c, edges, nodes, n)
    <2>1. c[0] = [layers |-> <<>>, left |-> nodes]
      BY <1>10
    <2>2. ASSUME NEW k \in 1 .. n PROVE c[k] = NextRound(edges, nodes, c[k - 1])
      <3>1. k \in 0 .. n /\ k # 0
        OBVIOUS
      <3> QED BY <1>10, <3>1
    <2> QED BY <2>1, <2>2 DEF Rounds
  <1> QED BY <1>11, <1>12

(* At the end every layer is sound, and every node that is left has an     *)
(* edge from another that is left.                                         *)
Closed(left, edges) == \A w \in left : \E v \in left : <<v, w>> \in edges

LEMMA KahnEnds ==
  ASSUME NEW nodes, IsFiniteSet(nodes), NEW edges \in SUBSET (nodes \X nodes)
  PROVE  Sound(Kahn(edges, nodes), edges, nodes) /\ Closed(Kahn(edges, nodes).left, edges)
  <1>1. PICK n \in Nat : n = Cardinality(nodes)
    BY FS_CardinalityType
  <1>2. PICK c : Rounds(c, edges, nodes, n) /\ Kahn(edges, nodes) = c[n]
    BY <1>1, KahnIs
  <1> DEFINE Good(k) == Sound(c[k], edges, nodes) /\ Nearer(c[k], edges, nodes, k)
             T == {k \in 0 .. n : Good(k)}
  <1>3. 0 \in T
    <2>1. PICK first : first = [layers |-> <<>>, left |-> nodes] /\ c[0] = first
      BY <1>2 DEF Rounds
    <2>2. first.layers = <<>> /\ first.left = nodes /\ DOMAIN first.layers = {} /\ first \in Round(nodes)
      BY <2>1 DEF Round
    <2>3. Sound(first, edges, nodes)
      BY <2>2 DEF Sound, InOneLayer, FromEarlier
    <2>4. Nearer(first, edges, nodes, 0)
      BY <1>1, <2>2 DEF Nearer
    <2> QED BY <2>1, <2>3, <2>4
  <1>4. ASSUME NEW k \in 0 .. n - 1, k \in T PROVE k + 1 \in T
    <2>1. k + 1 \in 1 .. n /\ k + 1 - 1 = k /\ k + 1 \in 0 .. n /\ k \in Nat
      OBVIOUS
    <2>2. c[k + 1] = NextRound(edges, nodes, c[k])
      BY <1>2, <2>1 DEF Rounds
    <2>3. Sound(c[k], edges, nodes) /\ Nearer(c[k], edges, nodes, k) /\ c[k] \in Round(nodes)
      BY <1>4 DEF Sound
    <2>4. Sound(c[k + 1], edges, nodes)
      BY <2>2, <2>3, RoundIsSound
    <2>5. Nearer(c[k + 1], edges, nodes, k + 1)
      BY <2>1, <2>2, <2>3, RoundIsNearer
    <2> QED BY <2>1, <2>4, <2>5
  <1> HIDE DEF T
  <1>5. \A k \in 0 .. n : k \in T
    BY <1>3, <1>4, SetInduction
  <1>6. n \in T
    BY <1>5
  <1>7. PICK end : end = Kahn(edges, nodes)
    OBVIOUS
  <1>8. Sound(end, edges, nodes) /\ Nearer(end, edges, nodes, n)
    BY <1>2, <1>6, <1>7 DEF T
  <1>9. end.left \in SUBSET nodes
    BY <1>8 DEF Sound, Round
  <1>10. Blocked(end, edges, nodes)
    <2> SUFFICES ASSUME Cardinality(end.left) <= n - n PROVE Blocked(end, edges, nodes)
      BY <1>1, <1>8 DEF Nearer
    <2>1. IsFiniteSet(end.left)
      BY <1>9, FS_Subset
    <2>2. Cardinality(end.left) \in Nat /\ (Cardinality(end.left) = 0 => end.left = {})
      BY <2>1, FS_CardinalityType, FS_EmptySet
    <2>3. end.left = {}
      BY <1>1, <2>2
    <2> QED BY <2>3 DEF Blocked, Free
  <1>11. Closed(end.left, edges)
    <2> SUFFICES ASSUME NEW w \in end.left PROVE \E v \in end.left : <<v, w>> \in edges
      BY DEF Closed
    <2>1. w \notin Free(edges, nodes \ end.left, end.left)
      BY <1>10 DEF Blocked
    <2>2. PICK e \in edges : e[2] = w /\ e[1] \notin nodes \ end.left
      BY <2>1 DEF Free
    <2>3. e[1] \in nodes /\ e = <<e[1], e[2]>>
      OBVIOUS
    <2> QED BY <2>2, <2>3
  <1> QED BY <1>7, <1>8, <1>11

(* What is reached in at most so many steps.                               *)
Reaches(w, edges, nodes, v, n) ==
  /\ w \in [0 .. n -> SUBSET nodes] /\ w[0] = {}
  /\ \A k \in 1 .. n : \A u \in nodes :
       u \in w[k] <=> \E x \in nodes : <<x, u>> \in edges /\ (x = v \/ x \in w[k - 1])

LEMMA ReachedIs ==
  ASSUME NEW nodes, NEW edges \in SUBSET (nodes \X nodes), NEW n \in Nat, n = Cardinality(nodes), NEW v
  PROVE  \E w : Reaches(w, edges, nodes, v, n) /\ ReachedFrom(edges, nodes, v) = w[n]
  <1> DEFINE After(S) == {e[2] : e \in {e \in edges : e[1] \in S}}
             Is(c) == c = [k \in 0 .. n |-> IF k = 0 THEN {} ELSE After({v} \cup c[k - 1])]
  <1>1. PICK S, base : S = SUBSET nodes /\ base = {}
    OBVIOUS
  <1>2. \A X : After(X) \in S
    BY <1>1
  <1>3. \A X : \A u \in nodes : u \in After(X) <=> \E x \in nodes : <<x, u>> \in edges /\ x \in X
    <2> SUFFICES ASSUME NEW X, NEW u \in nodes
                 PROVE  u \in After(X) <=> \E x \in nodes : <<x, u>> \in edges /\ x \in X
      OBVIOUS
    <2>1. ASSUME u \in After(X) PROVE \E x \in nodes : <<x, u>> \in edges /\ x \in X
      <3>1. PICK e \in edges : e[1] \in X /\ e[2] = u
        BY <2>1
      <3>2. e[1] \in nodes /\ e = <<e[1], e[2]>>
        OBVIOUS
      <3> QED BY <3>1, <3>2
    <2>2. ASSUME NEW x \in nodes, <<x, u>> \in edges, x \in X PROVE u \in After(X)
      <3>1. PICK e \in edges : e = <<x, u>>
        BY <2>2
      <3>2. e[1] = x /\ e[2] = u
        BY <3>1
      <3> QED BY <2>2, <3>2
    <2> QED BY <2>1, <2>2
  <1>4. PICK step : step = [k \in 1 .. n |-> [x \in S |-> After({v} \cup x)]]
    OBVIOUS
  <1> HIDE DEF After
  <1>5. step \in [1 .. n -> [S -> S]] /\ base \in S
    BY <1>1, <1>2, <1>4
  <1>6. PICK f : Recurses(f, n, S, base, step)
    BY <1>5, Recursion
  <1>7. f \in [0 .. n -> S] /\ f[0] = base /\ \A k \in 1 .. n : f[k] = step[k][f[k - 1]]
    BY <1>6 DEF Recurses
  <1>8. ASSUME NEW k \in 1 .. n PROVE f[k] = After({v} \cup f[k - 1])
    <2>1. k - 1 \in 0 .. n
      OBVIOUS
    <2>2. f[k - 1] \in S
      BY <1>7, <2>1
    <2> QED BY <1>4, <1>7, <2>2
  <1>9. Is(f)
    <2>1. ASSUME NEW k \in 0 .. n PROVE f[k] = IF k = 0 THEN {} ELSE After({v} \cup f[k - 1])
      BY <1>1, <1>7, <1>8
    <2> QED BY <1>7, <2>1
  <1>10. PICK c : c = (CHOOSE u : Is(u))
    OBVIOUS
  <1>11. Is(c)
    BY <1>9, <1>10
  <1>12. ReachedFrom(edges, nodes, v) = c[n]
    BY <1>10, n = Cardinality(nodes) DEF ReachedFrom, After
  <1>13. c[0] = {} /\ \A k \in 1 .. n : c[k] = After({v} \cup c[k - 1])
    <2>1. ASSUME NEW k \in 1 .. n PROVE c[k] = After({v} \cup c[k - 1])
      <3>1. k \in 0 .. n /\ k # 0
        OBVIOUS
      <3> QED BY <1>11, <3>1
    <2>2. c[0] = {}
      BY <1>11
    <2> QED BY <2>1, <2>2
  <1>14. Reaches(c, edges, nodes, v, n)
    <2>1. ASSUME NEW k \in 0 .. n PROVE c[k] \in SUBSET nodes
      <3>1. CASE k = 0
        BY <1>13, <3>1
      <3>2. CASE k # 0
        <4>1. k \in 1 .. n
          BY <3>2
        <4> QED BY <1>1, <1>2, <1>13, <4>1
      <3> QED BY <3>1, <3>2
    <2>2. c \in [0 .. n -> SUBSET nodes]
      BY <1>11, <2>1
    <2>3. ASSUME NEW k \in 1 .. n, NEW u \in nodes
          PROVE  u \in c[k] <=> \E x \in nodes : <<x, u>> \in edges /\ (x = v \/ x \in c[k - 1])
      <3>1. c[k] = After({v} \cup c[k - 1])
        BY <1>13
      <3>2. u \in c[k] <=> \E x \in nodes : <<x, u>> \in edges /\ x \in {v} \cup c[k - 1]
        BY <1>3, <3>1
      <3> QED BY <3>2
    <2> QED BY <1>13, <2>2, <2>3 DEF Reaches
  <1> QED BY <1>12, <1>14

(* More steps reach no less.                                               *)
LEMMA ReachesMore ==
  ASSUME NEW nodes, NEW edges, NEW n \in Nat, NEW v, NEW w, Reaches(w, edges, nodes, v, n), NEW d \in 0 .. n
  PROVE  w[d] \subseteq w[n]
  <1>1. /\ w \in [0 .. n -> SUBSET nodes] /\ w[0] = {}
        /\ \A k \in 1 .. n : \A u \in nodes :
             u \in w[k] <=> \E x \in nodes : <<x, u>> \in edges /\ (x = v \/ x \in w[k - 1])
    BY DEF Reaches
  <1> DEFINE T == {k \in 0 .. n : k >= 1 => w[k - 1] \subseteq w[k]}
  <1>2. 0 \in T
    OBVIOUS
  <1>3. ASSUME NEW k \in 0 .. n - 1, k \in T PROVE k + 1 \in T
    <2>1. k + 1 \in 1 .. n /\ k + 1 \in 0 .. n /\ k + 1 - 1 = k
      OBVIOUS
    <2>2. CASE k = 0
      BY <1>1, <2>1, <2>2
    <2>3. CASE k # 0
      <3>1. k \in 1 .. n /\ w[k - 1] \subseteq w[k]
        BY <1>3, <2>3
      <3>2. w[k] \subseteq nodes
        BY <1>1
      <3>3. ASSUME NEW u \in w[k] PROVE u \in w[k + 1]
        <4>1. PICK x \in nodes : <<x, u>> \in edges /\ (x = v \/ x \in w[k - 1])
          BY <1>1, <3>1, <3>2
        <4>2. x = v \/ x \in w[k]
          BY <3>1, <4>1
        <4> QED BY <1>1, <2>1, <3>2, <4>1, <4>2
      <3> QED BY <2>1, <3>3
    <2> QED BY <2>2, <2>3
  <1> HIDE DEF T
  <1>4. \A k \in 0 .. n : k \in T
    BY <1>2, <1>3, SetInduction
  <1>5. \A k \in 1 .. n : w[k - 1] \subseteq w[k]
    <2> SUFFICES ASSUME NEW k \in 1 .. n PROVE w[k - 1] \subseteq w[k]
      OBVIOUS
    <2>1. k \in 0 .. n /\ k >= 1
      OBVIOUS
    <2>2. k \in T
      BY <1>4, <2>1
    <2> QED BY <2>1, <2>2 DEF T
  <1> DEFINE U == {k \in 0 .. n : k >= d => w[d] \subseteq w[k]}
  <1>6. 0 \in U
    OBVIOUS
  <1>7. ASSUME NEW k \in 0 .. n - 1, k \in U PROVE k + 1 \in U
    <2>1. k + 1 \in 1 .. n /\ k + 1 - 1 = k
      OBVIOUS
    <2>2. w[k] \subseteq w[k + 1]
      BY <1>5, <2>1
    <2> QED BY <1>7, <2>2
  <1> HIDE DEF U
  <1>8. \A k \in 0 .. n : k \in U
    BY <1>6, <1>7, SetInduction
  <1>9. n \in U /\ n >= d
    BY <1>8
  <1> QED BY <1>9 DEF U

(* What reaches a node in a layer is in an earlier one.                    *)
InEarlier(v, u, round) ==
  \A l \in DOMAIN round.layers : u \in round.layers[l] => \E m \in DOMAIN round.layers : m < l /\ v \in round.layers[m]

LEMMA ReachedIsLater ==
  ASSUME NEW nodes, NEW edges \in SUBSET (nodes \X nodes), IsFiniteSet(nodes), NEW round,
         Sound(round, edges, nodes), NEW v \in nodes, NEW u \in ReachedFrom(edges, nodes, v)
  PROVE  InEarlier(v, u, round)
  <1>1. PICK n \in Nat : n = Cardinality(nodes)
    BY FS_CardinalityType
  <1>2. PICK w : Reaches(w, edges, nodes, v, n) /\ ReachedFrom(edges, nodes, v) = w[n]
    BY <1>1, ReachedIs
  <1>3. /\ w \in [0 .. n -> SUBSET nodes] /\ w[0] = {}
        /\ \A k \in 1 .. n : \A x \in nodes :
             x \in w[k] <=> \E y \in nodes : <<y, x>> \in edges /\ (y = v \/ y \in w[k - 1])
    BY <1>2 DEF Reaches
  <1>4. \A l \in DOMAIN round.layers : l \in Int
    BY DEF Sound, Round
  <1> DEFINE T == {k \in 0 .. n : \A x \in w[k] : InEarlier(v, x, round)}
  <1>5. 0 \in T
    BY <1>3
  <1>6. ASSUME NEW k \in 0 .. n - 1, k \in T PROVE k + 1 \in T
    <2>1. k + 1 \in 1 .. n /\ k + 1 \in 0 .. n /\ k + 1 - 1 = k
      OBVIOUS
    <2>2. ASSUME NEW x \in w[k + 1], NEW l \in DOMAIN round.layers, x \in round.layers[l]
          PROVE  \E m \in DOMAIN round.layers : m < l /\ v \in round.layers[m]
      <3>1. x \in nodes
        BY <1>3, <2>1
      <3>2. PICK y \in nodes : <<y, x>> \in edges /\ (y = v \/ y \in w[k])
        <4>1. PICK j \in 1 .. n : j = k + 1 /\ j - 1 = k
          BY <2>1
        <4>2. x \in w[j] <=> \E y \in nodes : <<y, x>> \in edges /\ (y = v \/ y \in w[j - 1])
          BY <1>3, <3>1
        <4> QED BY <2>2, <4>1, <4>2
      <3>3. PICK m \in DOMAIN round.layers : m < l /\ y \in round.layers[m]
        BY <2>2, <3>1, <3>2 DEF Sound, FromEarlier
      <3>4. CASE y = v
        BY <3>3, <3>4
      <3>5. CASE y \in w[k]
        <4>1. PICK j \in DOMAIN round.layers : j < m /\ v \in round.layers[j]
          BY <1>6, <3>3, <3>5 DEF InEarlier
        <4>2. j < l
          BY <1>4, <3>3, <4>1
        <4> QED BY <4>1, <4>2
      <3> QED BY <3>2, <3>4, <3>5
    <2> QED BY <2>1, <2>2 DEF InEarlier
  <1> HIDE DEF T
  <1>7. \A k \in 0 .. n : k \in T
    BY <1>5, <1>6, SetInduction
  <1>8. n \in T
    BY <1>7
  <1> QED BY <1>2, <1>8 DEF T

(* A walk against the edges reaches each of its nodes from every later one. *)
Walk(p, edges, nodes, n) ==
  p \in [0 .. n -> nodes] /\ \A k \in 1 .. n : <<p[k], p[k - 1]>> \in edges

LEMMA WalkReaches ==
  ASSUME NEW nodes, NEW edges \in SUBSET (nodes \X nodes), NEW n \in Nat, n = Cardinality(nodes),
         NEW p, Walk(p, edges, nodes, n), NEW j \in 1 .. n, NEW i \in 0 .. j - 1
  PROVE  p[i] \in ReachedFrom(edges, nodes, p[j])
  <1>1. PICK w : Reaches(w, edges, nodes, p[j], n) /\ ReachedFrom(edges, nodes, p[j]) = w[n]
    BY ReachedIs
  <1>2. /\ w \in [0 .. n -> SUBSET nodes] /\ w[0] = {}
        /\ \A k \in 1 .. n : \A x \in nodes :
             x \in w[k] <=> \E y \in nodes : <<y, x>> \in edges /\ (y = p[j] \/ y \in w[k - 1])
    BY <1>1 DEF Reaches
  <1>3. p \in [0 .. n -> nodes] /\ \A k \in 1 .. n : <<p[k], p[k - 1]>> \in edges
    BY DEF Walk
  <1> DEFINE T == {d \in 0 .. j : d >= 1 => p[j - d] \in w[d]}
  <1>4. 0 \in T
    OBVIOUS
  <1>5. ASSUME NEW d \in 0 .. j - 1, d \in T PROVE d + 1 \in T
    <2>1. PICK m \in 1 .. n : m = j - d
      OBVIOUS
    <2>2. PICK e \in 1 .. n : e = d + 1 /\ e - 1 = d
      OBVIOUS
    <2>3. m - 1 \in 0 .. n /\ m \in 0 .. n /\ m - 1 = j - e
      BY <2>1, <2>2
    <2>4. <<p[m], p[m - 1]>> \in edges /\ p[m] \in nodes /\ p[m - 1] \in nodes
      BY <1>3, <2>3
    <2>5. p[m] = p[j] \/ p[m] \in w[d]
      <3>1. CASE d = 0
        BY <2>1, <3>1
      <3>2. CASE d # 0
        BY <1>5, <2>1, <3>2
      <3> QED BY <3>1, <3>2
    <2>6. p[m - 1] \in w[e]
      <3>1. PICK x \in nodes, y \in nodes : x = p[m - 1] /\ y = p[m] /\ <<y, x>> \in edges
        BY <2>4
      <3>2. x \in w[e] <=> \E z \in nodes : <<z, x>> \in edges /\ (z = p[j] \/ z \in w[e - 1])
        BY <1>2
      <3>3. y = p[j] \/ y \in w[e - 1]
        BY <2>2, <2>5, <3>1
      <3> QED BY <3>1, <3>2, <3>3
    <2>7. e \in 0 .. j /\ (e >= 1 => p[j - e] \in w[e])
      BY <2>2, <2>3, <2>6
    <2> QED BY <2>2, <2>7
  <1> HIDE DEF T
  <1>6. \A d \in 0 .. j : d \in T
    BY <1>4, <1>5, SetInduction
  <1>7. PICK d \in 1 .. j : d = j - i /\ j - d = i
    OBVIOUS
  <1>8. p[i] \in w[d]
    <2>1. d \in T /\ d >= 1
      BY <1>6
    <2> QED BY <1>7, <2>1 DEF T
  <1>9. d \in 0 .. n
    OBVIOUS
  <1>10. w[d] \subseteq w[n]
    BY <1>1, <1>9, ReachesMore
  <1> QED BY <1>1, <1>8, <1>10

(* Where every node has an edge from another that is left, each is on a    *)
(* cycle or reached from one.                                              *)
LEMMA ClosedIsCyclic ==
  ASSUME NEW nodes, NEW edges \in SUBSET (nodes \X nodes), IsFiniteSet(nodes),
         NEW left \in SUBSET nodes, Closed(left, edges), NEW v \in left
  PROVE  \E u \in Cyclic(edges, nodes) : v \in ReachedFrom(edges, nodes, u)
  <1>1. PICK n \in Nat : n = Cardinality(nodes)
    BY FS_CardinalityType
  <1>2. PICK pred : pred = [x \in left |-> CHOOSE y \in left : <<y, x>> \in edges]
    OBVIOUS
  <1>3. \A x \in left : pred[x] \in left /\ <<pred[x], x>> \in edges
    BY <1>2 DEF Closed
  <1>4. PICK step : step = [k \in 1 .. n |-> pred]
    OBVIOUS
  <1>5. step \in [1 .. n -> [left -> left]]
    BY <1>2, <1>3, <1>4
  <1>6. PICK p : Recurses(p, n, left, v, step)
    BY <1>5, Recursion
  <1>7. p \in [0 .. n -> left] /\ p[0] = v /\ \A k \in 1 .. n : p[k] = step[k][p[k - 1]]
    BY <1>6 DEF Recurses
  <1>8. Walk(p, edges, nodes, n)
    <2>1. p \in [0 .. n -> nodes]
      BY <1>7
    <2>2. ASSUME NEW k \in 1 .. n PROVE <<p[k], p[k - 1]>> \in edges
      <3>1. k - 1 \in 0 .. n
        OBVIOUS
      <3>2. p[k] = pred[p[k - 1]] /\ p[k - 1] \in left
        BY <1>4, <1>7, <3>1
      <3> QED BY <1>3, <3>2
    <2> QED BY <2>1, <2>2 DEF Walk
  <1>9. \E i, j \in 0 .. n : i # j /\ p[i] = p[j]
    <2>1. PICK S : S = 0 .. n
      OBVIOUS
    <2>2. IsFiniteSet(S) /\ Cardinality(S) = n + 1
      <3>1. IsFiniteSet(0 .. n) /\ Cardinality(0 .. n) = IF 0 > n THEN 0 ELSE n - 0 + 1
        BY FS_Interval
      <3> QED BY <2>1, <3>1
    <2>3. IsFiniteSet(left) /\ Cardinality(left) <= n /\ Cardinality(left) \in Nat
      BY <1>1, FS_Subset, FS_CardinalityType
    <2>4. Cardinality(S) > Cardinality(left) /\ p \in [S -> left]
      BY <1>7, <2>1, <2>2, <2>3
    <2>5. \E x, y \in S : x # y /\ p[x] = p[y]
      BY <2>2, <2>3, <2>4, FS_PigeonHole
    <2> QED BY <2>1, <2>5
  <1>10. PICK i, j \in 0 .. n : i < j /\ p[i] = p[j]
    <2>1. PICK a, b \in 0 .. n : a # b /\ p[a] = p[b]
      BY <1>9
    <2>2. CASE a < b
      BY <2>1, <2>2
    <2>3. CASE b < a
      BY <2>1, <2>3
    <2> QED BY <2>1, <2>2, <2>3
  <1>11. j \in 1 .. n /\ i \in 0 .. j - 1
    BY <1>10
  <1>12. p[i] \in ReachedFrom(edges, nodes, p[j])
    BY <1>1, <1>8, <1>11, WalkReaches
  <1>13. PICK u \in left : u = p[i]
    BY <1>7
  <1>14. u \in ReachedFrom(edges, nodes, u)
    BY <1>10, <1>12, <1>13
  <1>15. u \in Cyclic(edges, nodes)
    BY <1>14 DEF Cyclic
  <1>16. v \in ReachedFrom(edges, nodes, u)
    <2>1. CASE i = 0
      BY <1>7, <1>13, <1>14, <2>1
    <2>2. CASE i # 0
      <3>1. i \in 1 .. n /\ 0 \in 0 .. i - 1
        BY <2>2
      <3>2. p[0] \in ReachedFrom(edges, nodes, p[i])
        BY <1>1, <1>8, <3>1, WalkReaches
      <3> QED BY <1>7, <1>13, <3>2
    <2> QED BY <2>1, <2>2
  <1> QED BY <1>15, <1>16

(* What never becomes free is what the cycles reach.                       *)
Stuck(edges, nodes) == {v \in nodes : \E u \in Cyclic(edges, nodes) : v \in ReachedFrom(edges, nodes, u)}

LEMMA LeftIsStuck ==
  ASSUME NEW nodes, NEW edges \in SUBSET (nodes \X nodes), IsFiniteSet(nodes)
  PROVE  Kahn(edges, nodes).left = Stuck(edges, nodes)
  <1>1. PICK end : end = Kahn(edges, nodes)
    OBVIOUS
  <1>2. Sound(end, edges, nodes) /\ Closed(end.left, edges)
    BY <1>1, KahnEnds
  <1>3. end.left \in SUBSET nodes
    BY <1>2 DEF Sound, Round
  <1>4. ASSUME NEW v \in end.left PROVE v \in Stuck(edges, nodes)
    BY <1>2, <1>3, ClosedIsCyclic DEF Stuck
  <1>5. ASSUME NEW v \in Stuck(edges, nodes), v \notin end.left PROVE FALSE
    <2>1. PICK u \in Cyclic(edges, nodes) : v \in ReachedFrom(edges, nodes, u)
      BY DEF Stuck
    <2>2. u \in nodes /\ u \in ReachedFrom(edges, nodes, u) /\ v \in nodes
      BY DEF Cyclic, Stuck
    <2>3. PICK l \in DOMAIN end.layers : v \in end.layers[l]
      BY <1>2, <1>5, <2>2 DEF Sound, InOneLayer
    <2>4. PICK m \in DOMAIN end.layers : u \in end.layers[m]
      <3>1. InEarlier(u, v, end)
        BY <1>2, <2>1, <2>2, ReachedIsLater
      <3> QED BY <2>3, <3>1 DEF InEarlier
    <2>5. InEarlier(u, u, end)
      BY <1>2, <2>2, ReachedIsLater
    <2>6. PICK k \in DOMAIN end.layers : k < m /\ u \in end.layers[k]
      BY <2>4, <2>5 DEF InEarlier
    <2>7. k = m
      BY <1>2, <2>2, <2>4, <2>6 DEF Sound, InOneLayer
    <2>8. m \in Int
      BY <1>2 DEF Sound, Round
    <2> QED BY <2>6, <2>7, <2>8
  <1> QED BY <1>1, <1>4, <1>5

(* Every node is in one layer, the last one included.                      *)
OnceEach(layers, nodes) ==
  \A v \in nodes : \E l \in DOMAIN layers :
    v \in layers[l] /\ \A m \in DOMAIN layers : v \in layers[m] => m = l

Ordered(layers, edges, nodes, stuck) ==
  \A v, w \in nodes : \A l, m \in DOMAIN layers :
    <<v, w>> \in edges /\ w \notin stuck /\ v \in layers[l] /\ w \in layers[m] => l < m

LEMMA LayersAre ==
  ASSUME NEW nodes, NEW edges \in SUBSET (nodes \X nodes), IsFiniteSet(nodes),
         NEW end, Sound(end, edges, nodes), NEW layers,
         layers = IF end.left = {} THEN end.layers ELSE Append(end.layers, end.left)
  PROVE  /\ OnceEach(layers, nodes)
         /\ end.left # {} => Last(layers) = end.left
         /\ Ordered(layers, edges, nodes, end.left)
  <1>1. end.layers \in Seq(SUBSET nodes) /\ end.left \in SUBSET nodes
    BY DEF Sound, Round
  <1>2. PICK n \in Nat : n = Len(end.layers) /\ DOMAIN end.layers = 1 .. n
    BY <1>1
  <1>3. PICK first, left : first = end.layers /\ left = end.left
    OBVIOUS
  <1>4. \A v \in nodes : v \notin left <=> \E l \in 1 .. n : v \in first[l]
    BY <1>2, <1>3 DEF Sound, InOneLayer
  <1>5. \A l, m \in 1 .. n : \A v \in nodes : v \in first[l] /\ v \in first[m] => l = m
    BY <1>2, <1>3 DEF Sound, InOneLayer
  <1>6. \A v, w \in nodes : \A l \in 1 .. n :
          <<v, w>> \in edges /\ w \in first[l] => \E m \in 1 .. n : m < l /\ v \in first[m]
    BY <1>2, <1>3 DEF Sound, FromEarlier
  <1>7. PICK N \in Nat : N = (IF left = {} THEN n ELSE n + 1)
    OBVIOUS
  <1>8. /\ DOMAIN layers = 1 .. N /\ \A l \in 1 .. n : l \in 1 .. N /\ layers[l] = first[l]
        /\ left # {} => layers[N] = left /\ Last(layers) = left
        /\ \A l \in 1 .. N : l \in 1 .. n \/ (l = N /\ N = n + 1 /\ left # {} /\ layers[l] = left)
    <2>1. CASE left = {}
      BY <1>1, <1>2, <1>3, <1>7, <2>1
    <2>2. CASE left # {}
      <3>1. layers = Append(first, left) /\ first \in Seq(SUBSET nodes) /\ n = Len(first) /\ N = n + 1
        BY <1>1, <1>2, <1>3, <1>7, <2>2
      <3>2. DOMAIN layers = 1 .. N /\ Len(layers) = N /\ layers[N] = left /\ \A l \in 1 .. n : layers[l] = first[l]
        BY <3>1
      <3>3. Last(layers) = left
        BY <3>2 DEF Last
      <3> QED BY <2>2, <3>1, <3>2, <3>3
    <2> QED BY <2>1, <2>2
  <1>9. ASSUME NEW v \in nodes
        PROVE  \E l \in 1 .. N : v \in layers[l] /\ \A m \in 1 .. N : v \in layers[m] => m = l
    <2>1. CASE v \in left
      <3>1. N \in 1 .. N /\ N = n + 1 /\ v \in layers[N]
        BY <1>7, <1>8, <2>1
      <3>2. \A m \in 1 .. N : v \in layers[m] => m = N
        BY <1>4, <1>8, <2>1
      <3> QED BY <3>1, <3>2
    <2>2. CASE v \notin left
      <3>1. PICK l \in 1 .. n : v \in first[l]
        BY <1>4, <2>2
      <3>2. l \in 1 .. N /\ v \in layers[l]
        BY <1>8, <3>1
      <3>3. ASSUME NEW m \in 1 .. N, v \in layers[m] PROVE m = l
        <4>1. m \in 1 .. n
          BY <1>8, <2>2, <3>3
        <4> QED BY <1>5, <1>8, <3>1, <3>3, <4>1
      <3> QED BY <3>2, <3>3
    <2> QED BY <2>1, <2>2
  <1>10. ASSUME NEW v \in nodes, NEW w \in nodes, NEW l \in 1 .. N, NEW m \in 1 .. N,
                <<v, w>> \in edges, w \notin left, v \in layers[l], w \in layers[m]
         PROVE  l < m
    <2>1. m \in 1 .. n /\ w \in first[m]
      BY <1>8, <1>10
    <2>2. PICK k \in 1 .. n : k < m /\ v \in first[k]
      BY <1>6, <1>10, <2>1
    <2>3. k \in 1 .. N /\ v \in layers[k]
      BY <1>8, <2>2
    <2>4. PICK j \in 1 .. N : \A i \in 1 .. N : v \in layers[i] => i = j
      BY <1>9
    <2>5. l = k
      BY <1>10, <2>3, <2>4
    <2> QED BY <2>2, <2>5
  <1>11. OnceEach(layers, nodes)
    <2>1. PICK D : D = DOMAIN layers /\ D = 1 .. N
      BY <1>8
    <2>2. \A v \in nodes : \E l \in D : v \in layers[l] /\ \A m \in D : v \in layers[m] => m = l
      BY <1>9, <2>1
    <2> QED BY <2>1, <2>2, Zenon DEF OnceEach
  <1>12. Ordered(layers, edges, nodes, left)
    BY <1>8, <1>10 DEF Ordered
  <1> QED BY <1>3, <1>8, <1>11, <1>12

(* What LayersRespectEdges asks of an answer.                              *)
WellLayered(cyclic, layers, edges, nodes) ==
  LET stuck  == {v \in nodes : \E u \in Cyclic(edges, nodes) : v \in ReachedFrom(edges, nodes, u)}
      LayerOf(v) == CHOOSE l \in DOMAIN layers : v \in layers[l]
  IN  /\ cyclic <=> stuck # {}
      /\ \A v \in nodes : Cardinality({l \in DOMAIN layers : v \in layers[l]}) = 1
      /\ stuck # {} => Last(layers) = stuck
      /\ \A e \in edges : e[2] \notin stuck => LayerOf(e[1]) < LayerOf(e[2])

LEMMA KahnIsWellLayered ==
  ASSUME NEW nodes, NEW edges \in SUBSET (nodes \X nodes), IsFiniteSet(nodes),
         NEW end, end = Kahn(edges, nodes), NEW layers,
         layers = IF end.left = {} THEN end.layers ELSE Append(end.layers, end.left)
  PROVE  WellLayered(end.left # {}, layers, edges, nodes)
  <1>1. Sound(end, edges, nodes)
    BY KahnEnds
  <1>2. PICK stuck : stuck = Stuck(edges, nodes) /\ end.left = stuck
    BY LeftIsStuck
  <1>3. /\ OnceEach(layers, nodes)
        /\ stuck # {} => Last(layers) = stuck
        /\ Ordered(layers, edges, nodes, stuck)
    <2>1. /\ OnceEach(layers, nodes)
          /\ end.left # {} => Last(layers) = end.left
          /\ Ordered(layers, edges, nodes, end.left)
      BY <1>1, LayersAre
    <2> QED BY <1>2, <2>1, Zenon
  <1>4. ASSUME NEW v \in nodes PROVE Cardinality({l \in DOMAIN layers : v \in layers[l]}) = 1
    <2>1. PICK l \in DOMAIN layers : v \in layers[l] /\ \A m \in DOMAIN layers : v \in layers[m] => m = l
      BY <1>3 DEF OnceEach
    <2>2. {m \in DOMAIN layers : v \in layers[m]} = {l}
      BY <2>1
    <2> QED BY <2>2, FS_Singleton
  <1> DEFINE LayerOf(v) == CHOOSE l \in DOMAIN layers : v \in layers[l]
  <1>5. \A v \in nodes : LayerOf(v) \in DOMAIN layers /\ v \in layers[LayerOf(v)]
    <2> SUFFICES ASSUME NEW v \in nodes PROVE LayerOf(v) \in DOMAIN layers /\ v \in layers[LayerOf(v)]
      OBVIOUS
    <2>1. \E l \in DOMAIN layers : v \in layers[l]
      BY <1>3, Zenon DEF OnceEach
    <2> QED BY <2>1
  <1> HIDE DEF LayerOf
  <1>6. ASSUME NEW e \in edges, e[2] \notin stuck PROVE LayerOf(e[1]) < LayerOf(e[2])
    <2>1. PICK v \in nodes, w \in nodes : e = <<v, w>>
      OBVIOUS
    <2>2. PICK l \in DOMAIN layers, m \in DOMAIN layers :
            l = LayerOf(v) /\ m = LayerOf(w) /\ v \in layers[l] /\ w \in layers[m]
      BY <1>5
    <2>3. <<v, w>> \in edges /\ w \notin stuck
      BY <1>6, <2>1
    <2>4. l < m
      BY <1>3, <2>2, <2>3, Zenon DEF Ordered
    <2>5. e[1] = v /\ e[2] = w
      BY <2>1
    <2> QED BY <2>2, <2>4, <2>5
  <1> QED BY <1>2, <1>3, <1>4, <1>6, Zenon DEF WellLayered, LayerOf, Stuck

(* The request and the answer that Build gives to it.                      *)
LEMMA BuiltIsLayered ==
  ASSUME request \in GraphRequest,
         answer = <<[layers |-> Layers(request.reqs), hasCycle |-> hasCycle(request.reqs)]>>
  PROVE  LayersRespectEdges
  <1>1. PICK reqs : reqs = request.reqs /\ reqs \in Requirements
    BY DEF GraphRequest
  <1>2. PICK nodes, edges : nodes = DOMAIN reqs /\ edges = DepEdges(reqs)
    OBVIOUS
  <1>3. IsFiniteSet(nodes)
    <2>1. PICK n \in Nat : nodes = 1 .. n
      BY <1>1, <1>2 DEF Requirements
    <2> QED BY <2>1, FS_Interval
  <1>4. edges \in SUBSET (nodes \X nodes)
    BY <1>2 DEF DepEdges
  <1>5. PICK end, layers : end = Kahn(edges, nodes)
                           /\ layers = IF end.left = {} THEN end.layers ELSE Append(end.layers, end.left)
    OBVIOUS
  <1>6. WellLayered(end.left # {}, layers, edges, nodes)
    BY <1>3, <1>4, <1>5, KahnIsWellLayered
  <1>7. Layers(reqs) = layers
    BY <1>2, <1>5, Zenon DEF Layers
  <1>8. hasCycle(reqs) = (end.left # {})
    BY <1>2, <1>5, Zenon DEF hasCycle
  <1>9. answer[1].layers = layers /\ answer[1].hasCycle = (end.left # {})
    BY <1>1, <1>7, <1>8
  <1>10. WellLayered(answer[1].hasCycle, answer[1].layers, DepEdges(request.reqs), DOMAIN request.reqs)
    BY <1>1, <1>2, <1>6, <1>9, Zenon
  <1> QED BY <1>10, Zenon DEF LayersRespectEdges, WellLayered
-----------------------------------------------------------------------------
(* The places of the nodes.                                                *)

(* What a request for places asks for.                                     *)
Layered(order, widths) ==
  /\ order \in Seq(Seq(Nat)) /\ widths \in Seq(Nat)
  /\ \A l, m \in DOMAIN order : \A i \in DOMAIN order[l], j \in DOMAIN order[m] :
       /\ order[l][i] \in DOMAIN widths
       /\ order[l][i] = order[m][j] => l = m /\ i = j

(* A step to the right is no less than the usual one and than the width of *)
(* every node of the layer with the padding.                               *)
LEMMA StepIs ==
  ASSUME NEW order, NEW widths, Layered(order, widths), NEW l \in DOMAIN order
  PROVE  /\ Step(order, widths, l) \in Nat /\ Step(order, widths, l) >= 26
         /\ \A i \in DOMAIN order[l] : widths[order[l][i]] + 4 <= Step(order, widths, l)
  <1>1. PICK layer \in Seq(Nat) : layer = order[l]
    BY DEF Layered
  <1>2. \A i \in DOMAIN layer : layer[i] \in DOMAIN widths /\ widths[layer[i]] \in Nat
    <2> SUFFICES ASSUME NEW i \in DOMAIN layer PROVE layer[i] \in DOMAIN widths /\ widths[layer[i]] \in Nat
      OBVIOUS
    <2>1. layer[i] \in DOMAIN widths
      BY <1>1 DEF Layered
    <2> QED BY <2>1 DEF Layered
  <1>3. PICK n \in Nat : n = Len(layer) /\ DOMAIN layer = 1 .. n
    BY <1>1
  <1>4. PICK f : f = [i \in 1 .. n |-> widths[layer[i]]]
    OBVIOUS
  <1>5. f \in [1 .. n -> Nat]
    BY <1>2, <1>3, <1>4
  <1>6. {0} \cup {widths[v] : v \in ToSet(order[l])} = {0} \cup {f[i] : i \in 1 .. n}
    <2>1. \A v : v \in ToSet(layer) <=> \E i \in 1 .. n : layer[i] = v
      BY <1>3 DEF ToSet
    <2>2. {widths[v] : v \in ToSet(layer)} = {f[i] : i \in 1 .. n}
      BY <1>4, <2>1
    <2> QED BY <1>1, <2>2
  <1>7. PICK most : most = Max({0} \cup {widths[v] : v \in ToSet(order[l])})
    OBVIOUS
  <1>8. most \in Nat /\ \A i \in 1 .. n : f[i] <= most
    BY <1>5, <1>6, <1>7, MostOf
  <1>9. Step(order, widths, l) = IF most + 4 > 26 THEN most + 4 ELSE 26
    BY <1>7 DEF Step, kLayerPadding, kHorizontalSpacing
  <1>10. ASSUME NEW i \in DOMAIN order[l] PROVE widths[order[l][i]] + 4 <= Step(order, widths, l)
    <2>1. i \in 1 .. n /\ f[i] = widths[order[l][i]] /\ f[i] \in Nat
      BY <1>1, <1>3, <1>4, <1>5
    <2>2. f[i] <= most
      BY <1>8, <2>1
    <2> QED BY <1>8, <1>9, <2>1, <2>2
  <1> QED BY <1>8, <1>9, <1>10

(* A layer begins where the steps of those before it lead.                 *)
LEMMA LayerXIs ==
  ASSUME NEW order, NEW widths, NEW n \in Nat, NEW f, NEW t, NEW l \in 1 .. n,
         f = [k \in 1 .. n |-> Step(order, widths, k)], IsTotal(t, f, n)
  PROVE  LayerX(order, widths, l) = t[l - 1]
  <1> DEFINE Is(c) == c = [k \in 0 .. l - 1 |-> IF k = 0 THEN 0 ELSE c[k - 1] + Step(order, widths, k)]
  <1>1. t[0] = 0 /\ \A k \in 1 .. n : t[k] = t[k - 1] + f[k]
    BY DEF IsTotal
  <1>2. PICK s : s = [k \in 0 .. l - 1 |-> t[k]]
    OBVIOUS
  <1>3. Is(s)
    <2>1. ASSUME NEW k \in 0 .. l - 1 PROVE s[k] = IF k = 0 THEN 0 ELSE s[k - 1] + Step(order, widths, k)
      <3>1. CASE k = 0
        BY <1>1, <1>2, <3>1
      <3>2. CASE k # 0
        <4>1. k \in 1 .. n /\ k - 1 \in 0 .. l - 1
          BY <3>2
        <4>2. t[k] = t[k - 1] + f[k] /\ f[k] = Step(order, widths, k)
          BY <1>1, <4>1
        <4> QED BY <1>2, <3>2, <4>1, <4>2
      <3> QED BY <3>1, <3>2
    <2> QED BY <1>2, <2>1
  <1>4. PICK c : c = (CHOOSE u : Is(u))
    OBVIOUS
  <1>5. Is(c)
    BY <1>3, <1>4
  <1>6. LayerX(order, widths, l) = c[l - 1]
    BY <1>4 DEF LayerX
  <1>7. PICK N \in Nat : N = l - 1
    OBVIOUS
  <1>8. Alike(c, s, N)
    <2>1. c[0] = s[0]
      BY <1>3, <1>5
    <2>2. ASSUME NEW k \in 1 .. N, c[k - 1] = s[k - 1] PROVE c[k] = s[k]
      <3>1. k \in 0 .. l - 1 /\ k # 0
        BY <1>7
      <3>2. c[k] = c[k - 1] + Step(order, widths, k) /\ s[k] = s[k - 1] + Step(order, widths, k)
        BY <1>3, <1>5, <3>1
      <3> QED BY <2>2, <3>2
    <2> QED BY <2>1, <2>2 DEF Alike
  <1> HIDE DEF Is
  <1>9. \A k \in 0 .. N : c[k] = s[k]
    BY <1>8, Agree
  <1>10. l - 1 \in 0 .. N
    BY <1>7
  <1> QED BY <1>2, <1>6, <1>7, <1>9, <1>10

(* Where a node of layer l and row i is.                                   *)
IsAt(place, order, t, tallest, l, i) ==
  /\ place.x = t[l - 1]
  /\ place.y = (i - 1) * 11 + ((tallest - Len(order[l])) * 11) \div 2

HasPlace(place, order, t, tallest, v) ==
  \E l \in DOMAIN order : \E i \in DOMAIN order[l] : order[l][i] = v /\ IsAt(place, order, t, tallest, l, i)

LEMMA PlaceIs ==
  ASSUME NEW order, NEW widths, Layered(order, widths), NEW n \in Nat, n = Len(order), NEW f, NEW t,
         f = [k \in 1 .. n |-> Step(order, widths, k)], IsTotal(t, f, n),
         NEW at, at = assignCoordinates(order, widths),
         NEW tallest, tallest = Max({0} \cup {Len(order[m]) : m \in DOMAIN order})
  PROVE  \A v \in DOMAIN at : HasPlace(at[v], order, t, tallest, v)
  <1> SUFFICES ASSUME NEW v \in DOMAIN at PROVE HasPlace(at[v], order, t, tallest, v)
    OBVIOUS
  <1>1. DOMAIN order = 1 .. n
    BY DEF Layered
  <1>2. v \in UNION {ToSet(order[l]) : l \in DOMAIN order}
    BY DEF assignCoordinates
  <1>3. PICK l : l = CHOOSE m \in DOMAIN order : v \in ToSet(order[m])
    OBVIOUS
  <1>4. l \in DOMAIN order /\ v \in ToSet(order[l])
    BY <1>2, <1>3
  <1>5. PICK i \in DOMAIN order[l] : i = Row(order, l, v) /\ order[l][i] = v
    BY <1>4 DEF ToSet, Row
  <1>6. LayerX(order, widths, l) = t[l - 1]
    BY <1>1, <1>4, LayerXIs
  <1>7. at[v] =
          [x |-> t[l - 1], y |-> (i - 1) * 11 + ((tallest - Len(order[l])) * 11) \div 2]
    BY <1>2, <1>3, <1>5, <1>6, Zenon DEF assignCoordinates, kVerticalSpacing
  <1>8. IsAt(at[v], order, t, tallest, l, i)
    BY <1>7 DEF IsAt
  <1> QED BY <1>4, <1>5, <1>8, Zenon DEF HasPlace

(* The request and the answer that Place gives to it.                      *)
LEMMA PlacedApart ==
  ASSUME request \in PlacesRequest, answer = <<assignCoordinates(request.order, request.widths)>>
  PROVE  NodesKeepApart
  <1>1. PICK order, widths : order = request.order /\ widths = request.widths
    OBVIOUS
  <1>2. Layered(order, widths)
    BY <1>1 DEF PlacesRequest, Layered
  <1>3. PICK n \in Nat : n = Len(order) /\ DOMAIN order = 1 .. n
    BY <1>2 DEF Layered
  <1>4. PICK f : f = [k \in 1 .. n |-> Step(order, widths, k)]
    OBVIOUS
  <1>5. f \in [1 .. n -> Nat] /\ f \in [1 .. n -> Int]
    <2>1. \A k \in 1 .. n : Step(order, widths, k) \in Nat
      BY <1>2, <1>3, StepIs
    <2> QED BY <1>4, <2>1
  <1>6. PICK t : IsTotal(t, f, n)
    BY <1>5, TotalIs
  <1>7. PICK at : at = answer[1] /\ at = assignCoordinates(order, widths)
    BY <1>1
  <1>8. PICK tallest : tallest = Max({0} \cup {Len(order[m]) : m \in DOMAIN order})
    OBVIOUS
  <1>9. tallest \in Nat
    <2>1. PICK g : g = [l \in 1 .. n |-> Len(order[l])]
      OBVIOUS
    <2>2. g \in [1 .. n -> Nat]
      <3>1. \A l \in 1 .. n : order[l] \in Seq(Nat)
        BY <1>2, <1>3 DEF Layered
      <3> QED BY <2>1, <3>1
    <2>3. {0} \cup {Len(order[m]) : m \in DOMAIN order} = {0} \cup {g[l] : l \in 1 .. n}
      BY <1>3, <2>1
    <2> QED BY <1>8, <2>2, <2>3, MostOf
  <1> DEFINE In(v, l, i) == order[l][i] = v /\ IsAt(at[v], order, t, tallest, l, i)
  <1>10. \A v \in DOMAIN at : \E l \in 1 .. n : \E i \in DOMAIN order[l] : In(v, l, i)
    <2>1. \A v \in DOMAIN at : HasPlace(at[v], order, t, tallest, v)
      BY <1>2, <1>3, <1>4, <1>6, <1>7, <1>8, PlaceIs
    <2> QED BY <1>3, <2>1 DEF HasPlace
  <1>11. ASSUME NEW v, NEW w, NEW l \in 1 .. n, NEW m \in 1 .. n, NEW i \in DOMAIN order[l], NEW j \in DOMAIN order[m],
                In(v, l, i), In(w, m, j), l < m
         PROVE  Beside(at, widths, v, w)
    <2>1. at[v].x = t[l - 1] /\ at[w].x = t[m - 1] /\ order[l][i] = v
      BY <1>11 DEF IsAt
    <2>2. PICK k \in l .. n : k = m - 1
      BY <1>11
    <2>3. t[l - 1] \in Int /\ t[k] \in Int /\ t[l - 1] + f[l] <= t[k]
      BY <1>5, <1>6, TotalGrows
    <2>4. f[l] \in Nat /\ f[l] >= 26 /\ widths[v] + 4 <= f[l]
      BY <1>2, <1>3, <1>4, <1>5, <2>1, StepIs
    <2>5. PICK left \in Nat, right \in Nat : left = widths[v] /\ right = widths[w]
      <3>1. v \in DOMAIN widths /\ w \in DOMAIN widths /\ widths \in Seq(Nat)
        <4>1. order[m][j] = w
          BY <1>11
        <4> QED BY <1>2, <1>3, <2>1, <4>1 DEF Layered
      <3> QED BY <3>1
    <2>6. PICK step \in Int : step = at[w].x - at[v].x
      BY <2>1, <2>2, <2>3
    <2>7. step >= f[l] /\ step > 0 /\ at[v].x < at[w].x
      BY <2>1, <2>2, <2>3, <2>4, <2>6
    <2>8. ASSUME 2 * step < left + right PROVE Covers(left, right)
      BY <2>4, <2>5, <2>7, <2>8 DEF Covers, kLayerPadding, kHorizontalSpacing
    <2>9. 2 * step >= left + right \/ Covers(left, right)
      BY <2>8
    <2> QED BY <2>5, <2>6, <2>7, <2>9 DEF Beside
  <1>12. ASSUME NEW v, NEW w, v # w, NEW l \in 1 .. n, NEW i \in DOMAIN order[l], NEW j \in DOMAIN order[l],
                In(v, l, i), In(w, l, j)
         PROVE  at[v].x = at[w].x /\ at[v].y - at[w].y \notin -10 .. 10
    <2>1. PICK len \in Nat : len = Len(order[l]) /\ DOMAIN order[l] = 1 .. len
      <3>1. order \in Seq(Seq(Nat))
        BY <1>2 DEF Layered
      <3>2. order[l] \in Seq(Nat)
        BY <1>3, <3>1
      <3> QED BY <3>2
    <2>2. PICK c \in Int : c = ((tallest - len) * 11) \div 2
      <3>1. (tallest - len) * 11 \in Int
        BY <1>9, <2>1
      <3> QED BY <3>1
    <2>3. at[v].y = (i - 1) * 11 + c /\ at[w].y = (j - 1) * 11 + c /\ at[v].x = at[w].x
      BY <1>12, <2>1, <2>2 DEF IsAt
    <2>4. i \in Int /\ j \in Int /\ i # j
      BY <1>12, <2>1
    <2> QED BY <2>2, <2>3, <2>4
  <1>13. ASSUME NEW v \in DOMAIN at, NEW w \in DOMAIN at, v # w
         PROVE  \/ at[v].x = at[w].x /\ at[v].y - at[w].y \notin -10 .. 10
                \/ Beside(at, widths, v, w)
                \/ Beside(at, widths, w, v)
    <2>1. PICK l \in 1 .. n : \E i \in DOMAIN order[l] : In(v, l, i)
      BY <1>10
    <2>2. PICK m \in 1 .. n : \E j \in DOMAIN order[m] : In(w, m, j)
      BY <1>10
    <2>3. PICK i \in DOMAIN order[l] : In(v, l, i)
      BY <2>1
    <2>4. PICK j \in DOMAIN order[m] : In(w, m, j)
      BY <2>2
    <2> HIDE DEF In
    <2>5. CASE l < m
      BY <1>11, <2>3, <2>4, <2>5
    <2>6. CASE m < l
      BY <1>11, <2>3, <2>4, <2>6
    <2>7. CASE l = m
      BY <1>12, <1>13, <2>3, <2>4, <2>7
    <2> QED BY <2>5, <2>6, <2>7
  <1> HIDE DEF In
  <1> QED BY <1>1, <1>7, <1>13 DEF NodesKeepApart
-----------------------------------------------------------------------------
LEMMA KindIs ==
  ASSUME NEW r \in Request
  PROVE  /\ r.kind = "effect" => r \in EffectRequest
         /\ r.kind = "chain" => r \in ChainRequest
         /\ r.kind = "blur" => r \in BlurRequest
         /\ r.kind = "settings" => r \in SettingsRequest
         /\ r.kind = "samples" => r \in SamplesRequest
         /\ r.kind = "csv" => r \in CsvRequest
         /\ r.kind = "graph" => r \in GraphRequest
         /\ r.kind = "places" => r \in PlacesRequest
  <1>1. /\ r \in EffectRequest => r.kind = "effect"
        /\ r \in ChainRequest => r.kind = "chain"
        /\ r \in BlurRequest => r.kind = "blur"
    BY DEF EffectRequest, ChainRequest, BlurRequest
  <1>2. /\ r \in SettingsRequest => r.kind = "settings"
        /\ r \in SamplesRequest => r.kind = "samples"
        /\ r \in CsvRequest => r.kind = "csv"
    BY DEF SettingsRequest, SamplesRequest, CsvRequest
  <1>3. /\ r \in GraphRequest => r.kind = "graph"
        /\ r \in PlacesRequest => r.kind = "places"
    BY DEF GraphRequest, PlacesRequest
  <1> QED BY <1>1, <1>2, <1>3 DEF Request

(* What each handler answers to its request.                               *)
Handled ==
  /\ request \in Request
  /\ \/ /\ request.kind = "effect"
        /\ answer = <<[cpu |-> cpuApply(request.effect, request.picture),
                       gpu |-> processTexture(request.effect, OnGpu(request.picture))]>>
     \/ /\ request.kind = "chain"
        /\ answer = <<OnScreen(RunChain(Filmed(request), request.stages), request.gl)>>
     \/ /\ request.kind = "blur"
        /\ answer = <<blur(request.picture, request.radius)>>
     \/ /\ request.kind = "settings"
        /\ answer = <<LoadedParams(SavedParams(request.params))>>
     \/ /\ request.kind = "samples"
        /\ answer = <<[physical   |-> decodeToPhysical(Buffer(request), request.channels, request.bigEndian, 1, 0),
                       normalized |-> decodeToNormalized(Buffer(request), request.channels, request.bigEndian)]>>
     \/ /\ request.kind = "csv"
        /\ answer = <<csvRow(request.fields)>>
     \/ /\ request.kind = "graph"
        /\ answer = <<[layers |-> Layers(request.reqs), hasCycle |-> hasCycle(request.reqs)]>>
     \/ /\ request.kind = "places"
        /\ answer = <<assignCoordinates(request.order, request.widths)>>

LEMMA HandledWell == Handled => PicturesAgree /\ DataReadsBack /\ DrawingIsSound
  <1> SUFFICES ASSUME Handled PROVE PicturesAgree /\ DataReadsBack /\ DrawingIsSound
    OBVIOUS
  <1>1. request \in Request
    BY DEF Handled
  <1>2. FallbackLooksAlike
    <2>1. CASE request.kind = "effect"
      BY <1>1, <2>1, KindIs, FallbackIsNear DEF Handled
    <2>2. CASE request.kind # "effect"
      BY <2>2 DEF FallbackLooksAlike, Answers
    <2> QED BY <2>1, <2>2
  <1>3. ChainsKeepUpright
    <2>1. CASE request.kind = "chain"
      BY <1>1, <2>1, KindIs, FilmedIsUpright DEF Handled
    <2>2. CASE request.kind # "chain"
      BY <2>2, Zenon DEF ChainsKeepUpright, Answers
    <2> QED BY <2>1, <2>2
  <1>4. BlurIsTheMean
    <2>1. CASE request.kind = "blur"
      BY <1>1, <2>1, KindIs, SoftenedIsMean DEF Handled
    <2>2. CASE request.kind # "blur"
      BY <2>2, Zenon DEF BlurIsTheMean, Answers
    <2> QED BY <2>1, <2>2
  <1>5. SettingsSurvive
    <2>1. CASE request.kind = "settings"
      BY <1>1, <2>1, KindIs, ReloadedSurvives DEF Handled
    <2>2. CASE request.kind # "settings"
      BY <2>2 DEF SettingsSurvive, Answers
    <2> QED BY <2>1, <2>2
  <1>6. SamplesReadBack
    <2>1. CASE request.kind = "samples"
      BY <1>1, <2>1, KindIs, DecodedReadsBack DEF Handled
    <2>2. CASE request.kind # "samples"
      BY <2>2, Zenon DEF SamplesReadBack, Answers
    <2> QED BY <2>1, <2>2
  <1>7. CsvReadsBack
    <2>1. CASE request.kind = "csv"
      BY <1>1, <2>1, KindIs, ExportedReadsBack DEF Handled
    <2>2. CASE request.kind # "csv"
      BY <2>2 DEF CsvReadsBack, Answers
    <2> QED BY <2>1, <2>2
  <1>8. LayersRespectEdges
    <2>1. CASE request.kind = "graph"
      BY <1>1, <2>1, KindIs, BuiltIsLayered DEF Handled
    <2>2. CASE request.kind # "graph"
      BY <2>2, Zenon DEF LayersRespectEdges, Answers
    <2> QED BY <2>1, <2>2
  <1>9. NodesKeepApart
    <2>1. CASE request.kind = "places"
      BY <1>1, <2>1, KindIs, PlacedApart DEF Handled
    <2>2. CASE request.kind # "places"
      BY <2>2, Zenon DEF NodesKeepApart, Answers
    <2> QED BY <2>1, <2>2
  <1> QED BY <1>2, <1>3, <1>4, <1>5, <1>6, <1>7, <1>8, <1>9 DEF PicturesAgree, DataReadsBack, DrawingIsSound

LEMMA UnansweredWell == answer = <<>> => PicturesAgree /\ DataReadsBack /\ DrawingIsSound
  <1> SUFFICES ASSUME answer = <<>> PROVE PicturesAgree /\ DataReadsBack /\ DrawingIsSound
    OBVIOUS
  <1>1. \A kind : ~Answers(kind)
    BY DEF Answers
  <1>2. FallbackLooksAlike /\ ChainsKeepUpright /\ BlurIsTheMean
    BY <1>1, Zenon DEF FallbackLooksAlike, ChainsKeepUpright, BlurIsTheMean
  <1>3. CsvReadsBack /\ SettingsSurvive /\ SamplesReadBack
    BY <1>1, Zenon DEF CsvReadsBack, SettingsSurvive, SamplesReadBack
  <1>4. LayersRespectEdges /\ NodesKeepApart
    BY <1>1, Zenon DEF LayersRespectEdges, NodesKeepApart
  <1> QED BY <1>2, <1>3, <1>4 DEF PicturesAgree, DataReadsBack, DrawingIsSound

(* A request is answered at most once, and by its handler.                 *)
Conversed == request \in Request /\ (answer = <<>> \/ Handled)

LEMMA ConversedAlways == ConversionsSpec => []Conversed
  <1>1. ConversionsInit => Conversed
    BY DEF ConversionsInit, Conversed
  <1>2. Conversed /\ [Convert]_<<request, answer>> => Conversed'
    <2> SUFFICES ASSUME Conversed, [Convert]_<<request, answer>> PROVE Conversed'
      OBVIOUS
    <2>1. CASE UNCHANGED <<request, answer>>
      <3>1. request' = request /\ answer' = answer
        BY <2>1
      <3> QED BY <3>1 DEF Conversed, Handled
    <2>2. CASE Convert
      <3>1. request' = request /\ request \in Request
        BY <2>2 DEF Convert, Conversed
      <3>2. Handled'
        <4>1. CASE ApplyEffect
          BY <3>1, <4>1 DEF ApplyEffect, Handled
        <4>2. CASE Film
          BY <3>1, <4>2 DEF Film, Handled
        <4>3. CASE Soften
          BY <3>1, <4>3 DEF Soften, Handled
        <4>4. CASE Reload
          BY <3>1, <4>4 DEF Reload, Handled
        <4>5. CASE Decode
          BY <3>1, <4>5 DEF Decode, Handled
        <4>6. CASE Export
          BY <3>1, <4>6 DEF Export, Handled
        <4>7. CASE Build
          BY <3>1, <4>7 DEF Build, Handled
        <4>8. CASE Place
          BY <3>1, <4>8 DEF Place, Handled
        <4> QED BY <2>2, <4>1, <4>2, <4>3, <4>4, <4>5, <4>6, <4>7, <4>8 DEF Convert
      <3> QED BY <3>1, <3>2 DEF Conversed
    <2> QED BY <2>1, <2>2
  <1> QED BY <1>1, <1>2, PTL DEF ConversionsSpec

(* PicturesAgree for every picture, effect and chain: of the same colours the shader form of an    *)
(* effect looks like the processor form to within a level; a chain keeps the picture upright, and  *)
(* does to the colours it begins with what its effects do on the CPU; and the blur is the rounded  *)
(* mean of its window.                                                                             *)
THEOREM PicturesAlwaysAgree == ConversionsSpec => []PicturesAgree
  <1>1. Conversed => PicturesAgree
    BY HandledWell, UnansweredWell DEF Conversed
  <1> QED BY <1>1, ConversedAlways, PTL

(* DataReadsBack for every request: the settings an effect saves load back, decoded samples are    *)
(* those that were encoded, the physical ones to the precision of a float, and an exported table   *)
(* splits into the cells that were put in.                                                         *)
THEOREM DataAlwaysReadsBack == ConversionsSpec => []DataReadsBack
  <1>1. Conversed => DataReadsBack
    BY HandledWell, UnansweredWell DEF Conversed
  <1> QED BY <1>1, ConversedAlways, PTL

(* DrawingIsSound for every list of requirements and every order and width of the nodes: the layers *)
(* follow the edges and set apart just what the cycles reach, and a node is drawn over another only *)
(* where it is wider than one to its left by more than the space between layers.                    *)
THEOREM DrawingsAreSound == ConversionsSpec => []DrawingIsSound
  <1>1. Conversed => DrawingIsSound
    BY HandledWell, UnansweredWell DEF Conversed
  <1> QED BY <1>1, ConversedAlways, PTL
=============================================================================
