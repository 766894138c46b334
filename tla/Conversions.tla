---------------------------- MODULE Conversions ----------------------------
(***************************************************************************)
(* Data that is turned into other data: a picture by the effects and the   *)
(* nodes of a chain, the bytes of a recording into numbers, the settings   *)
(* of an effect node into a project file and back, fields into a row of a  *)
(* csv file (MatrixExporter), requirements into layers and these into      *)
(* places.  A behaviour is one call of one of them, on any input, and the  *)
(* properties say what it should return.                                   *)
(***************************************************************************)
EXTENDS VideoEffects, SampleDecoder, DependencyLayers

VARIABLES request, answer

-----------------------------------------------------------------------------
(* MatrixExporter: the quoting of a field, a sequence of characters.       *)
quote == "q"

Quotes(field) == [i \in DOMAIN field |-> IF field[i] = quote THEN <<quote, quote>> ELSE <<field[i]>>]

(* Leaves the quotes within a field as they are.                           *)
csvEscapeMut(field) ==
  IF ToSet(field) \cap {",", quote, "cr", "lf"} = {} THEN field
  ELSE <<quote>> \o field \o <<quote>>

csvEscape(field) ==
  IF ToSet(field) \cap {",", quote, "cr", "lf"} = {} THEN field
  ELSE <<quote>> \o FlattenSeq(Quotes(field)) \o <<quote>>

csvRow(fields) ==
  FlattenSeq([i \in DOMAIN fields |->
                csvEscape(fields[i]) \o IF i < Len(fields) THEN <<",">> ELSE <<"cr", "lf">>])
-----------------------------------------------------------------------------
(* What can be asked for.  A picture is a rectangle of pixels.             *)
Byte == 0 .. 255

Pixel == [1 .. 3 -> Byte]

Picture ==
  {p \in Seq(Seq(Pixel)) : p # <<>> /\ p[1] # <<>> /\ \A y \in DOMAIN p : Len(p[y]) = Len(p[1])}

Brightness == [id : {"brightness"}, value : -100 .. 100]
Contrast   == [id : {"contrast"}, value : 0 .. 200]
Fixed      == [id : {"grayscale", "sepia", "invert", "channelSwap"}, value : {0}]
Flip       == [id : {"flip"}, value : BOOLEAN]
Blur       == [id : {"blur"}, value : 0 .. 10]

EffectRequest ==
  [kind : {"effect"}, effect : Brightness \cup Contrast \cup Fixed \cup Flip, picture : Picture]

(* Stages whose shaders do not round.                                      *)
Stage ==
  [effect : Flip \cup Blur \cup {e \in Fixed : e.id \in {"invert", "channelSwap"}},
   custom : BOOLEAN, hardwareGL : BOOLEAN]

(* The picture of a frame, and if it has planes, the picture that shaders  *)
(* make of them.                                                           *)
ChainRequest ==
  {r \in [kind : {"chain"}, picture : Picture, shaded : Picture, planar : BOOLEAN,
          stages : Seq(Stage), gl : BOOLEAN] :
     Len(r.shaded) = Len(r.picture) /\ Len(r.shaded[1]) = Len(r.picture[1])}

BlurRequest == [kind : {"blur"}, picture : Picture, radius : Nat]

SettingsRequest ==
  [kind : {"settings"},
   params : [effect : STRING, brightness : -100 .. 100, contrast : 0 .. 200,
             flipHorizontal : BOOLEAN, blurRadius : 0 .. 10, gaussianKernel : {k \in 1 .. 31 : k % 2 = 1}]]

(* A recording is frames of one number for each channel, and at its end    *)
(* perhaps some bytes of another frame.                                    *)
Lowest(type) == IF type.signed THEN -(Size(type.bytes) \div 2) ELSE 0

Numbers(type) == Lowest(type) .. Lowest(type) + Size(type.bytes) - 1

SamplesRequest ==
  {r \in [kind : {"samples"}, channels : Seq(SampleType), frames : Seq(Seq(Int)),
          bigEndian : BOOLEAN, tail : Seq(0 .. Base - 1)] :
     /\ r.channels # <<>> /\ r.frames # <<>>
     /\ \A f \in DOMAIN r.frames :
          /\ DOMAIN r.frames[f] = DOMAIN r.channels
          /\ \A ch \in DOMAIN r.channels : r.frames[f][ch] \in Numbers(r.channels[ch])
     /\ Len(r.tail) < bytesPerFrame(r.channels)}

Character == {"x", ",", quote, "cr", "lf"}

CsvRequest == {r \in [kind : {"csv"}, fields : Seq(Seq(Character))] : r.fields # <<>>}

(* Any list of requirements that a parse may give.                         *)
Requirements ==
  Seq([id : Nat, parent : Nat, deps : SUBSET Nat, section : Nat, repo : STRING])

GraphRequest == [kind : {"graph"}, reqs : Requirements]

(* Layers in which every node is once, and the width of each node.         *)
PlacesRequest ==
  {r \in [kind : {"places"}, order : Seq(Seq(Nat)), widths : Seq(Nat)] :
     \A l, m \in DOMAIN r.order : \A i \in DOMAIN r.order[l], j \in DOMAIN r.order[m] :
       /\ r.order[l][i] \in DOMAIN r.widths
       /\ r.order[l][i] = r.order[m][j] => l = m /\ i = j}

Request ==
  EffectRequest \cup ChainRequest \cup BlurRequest \cup SettingsRequest \cup SamplesRequest \cup CsvRequest
  \cup GraphRequest \cup PlacesRequest
-----------------------------------------------------------------------------
ApplyEffect ==
  /\ request.kind = "effect"
  /\ answer' = <<[cpu |-> cpuApply(request.effect, request.picture),
                  gpu |-> processTexture(request.effect, OnGpu(request.picture))]>>

Filmed(r) == IF r.planar THEN Planes(r.picture, r.shaded) ELSE Colours(r.picture)

Film ==
  /\ request.kind = "chain"
  /\ answer' = <<OnScreen(RunChain(Filmed(request), request.stages), request.gl)>>

Soften == request.kind = "blur" /\ answer' = <<blur(request.picture, request.radius)>>

Reload == request.kind = "settings" /\ answer' = <<LoadedParams(SavedParams(request.params))>>

(* The bytes of a number: its digits, from the lowest by division.         *)
Encoded(type, number, bigEndian) ==
  LET rest[i \in 1 .. type.bytes] ==
        IF i = 1 THEN number + Size(type.bytes) ELSE rest[i - 1] \div Base
      low == [i \in 1 .. type.bytes |-> rest[i] % Base]
  IN  IF bigEndian THEN Reverse(low) ELSE low

Recorded(channels, frame, bigEndian) ==
  FlattenSeq([ch \in DOMAIN channels |-> Encoded(channels[ch], frame[ch], bigEndian)])

Buffer(r) ==
  FlattenSeq([f \in DOMAIN r.frames |-> Recorded(r.channels, r.frames[f], r.bigEndian)]) \o r.tail

Decode ==
  /\ request.kind = "samples"
  /\ answer' = <<[physical   |-> decodeToPhysical(Buffer(request), request.channels, request.bigEndian, 1, 0),
                  normalized |-> decodeToNormalized(Buffer(request), request.channels, request.bigEndian)]>>

Export == request.kind = "csv" /\ answer' = <<csvRow(request.fields)>>

Build ==
  /\ request.kind = "graph"
  /\ answer' = <<[layers |-> Layers(request.reqs), hasCycle |-> hasCycle(request.reqs)]>>

Place == request.kind = "places" /\ answer' = <<assignCoordinates(request.order, request.widths)>>

Convert ==
  /\ answer = <<>>
  /\ ApplyEffect \/ Film \/ Soften \/ Reload \/ Decode \/ Export \/ Build \/ Place
  /\ UNCHANGED request

ConversionsInit == request \in Request /\ answer = <<>>

ConversionsSpec == ConversionsInit /\ [][Convert]_<<request, answer>>

Answers(kind) == request.kind = kind /\ answer # <<>>
-----------------------------------------------------------------------------
Near(a, b) == a - b \in -1 .. 1

(* The shader of an effect and its fallback on the CPU give the same       *)
(* picture of the same colours, but for the rounding of a byte.            *)
FallbackLooksAlike ==
  Answers("effect") =>
    LET gpu == asImage(answer[1].gpu)
        cpu == answer[1].cpu
    IN  /\ DOMAIN gpu = DOMAIN cpu
        /\ \A y \in DOMAIN gpu :
             /\ DOMAIN gpu[y] = DOMAIN cpu[y]
             /\ \A x \in DOMAIN gpu[y], b \in 1 .. 3 : Near(gpu[y][x][b], cpu[y][x][b])

(* The planes of a frame become colours at the first node, or if there is  *)
(* none at the display, where a shader or Qt needs them.                   *)
ByShader(stages, gl) ==
  IF stages = <<>> THEN gl
  ELSE stages[1].custom \/ (stages[1].hardwareGL /\ ~CpuOnly(stages[1].effect))

Begun(r) == IF r.planar /\ ByShader(r.stages, r.gl) THEN r.shaded ELSE r.picture

(* Whatever nodes a frame goes through, on the GPU or not, and however it  *)
(* is drawn, it comes out as its effects on the CPU would leave the        *)
(* colours it began with, never upside down; only a custom shader may have *)
(* no output.                                                              *)
ChainsKeepUpright ==
  Answers("chain") =>
    LET stages == request.stages
        onTheCpu[k \in 0 .. Len(stages)] ==
          IF k = 0 THEN Begun(request)
          ELSE IF stages[k].custom THEN onTheCpu[k - 1]
          ELSE cpuApply(stages[k].effect, onTheCpu[k - 1])
    IN  \/ answer[1] = onTheCpu[Len(stages)]
        \/ answer[1] = <<>> /\ \E k \in 1 .. Len(stages) : stages[k].custom

(* The two passes of the blur make each byte the mean over its             *)
(* neighbourhood, but for the truncation of each pass.                     *)
BlurIsTheMean ==
  Answers("blur") =>
    LET p == request.picture
        rows == DOMAIN p
        columns == DOMAIN p[1]
        Around(y, x) == {q \in rows \X columns : /\ q[1] - y \in -request.radius .. request.radius
                                                 /\ q[2] - x \in -request.radius .. request.radius}
        InRow(y, x, b, v) ==
          Total([u \in columns |-> IF <<v, u>> \in Around(y, x) THEN p[v][u][b] ELSE 0], Len(p[1]))
        Sum(y, x, b) == Total([v \in rows |-> InRow(y, x, b, v)], Len(p))
    IN  \A y \in rows, x \in columns, b \in 1 .. 3 :
          LET mean == Sum(y, x, b) \div Cardinality(Around(y, x))
          IN  answer[1][y][x][b] \in {mean - 1, mean}

(* What the widgets of an effect node can set comes back from the project  *)
(* file; an effect that the program no longer has is the first.            *)
SettingsSurvive ==
  Answers("settings") =>
    answer[1] = [request.params EXCEPT !.effect = IF @ \in Effects THEN @ ELSE "brightness"]

(* What was recorded is decoded, number by number and channel by channel,  *)
(* whatever the types, the byte order and the bytes of an unfinished       *)
(* frame.  Physical numbers are right to the precision of a float, which   *)
(* makes those of up to three bytes exact; normalized ones keep their      *)
(* order and stay within full scale, and the middle of an unsigned type is *)
(* the zero of the signed one.                                             *)
ReadsAs(read, number) == Precision * Abs(read - number) <= Abs(number)

SamplesReadBack ==
  Answers("samples") =>
    \A ch \in DOMAIN request.channels :
      LET type   == request.channels[ch]
          frames == DOMAIN request.frames
          wave   == answer[1].normalized[ch]
          middle == IF type.signed THEN 0 ELSE Size(type.bytes) \div 2
          number(frame) == request.frames[frame][ch]
      IN  /\ DOMAIN answer[1].physical[ch] = frames
          /\ \A frame \in frames : ReadsAs(answer[1].physical[ch][frame], number(frame))
          /\ DOMAIN wave = frames
          /\ \A frame \in frames :
               /\ wave[frame] \in -FullScale(type) .. FullScale(type)
               /\ wave[frame] = number(frame) - middle \/ number(frame) = Lowest(type)
          /\ \A f, g \in frames :
               number(f) < number(g) => wave[f] < wave[g] \/ number(f) = Lowest(type)

(* RFC 4180: what a reader makes of a row, character by character.         *)
Ended(mode, r) == [mode |-> mode, field |-> <<>>, fields |-> Append(r.fields, r.field)]

Taken(mode, r, c) == [r EXCEPT !.mode = mode, !.field = Append(@, c)]

Reads(r, c) ==
  CASE r.mode = "quoted" /\ c # quote -> Taken("quoted", r, c)
    [] r.mode = "quoted" /\ c = quote -> [r EXCEPT !.mode = "closed"]
    [] r.mode = "closed" /\ c = quote -> Taken("quoted", r, c)
    [] r.mode = "start" /\ c = quote  -> [r EXCEPT !.mode = "quoted"]
    [] r.mode \in {"start", "plain"} /\ c = "x"         -> Taken("plain", r, c)
    [] r.mode \in {"start", "plain", "closed"} /\ c = "," -> Ended("start", r)
    [] r.mode \in {"start", "plain", "closed"} /\ c = "cr" -> Ended("cr", r)
    [] r.mode = "cr" /\ c = "lf" -> [r EXCEPT !.mode = "end"]
    [] OTHER -> [r EXCEPT !.mode = "bad"]

ReadBack(row) ==
  LET after[k \in 0 .. Len(row)] ==
        IF k = 0 THEN [mode |-> "start", field |-> <<>>, fields |-> <<>>]
        ELSE Reads(after[k - 1], row[k])
  IN  after[Len(row)]

(* Whatever the fields hold, a reader of the exported row gets them back.  *)
CsvReadsBack ==
  Answers("csv") => LET read == ReadBack(answer[1])
                    IN  read.mode = "end" /\ read.fields = request.fields

(* The pictures of the GPU, of its fallback and of the definition agree,   *)
(* once they have colours.                                                 *)
PicturesAgree == FallbackLooksAlike /\ ChainsKeepUpright /\ BlurIsTheMean

(* What is written is what is read: rows, settings, samples.               *)
DataReadsBack == CsvReadsBack /\ SettingsSurvive /\ SamplesReadBack

(* What is reached from a node in one step or more, and the nodes that     *)
(* reach themselves.                                                       *)
ReachedFrom(edges, nodes, v) ==
  LET After(S) == {e[2] : e \in {e \in edges : e[1] \in S}}
      within[k \in 0 .. Cardinality(nodes)] == IF k = 0 THEN {} ELSE After({v} \cup within[k - 1])
  IN  within[Cardinality(nodes)]

Cyclic(edges, nodes) == {v \in nodes : v \in ReachedFrom(edges, nodes, v)}

(* Every requirement is in one layer, those it depends on are in later     *)
(* ones, and without a cycle that holds of all; with one, the last layer   *)
(* is what the cycles reach, and hasCycle says so.                         *)
LayersRespectEdges ==
  Answers("graph") =>
    LET nodes  == DOMAIN request.reqs
        edges  == DepEdges(request.reqs)
        layers == answer[1].layers
        stuck  == {v \in nodes : \E u \in Cyclic(edges, nodes) : v \in ReachedFrom(edges, nodes, u)}
        LayerOf(v) == CHOOSE l \in DOMAIN layers : v \in layers[l]
    IN  /\ answer[1].hasCycle <=> stuck # {}
        /\ \A v \in nodes : Cardinality({l \in DOMAIN layers : v \in layers[l]}) = 1
        /\ stuck # {} => Last(layers) = stuck
        /\ \A e \in edges : e[2] \notin stuck => LayerOf(e[1]) < LayerOf(e[2])

(* Nodes of one layer are a row apart.  Nodes of two layers, each drawn    *)
(* around its centre, lie side by side, unless the one on the right is     *)
(* wider than the one on the left by more than both paddings: the step     *)
(* from a layer to the next is that of the widest node on the left.        *)
Covers(left, right) ==
  /\ right > left + 2 * kLayerPadding
  /\ left + right > 2 * kHorizontalSpacing

Beside(at, widths, v, w) ==
  /\ at[v].x < at[w].x
  /\ \/ 2 * (at[w].x - at[v].x) >= widths[v] + widths[w]
     \/ Covers(widths[v], widths[w])

NodesKeepApart ==
  Answers("places") =>
    LET at == answer[1]
    IN  \A v, w \in DOMAIN at : v # w =>
          \/ at[v].x = at[w].x /\ at[v].y - at[w].y \notin -10 .. 10
          \/ Beside(at, request.widths, v, w)
          \/ Beside(at, request.widths, w, v)

(* The graph is drawn from left to right, and a node over another only     *)
(* where it is much wider than one to its left.                            *)
DrawingIsSound == LayersRespectEdges /\ NodesKeepApart
=============================================================================
