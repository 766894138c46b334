------------------------ MODULE SampledStreamProofs ------------------------
(***************************************************************************)
(* Theorems about SampledStream, for all devices, formats and bounds, with *)
(* any number of cards.                                                    *)
(*                                                                         *)
(* What is drawn is decoded as it was recorded because every block on its  *)
(* way has one format, the one that it states: the source records in the   *)
(* format of the worker, which labels what it drains, and a change of      *)
(* format empties the buffer.  In the display it is the generation that    *)
(* ties a block to the ring: what has the ring's generation is in it.      *)
(***************************************************************************)
EXTENDS SampledStream, TLAPS

(* The types of the two ends of the stream.                                *)
CaptureTypes ==
  /\ m_DevInfo \in Device \cup {NoDevice} /\ m_device \in Device \cup {NoDevice}
  /\ m_FormatAudio \in Format /\ m_format \in Format
  /\ playButton \in BOOLEAN /\ m_running \in BOOLEAN /\ m_connected \in BOOLEAN
  /\ writing \in BOOLEAN
  /\ m_connectionCount \in 0 .. 1 /\ written \in Nat
  /\ m_lastData \in Block \cup {NoData}
  /\ phase \in {"alive", "quit", "gone"}
  /\ calls \in Seq(Call) /\ signals \in Seq(Block)
  /\ m_audioSource \in Format \cup {NoSource}
  /\ m_buffer \in Seq(Format)

DisplayTypes ==
  /\ inputData \in Block \cup {NoData} /\ m_dataGeneration \in Nat
  /\ m_ringSeconds \in Seconds
  /\ m_dataDirty \in BOOLEAN /\ m_computeInFlight \in BOOLEAN
  /\ m_cards \in Seq(Card)
  /\ m_ring \in [blocks : Seq(Entry), signature : Format \cup {NoData}, last : Nat]
  /\ task \in Task \cup {NoTask}
  /\ results \in Seq(Seq(Series))
  /\ display \in {"alive", "closing", "gone"}

(* A block whose bytes were all recorded in the format that it states.     *)
Pure(b) == b.raw = {b.format}

(* The source records in the format of the worker, as did everything that  *)
(* is in its buffer.                                                       *)
Recording ==
  /\ phase # "gone" => (m_running <=> m_audioSource # NoSource)
  /\ m_audioSource # NoSource => m_audioSource = m_format
  /\ \A i \in DOMAIN m_buffer : m_buffer[i] = m_format

(* The identity of the block that the source delivers to a new edge, and   *)
(* the blocks on their way to it, none of which is older.                  *)
Newest == IF m_lastData = NoData THEN 0 ELSE m_lastData.id

Labelled ==
  /\ \A i \in DOMAIN signals :
       Pure(signals[i]) /\ Newest <= signals[i].id /\ signals[i].id <= written
  /\ \A i, j \in DOMAIN signals : i <= j => signals[i].id <= signals[j].id
  /\ m_lastData # NoData => Pure(m_lastData)
  /\ Newest <= written

(* The last start or stop in the queue is what the button says.            *)
Button == {"startCapture", "stopCapture"}

ButtonFollowed ==
  phase = "alive" =>
    /\ Pending(Button) = {} => (m_running => playButton)
    /\ Pending(Button) # {} =>
         \E i \in Pending(Button) : /\ \A j \in Pending(Button) : j <= i
                                    /\ (calls[i].name = "startCapture") <=> playButton

CaptureInv ==
  /\ CaptureTypes /\ Recording /\ Labelled
  /\ NothingStranded /\ GateFollowsEdges /\ ButtonFollowed

(* The ring by its generations and by the order of its blocks alone.       *)
RingOrdered ==
  LET b == m_ring.blocks
  IN  /\ \A i, j \in DOMAIN b :
           i < j => b[i].generation < b[j].generation /\ b[i].data.id <= b[j].data.id
      /\ b # <<>> => b[Len(b)].generation = m_ring.last
      /\ m_ring.last <= m_dataGeneration

(* The blocks of the ring have one format, the one of its signature, and   *)
(* come in the order in which they were made.                              *)
RingIsPure ==
  LET b == m_ring.blocks
  IN  /\ \A k \in DOMAIN b : Pure(b[k].data) /\ b[k].data.format = m_ring.signature
      /\ b = <<>> => m_ring.last = 0

(* A series that was decoded as it was recorded, or none.                  *)
Sound(s) == s # NoSeries => s.recordedIn = {s.decodedAs}

SeriesAreSound ==
  /\ \A i \in DOMAIN m_cards : Sound(m_cards[i].series)
  /\ \A k \in DOMAIN results : \A i \in DOMAIN results[k] : Sound(results[k][i])
  /\ task # NoTask /\ task.stage = "computed" =>
       \A i \in DOMAIN task.series : Sound(task.series[i])

(* What the generation of a task, or of the block in the display, says of  *)
(* the ring: the ring holds that block, or has none that is as new.        *)
Known(data, generation) ==
  /\ Pure(data) /\ generation > 0
  /\ m_ring.last <= generation
  /\ generation = m_ring.last => m_ring.signature = data.format
  /\ \A k \in DOMAIN m_ring.blocks : m_ring.blocks[k].data.id <= data.id

TaskIsKnown ==
  /\ inputData # NoData => Known(inputData, m_dataGeneration)
  /\ task # NoTask =>
       /\ task.generation <= m_dataGeneration
       /\ Known(task.data, task.generation)
       /\ inputData # NoData => task.data.id <= inputData.id
       /\ inputData # NoData /\ task.generation = m_dataGeneration => task.data = inputData

DisplayInv ==
  /\ DisplayTypes /\ RingOrdered /\ RingIsPure /\ SeriesAreSound
  /\ TaskIsKnown /\ OnePass /\ TaskOutlived

(* Every block on its way is new: its identity is taken only when bytes    *)
(* were written since the block before.                                    *)
Fresh ==
  /\ \A i \in DOMAIN signals : Newest < signals[i].id
  /\ \A i, j \in DOMAIN signals : i < j => signals[i].id < signals[j].id
  /\ m_buffer # <<>> => /\ Newest < written
                        /\ \A i \in DOMAIN signals : signals[i].id < written

(* The same block with a later generation came over a later edge.          *)
Apart(d1, g1, d2, g2) ==
  g1 < g2 /\ d1.id = d2.id => \E g \in wired : g1 < g /\ g <= g2

RingApart(data, generation) ==
  \A i \in DOMAIN m_ring.blocks :
    Apart(m_ring.blocks[i].data, m_ring.blocks[i].generation, data, generation)

BroughtAgain ==
  /\ \A i, j \in DOMAIN m_ring.blocks :
       i < j => Apart(m_ring.blocks[i].data, m_ring.blocks[i].generation,
                      m_ring.blocks[j].data, m_ring.blocks[j].generation)
  /\ task # NoTask => RingApart(task.data, task.generation)
  /\ inputData # NoData =>
       /\ RingApart(inputData, m_dataGeneration)
       /\ task # NoTask => Apart(task.data, task.generation, inputData, m_dataGeneration)

BlocksInv == Fresh /\ BroughtAgain /\ wired \subseteq Nat

(* The display has no block that is newer than the source's.               *)
Seen(n) ==
  /\ inputData # NoData => inputData.id <= n
  /\ task # NoTask => task.data.id <= n
  /\ \A k \in DOMAIN m_ring.blocks : m_ring.blocks[k].data.id <= n

NoneIsNewer == phase # "gone" => Seen(Newest)

StreamInv == CaptureInv /\ DisplayInv /\ NoneIsNewer /\ written <= MaxWrites
-----------------------------------------------------------------------------
(* Queues.                                                                 *)

LEMMA Appended ==
  ASSUME NEW S, NEW s \in Seq(S), NEW e \in S
  PROVE  /\ Append(s, e) \in Seq(S) /\ Len(Append(s, e)) = Len(s) + 1
         /\ DOMAIN Append(s, e) = 1 .. Len(s) + 1 /\ DOMAIN s = 1 .. Len(s) /\ Len(s) \in Nat
         /\ \A i \in 1 .. Len(s) : Append(s, e)[i] = s[i]
         /\ Append(s, e)[Len(s) + 1] = e
  OBVIOUS

LEMMA Taken ==
  ASSUME NEW S, NEW s \in Seq(S), s # <<>>
  PROVE  /\ Tail(s) \in Seq(S) /\ Head(s) = s[1] /\ Head(s) \in S
         /\ Len(s) \in Nat \ {0} /\ DOMAIN s = 1 .. Len(s) /\ DOMAIN Tail(s) = 1 .. Len(s) - 1
         /\ \A i \in 1 .. Len(s) - 1 : Tail(s)[i] = s[i + 1]
  OBVIOUS

(* A function from 1 .. n is a sequence.                                   *)
LEMMA Listed ==
  ASSUME NEW S, NEW n \in Nat, NEW f \in [1 .. n -> S]
  PROVE  f \in Seq(S) /\ Len(f) = n /\ DOMAIN f = 1 .. n
  OBVIOUS

(* What is the last call of some names once a call is added or taken.      *)
LEMMA PendingAppended ==
  ASSUME calls \in Seq(Call), NEW c \in Call, calls' = Append(calls, c), NEW N
  PROVE  /\ calls' \in Seq(Call)
         /\ \A i \in Pending(N) : i \in Pending(N)' /\ calls'[i] = calls[i]
         /\ c.name \notin N => Pending(N)' = Pending(N)
         /\ c.name \in N =>
              \E i \in Pending(N)' : calls'[i] = c /\ \A j \in Pending(N)' : j <= i
  <1>1. /\ calls' \in Seq(Call) /\ Len(calls) \in Nat
        /\ DOMAIN calls' = 1 .. Len(calls) + 1 /\ DOMAIN calls = 1 .. Len(calls)
        /\ \A i \in 1 .. Len(calls) : calls'[i] = calls[i]
        /\ calls'[Len(calls) + 1] = c
    BY Appended
  <1>2. \A i \in Pending(N) : i \in Pending(N)' /\ calls'[i] = calls[i]
    BY <1>1 DEF Pending
  <1>3. c.name \notin N => Pending(N)' = Pending(N)
    BY <1>1 DEF Pending
  <1>4. ASSUME c.name \in N
        PROVE  \E i \in Pending(N)' : calls'[i] = c /\ \A j \in Pending(N)' : j <= i
    <2>1. Len(calls) + 1 \in Pending(N)' /\ \A j \in Pending(N)' : j <= Len(calls) + 1
      BY <1>1, <1>4 DEF Pending
    <2> QED BY <1>1, <2>1
  <1> QED BY <1>1, <1>2, <1>3, <1>4

LEMMA PendingTaken ==
  ASSUME calls \in Seq(Call), calls # <<>>, calls' = Tail(calls), NEW N
  PROVE  /\ calls' \in Seq(Call) /\ Head(calls) \in Call
         /\ Pending(N) = {} => Pending(N)' = {}
         /\ Head(calls).name \notin N /\ Pending(N) # {} => Pending(N)' # {}
         /\ \A i \in Pending(N) : (\A j \in Pending(N) : j <= i) =>
              \/ i = 1 /\ Pending(N)' = {} /\ calls[i] = Head(calls)
              \/ /\ i - 1 \in Pending(N)' /\ calls'[i - 1] = calls[i]
                 /\ \A j \in Pending(N)' : j <= i - 1
  <1>1. /\ calls' \in Seq(Call) /\ Head(calls) = calls[1] /\ Head(calls) \in Call
        /\ Len(calls) \in Nat \ {0} /\ DOMAIN calls = 1 .. Len(calls)
        /\ DOMAIN calls' = 1 .. Len(calls) - 1
        /\ \A i \in 1 .. Len(calls) - 1 : calls'[i] = calls[i + 1]
    BY Taken
  <1>2. \A i : i \in Pending(N)' <=> i \in 1 .. Len(calls) - 1 /\ i + 1 \in Pending(N)
    BY <1>1 DEF Pending
  <1>3. \A i \in Pending(N) : i \in 1 .. Len(calls)
    BY <1>1 DEF Pending
  <1>4. Pending(N) = {} => Pending(N)' = {}
    BY <1>2
  <1>5. ASSUME Head(calls).name \notin N, NEW i \in Pending(N)
        PROVE  i - 1 \in Pending(N)'
    <2>1. i # 1 /\ i \in 1 .. Len(calls)
      BY <1>1, <1>3, <1>5 DEF Pending
    <2>2. i - 1 \in 1 .. Len(calls) - 1 /\ (i - 1) + 1 = i
      BY <1>1, <2>1
    <2> QED BY <1>2, <1>5, <2>2
  <1>6. ASSUME NEW i \in Pending(N), \A j \in Pending(N) : j <= i
        PROVE  \/ i = 1 /\ Pending(N)' = {} /\ calls[i] = Head(calls)
               \/ /\ i - 1 \in Pending(N)' /\ calls'[i - 1] = calls[i]
                  /\ \A j \in Pending(N)' : j <= i - 1
    <2>1. i \in 1 .. Len(calls)
      BY <1>3
    <2>2. \A j \in Pending(N)' : j \in 1 .. Len(calls) - 1 /\ j + 1 <= i
      BY <1>2, <1>6
    <2>3. CASE i = 1
      <3>1. Pending(N)' = {}
        BY <1>1, <2>2, <2>3
      <3> QED BY <1>1, <2>3, <3>1
    <2>4. CASE i # 1
      <3>1. i - 1 \in 1 .. Len(calls) - 1 /\ (i - 1) + 1 = i
        BY <1>1, <2>1, <2>4
      <3>2. i - 1 \in Pending(N)' /\ calls'[i - 1] = calls[i]
        BY <1>1, <1>2, <3>1
      <3>3. \A j \in Pending(N)' : j <= i - 1
        BY <1>1, <2>1, <2>2
      <3> QED BY <3>2, <3>3
    <2> QED BY <2>3, <2>4
  <1> QED BY <1>1, <1>4, <1>5, <1>6

LEMMA CallKinds ==
  ASSUME NEW c \in Call
  PROVE  /\ c.name = "setCaptureEnabled" => c.enabled \in BOOLEAN
         /\ c.name = "updateDevice" => c.device \in Device /\ c.format \in Format
  BY DEF Call

(* Requests of the GUI thread, which leave the worker alone.               *)
LEMMA AskedStep ==
  ASSUME CaptureInv, NEW c \in Call, calls' = Append(calls, c), phase = "alive",
         UNCHANGED <<m_lastData, phase, signals, workerVars, m_buffer, writing, written>>,
         m_DevInfo' \in Device \cup {NoDevice}, m_FormatAudio' \in Format,
         playButton' \in BOOLEAN, m_connectionCount' \in 0 .. 1,
         \/ c.name \in Button /\ ((c.name = "startCapture") <=> playButton')
            /\ m_connectionCount' = m_connectionCount
         \/ c.name = "updateDevice" /\ playButton' = playButton
            /\ m_connectionCount' = m_connectionCount
         \/ c.name = "setCaptureEnabled" /\ playButton' = playButton
            /\ (c.enabled <=> m_connectionCount' = 1)
  PROVE  CaptureInv'
  <1>1. calls \in Seq(Call)
    BY DEF CaptureInv, CaptureTypes
  <1>2. CaptureTypes'
    BY <1>1, PendingAppended DEF CaptureInv, CaptureTypes, workerVars
  <1>3. Recording' /\ Labelled'
    BY DEF CaptureInv, Recording, Labelled, Newest, workerVars
  <1>4. NothingStranded'
    <2>1. \A i \in Pending({"onReadyRead"}) : i \in Pending({"onReadyRead"})'
      BY <1>1, PendingAppended
    <2> QED BY <2>1 DEF CaptureInv, NothingStranded
  <1>5. GateFollowsEdges'
    <2> DEFINE N == {"setCaptureEnabled"}
    <2>1. CASE c.name = "setCaptureEnabled"
      <3>1. \E i \in Pending(N)' : calls'[i] = c /\ \A j \in Pending(N)' : j <= i
        BY <1>1, <2>1, PendingAppended
      <3>2. c.enabled = Edge'
        BY <2>1, CallKinds DEF Edge, Button
      <3> QED BY <3>1, <3>2 DEF GateFollowsEdges
    <2>2. CASE c.name # "setCaptureEnabled"
      <3>1. Pending(N)' = Pending(N) /\ \A i \in Pending(N) : calls'[i] = calls[i]
        <4>1. c.name \notin N
          BY <2>2
        <4> HIDE DEF N
        <4> QED BY <1>1, <4>1, PendingAppended
      <3>2. Edge' = Edge /\ m_connected' = m_connected /\ phase' = phase
        BY <2>2 DEF Edge, workerVars
      <3> QED BY <3>1, <3>2 DEF GateFollowsEdges, CaptureInv
    <2> QED BY <2>1, <2>2
  <1>6. ButtonFollowed'
    <2>1. CASE c.name \in Button
      <3>1. \E i \in Pending(Button)' : calls'[i] = c /\ \A j \in Pending(Button)' : j <= i
        BY <1>1, <2>1, PendingAppended
      <3>2. (c.name = "startCapture") <=> playButton'
        BY <2>1 DEF Button
      <3> QED BY <3>1, <3>2 DEF ButtonFollowed
    <2>2. CASE c.name \notin Button
      <3>1. Pending(Button)' = Pending(Button) /\ \A i \in Pending(Button) : calls'[i] = calls[i]
        BY <1>1, <2>2, PendingAppended
      <3>2. playButton' = playButton /\ m_running' = m_running /\ phase' = phase
        BY <2>2 DEF workerVars
      <3> QED BY <3>1, <3>2 DEF ButtonFollowed, CaptureInv
    <2> QED BY <2>1, <2>2
  <1> QED BY <1>2, <1>3, <1>4, <1>5, <1>6 DEF CaptureInv

LEMMA RequestStep ==
  ASSUME CaptureInv,
         onUiStart \/ Configure \/ outputConnectionCreated \/ outputConnectionDeleted
  PROVE  CaptureInv'
  <1>1. CaptureTypes
    BY DEF CaptureInv
  <1>2. CASE onUiStart
    <2> DEFINE c == Plain(IF playButton' THEN "startCapture" ELSE "stopCapture")
    <2>1. c \in Call /\ c.name \in Button /\ ((c.name = "startCapture") <=> playButton')
      BY DEF Call, Plain, Button
    <2>2. /\ calls' = Append(calls, c) /\ phase = "alive" /\ playButton' \in BOOLEAN
          /\ UNCHANGED <<m_DevInfo, m_FormatAudio, m_connectionCount, m_lastData,
                         phase, signals, workerVars, m_buffer, writing, written>>
      BY <1>1, <1>2 DEF onUiStart, Invoke, CaptureTypes
    <2> HIDE DEF c
    <2> QED BY <1>1, <2>1, <2>2, AskedStep DEF CaptureTypes
  <1>3. CASE Configure
    <2> DEFINE c == [name |-> "updateDevice", device |-> m_DevInfo', format |-> m_FormatAudio']
    <2>1. /\ calls' = Append(calls, c) /\ phase = "alive"
          /\ UNCHANGED <<playButton, m_connectionCount, m_lastData,
                         phase, signals, workerVars, m_buffer, writing, written>>
      BY <1>3 DEF Configure, ABEInitAudioParams, FieldChanged, ChangeAudioConnection, Invoke
    <2>2. m_DevInfo' \in Device /\ m_FormatAudio' \in Format
      <3>1. ASSUME NEW device \in Device, ABEInitAudioParams(device)
            PROVE  m_DevInfo' \in Device /\ m_FormatAudio' \in Format
        <4>1. m_DevInfo' = device /\ m_FormatAudio' = Adapted(device, m_FormatAudio)
          BY <3>1 DEF ABEInitAudioParams
        <4>2. ASSUME NEW fl \in Field
              PROVE  Offered[device][fl] \in Seq(Value) /\ m_FormatAudio[fl] \in Value
          BY <1>1, CaptureAssumption DEF CaptureTypes, Format
        <4>3. ASSUME NEW fl \in Field, Offered[device][fl] # <<>>
              PROVE  Head(Offered[device][fl]) \in Value
          BY <4>2, <4>3
        <4>4. Adapted(device, m_FormatAudio) \in Format
          BY <4>2, <4>3 DEF Adapted, Format
        <4> QED BY <4>1, <4>4
      <3>2. ASSUME NEW fl \in Field, NEW value \in Value, FieldChanged(fl, value)
            PROVE  m_DevInfo' \in Device /\ m_FormatAudio' \in Format
        <4>1. m_DevInfo \in Device \cup {NoDevice} /\ m_FormatAudio \in [Field -> Value]
          BY <1>1 DEF CaptureTypes, Format
        <4> QED BY <3>2, <4>1 DEF FieldChanged, Format
      <3> QED BY <1>3, <3>1, <3>2 DEF Configure
    <2>3. c \in Call /\ c.name = "updateDevice"
      BY <2>2 DEF Call
    <2> HIDE DEF c
    <2> QED BY <1>1, <2>1, <2>2, <2>3, AskedStep DEF CaptureTypes
  <1>4. CASE outputConnectionCreated \/ outputConnectionDeleted
    <2> DEFINE n == m_connectionCount'
               c == [name |-> "setCaptureEnabled", enabled |-> n > 0]
    <2>1. n \in 0 .. 1
      BY <1>1, <1>4 DEF outputConnectionCreated, outputConnectionDeleted, CaptureTypes
    <2>2. /\ calls' = Append(calls, c) /\ phase = "alive"
          /\ UNCHANGED <<m_DevInfo, m_FormatAudio, playButton, m_lastData,
                         phase, signals, workerVars, m_buffer, writing, written>>
      BY <1>4 DEF outputConnectionCreated, outputConnectionDeleted, setCaptureEnabled, Invoke
    <2>3. n > 0 <=> n = 1
      BY <2>1
    <2>4. (n > 0) \in BOOLEAN
      BY <2>1
    <2>5. c \in Call /\ c.name = "setCaptureEnabled" /\ (c.enabled <=> n = 1)
      BY <2>3, <2>4 DEF Call
    <2> HIDE DEF c
    <2> QED BY <1>1, <2>1, <2>2, <2>5, AskedStep DEF CaptureTypes
  <1> QED BY <1>2, <1>3, <1>4

(* The worker takes a call.  What it records in, and which requests of the *)
(* GUI thread are left, is all that the invariant asks of it.              *)
LEMMA TakenStep ==
  ASSUME CaptureInv, phase # "gone", calls # <<>>, calls' = Tail(calls),
         UNCHANGED <<modelVars, m_lastData, phase, writing, written>>,
         m_format' \in Format, m_device' \in Device \cup {NoDevice}, m_running' \in BOOLEAN,
         m_connected' \in BOOLEAN, m_audioSource' \in Format \cup {NoSource},
         m_buffer' \in Seq(Format), signals' \in Seq(Block), Recording', Labelled',
         Head(calls).name = "onReadyRead" => m_buffer' = <<>>,
         m_buffer' # <<>> => m_buffer # <<>>,
         m_connected' = IF Head(calls).name = "setCaptureEnabled" THEN Head(calls).enabled
                        ELSE m_connected,
         Head(calls).name = "stopCapture" => ~m_running',
         m_running' => m_running \/ Head(calls).name = "startCapture"
  PROVE  CaptureInv'
  <1>1. calls \in Seq(Call) /\ Head(calls) \in Call /\ calls' \in Seq(Call)
    BY PendingTaken DEF CaptureInv, CaptureTypes
  <1>2. CaptureTypes'
    BY <1>1 DEF CaptureInv, CaptureTypes, modelVars
  <1>3. NothingStranded'
    <2>1. CASE Head(calls).name = "onReadyRead"
      BY <2>1 DEF NothingStranded
    <2>2. CASE Head(calls).name # "onReadyRead"
      <3>1. Pending({"onReadyRead"}) # {} => Pending({"onReadyRead"})' # {}
        BY <1>1, <2>2, PendingTaken
      <3> QED BY <3>1 DEF CaptureInv, NothingStranded
    <2> QED BY <2>1, <2>2
  <1>4. GateFollowsEdges'
    <2> DEFINE N == {"setCaptureEnabled"}
    <2>1. Edge' = Edge
      BY DEF Edge, modelVars
    <2>2. CASE Pending(N) = {}
      <3>1. Pending(N)' = {}
        BY <1>1, <2>2, PendingTaken
      <3>2. Head(calls).name # "setCaptureEnabled"
        BY <1>1, <2>2, Taken DEF Pending
      <3> QED BY <2>1, <2>2, <3>1, <3>2 DEF CaptureInv, GateFollowsEdges
    <2>3. ASSUME NEW i \in Pending(N), \A j \in Pending(N) : j <= i, calls[i].enabled = Edge
          PROVE  GateFollowsEdges'
      <3>1. CASE i = 1 /\ Pending(N)' = {} /\ calls[i] = Head(calls)
        <4>1. m_connected' = Edge
          BY <2>3, <3>1 DEF Pending
        <4> QED BY <2>1, <3>1, <4>1 DEF GateFollowsEdges
      <3>2. CASE /\ i - 1 \in Pending(N)' /\ calls'[i - 1] = calls[i]
                 /\ \A j \in Pending(N)' : j <= i - 1
        BY <2>1, <2>3, <3>2 DEF GateFollowsEdges
      <3> QED BY <1>1, <2>3, <3>1, <3>2, PendingTaken
    <2>4. CASE phase # "alive"
      BY <2>4 DEF GateFollowsEdges
    <2> QED BY <2>2, <2>3, <2>4 DEF CaptureInv, GateFollowsEdges
  <1>5. ButtonFollowed'
    <2>1. playButton' = playButton
      BY DEF modelVars
    <2>2. CASE Pending(Button) = {}
      <3>1. Pending(Button)' = {}
        BY <1>1, <2>2, PendingTaken
      <3>2. Head(calls).name \notin Button
        BY <1>1, <2>2, Taken DEF Pending
      <3> QED BY <2>1, <2>2, <3>1, <3>2 DEF CaptureInv, ButtonFollowed, Button
    <2>3. ASSUME NEW i \in Pending(Button), \A j \in Pending(Button) : j <= i,
                 (calls[i].name = "startCapture") <=> playButton
          PROVE  ButtonFollowed'
      <3>1. CASE i = 1 /\ Pending(Button)' = {} /\ calls[i] = Head(calls)
        <4>1. m_running' => playButton
          BY <2>3, <3>1 DEF Pending, Button
        <4> QED BY <2>1, <3>1, <4>1 DEF ButtonFollowed
      <3>2. CASE /\ i - 1 \in Pending(Button)' /\ calls'[i - 1] = calls[i]
                 /\ \A j \in Pending(Button)' : j <= i - 1
        BY <2>1, <2>3, <3>2 DEF ButtonFollowed
      <3> QED BY <1>1, <2>3, <3>1, <3>2, PendingTaken
    <2>4. CASE phase # "alive"
      BY <2>4 DEF ButtonFollowed
    <2> QED BY <2>2, <2>3, <2>4 DEF CaptureInv, ButtonFollowed
  <1> QED BY <1>2, <1>3, <1>4, <1>5 DEF CaptureInv

(* A capture that starts records in the format of the worker.              *)
LEMMA Started ==
  ASSUME CaptureTypes, NEW device \in Device \cup {NoDevice}, NEW format \in Format,
         Start(device, format)
  PROVE  /\ m_format' \in Format /\ m_running' \in BOOLEAN
         /\ m_audioSource' \in Format \cup {NoSource} /\ m_buffer' \in Seq(Format)
         /\ m_buffer' # <<>> => m_buffer # <<>>
         /\ device # NoDevice =>
              /\ m_buffer' = <<>> /\ (m_running' <=> m_audioSource' # NoSource)
              /\ m_audioSource' # NoSource => m_audioSource' = m_format'
         /\ device = NoDevice =>
              m_format' = format /\ UNCHANGED <<m_audioSource, m_running, m_buffer>>
  <1>1. CASE device = NoDevice
    BY <1>1 DEF Start, CaptureTypes
  <1>2. CASE device # NoDevice
    <2>1. Usable(device, format) \in Format
      BY CaptureAssumption DEF Usable
    <2>2. /\ m_format' = Usable(device, format) /\ m_buffer' = <<>>
          /\ \/ m_audioSource' = m_format' /\ m_running' = TRUE
             \/ m_audioSource' = NoSource  /\ m_running' = FALSE
      BY <1>2 DEF Start
    <2>3. m_format' \in Format /\ m_buffer' \in Seq(Format)
      BY <2>1, <2>2
    <2>4. CASE m_audioSource' = m_format' /\ m_running' = TRUE
      <3>1. m_audioSource' # NoSource
        BY <2>3, <2>4, CaptureAssumption
      <3> QED BY <1>2, <2>2, <2>3, <2>4, <3>1
    <2>5. CASE m_audioSource' = NoSource /\ m_running' = FALSE
      BY <1>2, <2>2, <2>3, <2>5
    <2> QED BY <2>2, <2>4, <2>5
  <1> QED BY <1>1, <1>2

LEMMA LabelsKept ==
  ASSUME Labelled, UNCHANGED <<m_lastData, signals, written>>
  PROVE  Labelled'
  BY DEF Labelled, Newest

LEMMA StartStopStep ==
  ASSUME CaptureInv, startCapture \/ stopCapture \/ SetCaptureEnabled \/ updateDevice
  PROVE  CaptureInv'
  <1>1. /\ CaptureTypes /\ Recording /\ Labelled
        /\ calls # <<>> /\ calls' = Tail(calls) /\ phase # "gone"
        /\ UNCHANGED <<modelVars, m_lastData, phase, signals, writing, written>>
        /\ Head(calls) \in Call
    BY Taken DEF CaptureInv, CaptureTypes, startCapture, stopCapture, SetCaptureEnabled,
                 updateDevice, Handles
  <1>2. Labelled' /\ signals' \in Seq(Block)
    BY <1>1, LabelsKept DEF CaptureTypes
  <1>3. CASE startCapture
    <2>1. Head(calls).name = "startCapture" /\ UNCHANGED <<m_connected, m_device>>
      BY <1>3 DEF startCapture, Handles
    <2>2. CASE m_running
      <3>1. UNCHANGED <<m_format, m_audioSource, m_running, m_buffer>>
        BY <1>3, <2>2 DEF startCapture
      <3>2. Recording'
        BY <1>1, <3>1 DEF Recording
      <3> QED BY <1>1, <1>2, <2>1, <3>1, <3>2, TakenStep DEF CaptureTypes
    <2>3. CASE ~m_running
      <3>1. Start(m_device, m_format)
        BY <1>3, <2>3 DEF startCapture
      <3>2. Recording'
        <4>1. CASE m_device = NoDevice
          <5>1. m_format' = m_format /\ UNCHANGED <<m_audioSource, m_running, m_buffer>>
            BY <1>1, <3>1, <4>1 DEF Start
          <5> QED BY <1>1, <5>1 DEF Recording
        <4>2. CASE m_device # NoDevice
          <5>1. /\ m_buffer' = <<>> /\ (m_running' <=> m_audioSource' # NoSource)
                /\ m_audioSource' # NoSource => m_audioSource' = m_format'
            BY <1>1, <3>1, <4>2, Started DEF CaptureTypes
          <5> QED BY <5>1 DEF Recording
        <4> QED BY <4>1, <4>2
      <3>3. /\ m_format' \in Format /\ m_running' \in BOOLEAN
            /\ m_audioSource' \in Format \cup {NoSource} /\ m_buffer' \in Seq(Format)
            /\ m_buffer' # <<>> => m_buffer # <<>>
        BY <1>1, <3>1, Started DEF CaptureTypes
      <3> QED BY <1>1, <1>2, <2>1, <3>2, <3>3, TakenStep DEF CaptureTypes
    <2> QED BY <2>2, <2>3
  <1>4. CASE stopCapture
    <2>1. /\ Head(calls).name = "stopCapture" /\ UNCHANGED <<m_connected, m_device, m_format>>
          /\ m_audioSource' = NoSource /\ m_buffer' = <<>> /\ m_running' = FALSE
      BY <1>4 DEF stopCapture, Handles, Stop
    <2>2. Recording' /\ m_buffer' \in Seq(Format)
      BY <2>1 DEF Recording
    <2> QED BY <1>1, <1>2, <2>1, <2>2, TakenStep DEF CaptureTypes
  <1>5. CASE SetCaptureEnabled
    <2>1. /\ Head(calls).name = "setCaptureEnabled" /\ m_connected' = Head(calls).enabled
          /\ UNCHANGED <<m_running, m_device, m_format, m_audioSource, m_buffer>>
      BY <1>5 DEF SetCaptureEnabled, Handles
    <2>2. Recording' /\ m_connected' \in BOOLEAN
      BY <1>1, <2>1, CallKinds DEF Recording
    <2> QED BY <1>1, <1>2, <2>1, <2>2, TakenStep DEF CaptureTypes
  <1>6. CASE updateDevice
    <2> DEFINE format == Head(calls).format
    <2>1. /\ Head(calls).name = "updateDevice" /\ m_device' = Head(calls).device
          /\ UNCHANGED m_connected
      BY <1>6 DEF updateDevice, Handles
    <2>2. format \in Format /\ m_device' \in Device /\ m_device' # NoDevice
      BY <1>1, <2>1, CallKinds, CaptureAssumption
    <2> HIDE DEF format
    <2>3. CASE m_running /\ Start(m_device', format)
      <3>1. /\ m_format' \in Format /\ m_running' \in BOOLEAN
            /\ m_audioSource' \in Format \cup {NoSource} /\ m_buffer' \in Seq(Format)
            /\ m_buffer' = <<>> /\ (m_running' <=> m_audioSource' # NoSource)
            /\ m_audioSource' # NoSource => m_audioSource' = m_format'
        <4> DEFINE device == m_device'
        <4>1. device \in Device \cup {NoDevice} /\ device # NoDevice /\ Start(device, format)
          BY <2>2, <2>3
        <4> HIDE DEF device
        <4> QED BY <1>1, <2>2, <4>1, Started
      <3>2. Recording'
        BY <3>1 DEF Recording
      <3> QED BY <1>1, <1>2, <2>1, <2>2, <2>3, <3>1, <3>2, TakenStep DEF CaptureTypes
    <2>4. CASE ~m_running /\ Stop /\ m_format' = format
      <3>1. m_audioSource' = NoSource /\ m_buffer' = <<>> /\ m_running' = FALSE
        BY <2>4 DEF Stop
      <3>2. Recording' /\ m_buffer' \in Seq(Format)
        BY <3>1 DEF Recording
      <3> QED BY <1>1, <1>2, <2>1, <2>2, <2>4, <3>1, <3>2, TakenStep DEF CaptureTypes
    <2> QED BY <1>6, <2>3, <2>4 DEF updateDevice, format
  <1> QED BY <1>3, <1>4, <1>5, <1>6

(* What the worker drains it labels with the format it was recorded in.    *)
LEMMA DrainStep ==
  ASSUME CaptureInv, onReadyRead
  PROVE  CaptureInv'
  <1>1. /\ CaptureTypes /\ Recording /\ Labelled
        /\ calls # <<>> /\ calls' = Tail(calls) /\ phase # "gone"
        /\ UNCHANGED <<modelVars, m_lastData, phase, workerVars, writing, written>>
        /\ Head(calls).name = "onReadyRead" /\ m_buffer' = <<>>
    BY DEF CaptureInv, onReadyRead, Handles
  <1>2. Recording' /\ m_buffer' \in Seq(Format)
    BY <1>1 DEF Recording, workerVars
  <1>3. Labelled' /\ signals' \in Seq(Block)
    <2>1. CASE UNCHANGED signals
      BY <1>1, <2>1, LabelsKept DEF CaptureTypes
    <2>2. CASE m_buffer # <<>> /\ emitSamplesReady(Range(m_buffer))
      <3> DEFINE b == [id |-> written, raw |-> Range(m_buffer), format |-> m_format]
      <3>1. Range(m_buffer) = {m_format}
        <4>1. DOMAIN m_buffer = 1 .. Len(m_buffer) /\ Len(m_buffer) \in Nat \ {0}
          BY <1>1, <2>2 DEF CaptureTypes
        <4>2. 1 \in DOMAIN m_buffer /\ m_buffer[1] = m_format
          BY <1>1, <4>1 DEF Recording
        <4> QED BY <1>1, <4>2 DEF Recording, Range
      <3>2. b \in Block /\ Pure(b) /\ b.id = written
        BY <1>1, <3>1 DEF Block, Pure, CaptureTypes
      <3>3. signals' = Append(signals, b)
        BY <2>2 DEF emitSamplesReady
      <3> HIDE DEF b
      <3>4. /\ signals' \in Seq(Block) /\ DOMAIN signals' = 1 .. Len(signals) + 1
            /\ DOMAIN signals = 1 .. Len(signals) /\ Len(signals) \in Nat
            /\ \A i \in 1 .. Len(signals) : signals'[i] = signals[i]
            /\ signals'[Len(signals) + 1] = b
        BY <1>1, <3>2, <3>3, Appended DEF CaptureTypes
      <3>5. Newest' = Newest /\ written' = written /\ written \in Nat /\ Newest <= written
        BY <1>1 DEF Newest, Labelled, CaptureTypes
      <3>6. \A i \in DOMAIN signals' :
              Pure(signals'[i]) /\ Newest <= signals'[i].id /\ signals'[i].id <= written
        BY <1>1, <3>2, <3>4, <3>5 DEF Labelled
      <3>7. \A i, j \in DOMAIN signals' : i <= j => signals'[i].id <= signals'[j].id
        <4> TAKE i, j \in DOMAIN signals'
        <4>1. CASE j \in DOMAIN signals /\ i \in DOMAIN signals
          BY <1>1, <3>4, <4>1 DEF Labelled
        <4>2. CASE j \notin DOMAIN signals
          BY <3>2, <3>4, <3>6, <4>2
        <4>3. CASE i \notin DOMAIN signals
          BY <3>2, <3>4, <3>5, <4>3
        <4> QED BY <4>1, <4>2, <4>3
      <3> QED BY <1>1, <3>4, <3>5, <3>6, <3>7 DEF Labelled
    <2> QED BY <2>1, <2>2 DEF onReadyRead
  <1> QED BY <1>1, <1>2, <1>3, TakenStep DEF CaptureTypes, workerVars

LEMMA AudioStep ==
  ASSUME CaptureInv, AudioThread
  PROVE  CaptureInv'
  <1>1. CaptureTypes /\ Recording /\ Labelled
    BY DEF CaptureInv
  <1>2. CASE writeData
    <2>1. /\ m_audioSource \in Format /\ m_audioSource = m_format /\ m_buffer \in Seq(Format)
          /\ m_buffer' = Append(m_buffer, m_audioSource)
          /\ writing' = TRUE /\ written' = written + 1
          /\ UNCHANGED <<modelVars, m_lastData, phase, calls, signals, workerVars>>
      BY <1>1, <1>2 DEF writeData, CaptureTypes, Recording
    <2>2. /\ m_buffer' \in Seq(Format)
          /\ DOMAIN m_buffer' = 1 .. Len(m_buffer) + 1 /\ DOMAIN m_buffer = 1 .. Len(m_buffer)
          /\ \A i \in 1 .. Len(m_buffer) : m_buffer'[i] = m_buffer[i]
          /\ m_buffer'[Len(m_buffer) + 1] = m_format /\ Len(m_buffer) \in Nat
      BY <2>1, Appended
    <2>3. CaptureTypes'
      BY <1>1, <2>1, <2>2 DEF CaptureTypes, modelVars, workerVars
    <2>4. Recording'
      BY <1>1, <2>1, <2>2 DEF Recording, workerVars
    <2>5. Labelled'
      <3>1. Newest \in Nat /\ Newest' = Newest /\ written \in Nat
        BY <1>1, <2>1 DEF Newest, CaptureTypes, Block
      <3>2. \A i \in DOMAIN signals : signals[i].id \in Nat
        <4>1. \A i \in DOMAIN signals : signals[i] \in Block
          BY <1>1 DEF CaptureTypes
        <4> QED BY <4>1 DEF Block
      <3> QED BY <1>1, <2>1, <3>1, <3>2 DEF Labelled
    <2>6. NothingStranded' /\ GateFollowsEdges' /\ ButtonFollowed'
      BY <2>1 DEF CaptureInv, NothingStranded, GateFollowsEdges, ButtonFollowed, Pending, Edge,
                  modelVars, workerVars
    <2> QED BY <2>3, <2>4, <2>5, <2>6 DEF CaptureInv
  <1>3. CASE readyRead
    <2> DEFINE c == Plain("onReadyRead")
    <2>1. /\ writing' = FALSE /\ calls' = Append(calls, c)
          /\ UNCHANGED <<modelVars, m_lastData, phase, signals, workerVars, m_buffer, written>>
      BY <1>3 DEF readyRead
    <2>2. c \in Call /\ c.name = "onReadyRead"
      BY DEF Call, Plain
    <2> HIDE DEF c
    <2>3. calls \in Seq(Call) /\ calls' \in Seq(Call)
      BY <1>1, <2>1, <2>2, PendingAppended DEF CaptureTypes
    <2>4. CaptureTypes' /\ Recording' /\ Labelled'
      BY <1>1, <2>1, <2>3, LabelsKept DEF CaptureTypes, Recording, modelVars, workerVars
    <2>5. NothingStranded'
      <3>1. Pending({"onReadyRead"})' # {}
        BY <2>1, <2>2, <2>3, PendingAppended
      <3> QED BY <3>1 DEF NothingStranded
    <2>6. GateFollowsEdges'
      <3> DEFINE N == {"setCaptureEnabled"}
      <3>1. Pending(N)' = Pending(N) /\ \A i \in Pending(N) : calls'[i] = calls[i]
        BY <2>1, <2>2, <2>3, PendingAppended
      <3>2. Edge' = Edge /\ m_connected' = m_connected /\ phase' = phase
        BY <2>1 DEF Edge, modelVars, workerVars
      <3> QED BY <3>1, <3>2 DEF GateFollowsEdges, CaptureInv
    <2>7. ButtonFollowed'
      <3>1. Pending(Button)' = Pending(Button) /\ \A i \in Pending(Button) : calls'[i] = calls[i]
        BY <2>1, <2>2, <2>3, PendingAppended DEF Button
      <3>2. playButton' = playButton /\ m_running' = m_running /\ phase' = phase
        BY <2>1 DEF modelVars, workerVars
      <3> QED BY <3>1, <3>2 DEF ButtonFollowed, CaptureInv
    <2> QED BY <2>4, <2>5, <2>6, <2>7 DEF CaptureInv
  <1> QED BY <1>2, <1>3 DEF AudioThread

(* The GUI thread takes a block, or the source goes.                       *)
LEMMA DeliveredStep ==
  ASSUME CaptureInv, onSamplesReady
  PROVE  /\ CaptureInv'
         /\ m_lastData' \in Block /\ Pure(m_lastData') /\ Newest <= m_lastData'.id
         /\ phase' # "gone" /\ Newest' = m_lastData'.id
  <1>1. /\ CaptureTypes /\ Recording /\ Labelled
        /\ signals # <<>> /\ m_lastData' = Head(signals) /\ signals' = Tail(signals)
        /\ UNCHANGED <<modelVars, phase, calls, workerVars, m_buffer, writing, written>>
        /\ phase = "alive"
    BY DEF CaptureInv, onSamplesReady
  <1>2. /\ signals' \in Seq(Block) /\ Head(signals) = signals[1] /\ Head(signals) \in Block
        /\ Len(signals) \in Nat \ {0} /\ DOMAIN signals = 1 .. Len(signals)
        /\ DOMAIN signals' = 1 .. Len(signals) - 1
        /\ \A i \in 1 .. Len(signals) - 1 : signals'[i] = signals[i + 1]
    BY <1>1, Taken DEF CaptureTypes
  <1>3. m_lastData' # NoData /\ Newest' = m_lastData'.id /\ 1 \in DOMAIN signals
    BY <1>1, <1>2, NoDataAssumption DEF Newest
  <1>4. CaptureTypes' /\ Recording'
    BY <1>1, <1>2 DEF CaptureTypes, Recording, modelVars, workerVars
  <1>5. Labelled'
    <2>1. \A i \in DOMAIN signals' : i + 1 \in DOMAIN signals /\ signals'[i] = signals[i + 1]
      BY <1>2
    <2>2. \A i \in DOMAIN signals' :
            Pure(signals'[i]) /\ signals[1].id <= signals'[i].id /\ signals'[i].id <= written
      BY <1>1, <1>2, <1>3, <2>1 DEF Labelled
    <2>3. \A i, j \in DOMAIN signals' : i <= j => signals'[i].id <= signals'[j].id
      BY <1>1, <1>2, <2>1 DEF Labelled
    <2> QED BY <1>1, <1>2, <1>3, <2>2, <2>3 DEF Labelled
  <1>6. NothingStranded' /\ GateFollowsEdges' /\ ButtonFollowed'
    BY <1>1 DEF CaptureInv, NothingStranded, GateFollowsEdges, ButtonFollowed, Pending, Edge,
                modelVars, workerVars
  <1> QED BY <1>1, <1>2, <1>3, <1>4, <1>5, <1>6 DEF CaptureInv, Labelled

LEMMA LeavingStep ==
  ASSUME CaptureInv, DestroyModel \/ ThreadFinished
  PROVE  CaptureInv'
  <1>1. CaptureTypes /\ Recording /\ Labelled
    BY DEF CaptureInv
  <1>2. CASE DestroyModel
    BY <1>2 DEF CaptureInv, DestroyModel, CaptureTypes, Recording, Labelled, Newest,
                NothingStranded, GateFollowsEdges, ButtonFollowed, Pending, modelVars, workerVars
  <1>3. CASE ThreadFinished
    <2>1. /\ phase' = "gone" /\ calls' = <<>> /\ signals' = <<>> /\ m_lastData' = NoData
          /\ m_audioSource' = NoSource /\ m_buffer' = <<>>
          /\ UNCHANGED <<modelVars, m_running, m_connected, m_device, m_format, writing, written>>
      BY <1>3 DEF ThreadFinished
    <2>2. CaptureTypes'
      BY <1>1, <2>1 DEF CaptureTypes, modelVars
    <2>3. Labelled'
      BY <1>1, <2>1 DEF Labelled, Newest, CaptureTypes
    <2> QED BY <2>1, <2>2, <2>3 DEF CaptureInv, Recording, NothingStranded, GateFollowsEdges,
                                    ButtonFollowed
  <1> QED BY <1>2, <1>3

LEMMA CaptureStep ==
  ASSUME CaptureInv, CaptureNext
  PROVE  CaptureInv'
  BY RequestStep, StartStopStep, DrainStep, AudioStep, DeliveredStep, LeavingStep
     DEF CaptureNext, Worker
-----------------------------------------------------------------------------
(* Cards.                                                                  *)

LEMMA CardRefreshed ==
  ASSUME NEW card \in Card, NEW f \in Format
  PROVE  LET c == [card EXCEPT !.config.channel = Bound(@, f), !.offered = Channels[f]]
         IN  c \in Card /\ c.series = card.series
  <1> DEFINE n == Bound(card.config.channel, f)
             m == Channels[f]
             config == [card.config EXCEPT !.channel = n]
  <1>1. m \in Nat \ {0}
    BY DisplayAssumption
  <1>2. card.config \in Config /\ card.config.channel \in Nat
    BY DEF Card, Config
  <1>3. n \in Nat
    BY <1>1, <1>2 DEF Bound
  <1> HIDE DEF n, m
  <1>4. config \in Config
    BY <1>2, <1>3 DEF Config
  <1>5. [card EXCEPT !.config.channel = n, !.offered = m]
          = [card EXCEPT !.config = config, !.offered = m]
    BY DEF Card
  <1> HIDE DEF config
  <1>6. [card EXCEPT !.config = config, !.offered = m] \in Card
        /\ [card EXCEPT !.config = config, !.offered = m].series = card.series
    BY <1>1, <1>4 DEF Card
  <1> QED BY <1>5, <1>6 DEF n, m

LEMMA CardsRefreshed ==
  ASSUME NEW cards \in Seq(Card), NEW data \in Block
  PROVE  /\ Refreshed(cards, data) \in Seq(Card) /\ DOMAIN Refreshed(cards, data) = DOMAIN cards
         /\ \A i \in DOMAIN cards : Refreshed(cards, data)[i].series = cards[i].series
  <1>1. data.format \in Format
    BY DEF Block
  <1>2. /\ DOMAIN cards = 1 .. Len(cards) /\ Len(cards) \in Nat
        /\ \A i \in DOMAIN cards : cards[i] \in Card
    OBVIOUS
  <1>3. \A i \in DOMAIN cards :
          Refreshed(cards, data)[i] \in Card /\ Refreshed(cards, data)[i].series = cards[i].series
    BY <1>1, <1>2, CardRefreshed DEF Refreshed
  <1>4. Refreshed(cards, data) \in [1 .. Len(cards) -> Card]
    BY <1>2, <1>3 DEF Refreshed
  <1> HIDE DEF Refreshed
  <1> QED BY <1>2, <1>3, <1>4, Listed

LEMMA CardMade ==
  ASSUME inputData \in Block \cup {NoData}, NEW config \in Config
  PROVE  NewCard(config) \in Card /\ NewCard(config).series = NoSeries
  <1> DEFINE card == [config |-> config, offered |-> 0, series |-> NoSeries]
  <1>1. card \in Card /\ card.series = NoSeries
    BY DEF Card, Series
  <1> HIDE DEF card
  <1>2. <<card>> \in Seq(Card) /\ 1 \in DOMAIN <<card>> /\ <<card>>[1] = card
    BY <1>1
  <1>3. CASE inputData = NoData
    BY <1>1, <1>2, <1>3 DEF NewCard, card
  <1>4. CASE inputData # NoData
    <2>1. inputData \in Block
      BY <1>4
    <2> DEFINE one == <<card>>
    <2>2. one \in Seq(Card) /\ 1 \in DOMAIN one /\ one[1] = card
      BY <1>2
    <2> HIDE DEF one
    <2>3. Refreshed(one, inputData) \in Seq(Card) /\ 1 \in DOMAIN Refreshed(one, inputData)
          /\ Refreshed(one, inputData)[1].series = NoSeries
      BY <1>1, <2>1, <2>2, CardsRefreshed
    <2>4. Refreshed(one, inputData)[1] \in Card
      BY <2>3
    <2> QED BY <1>4, <2>3, <2>4 DEF NewCard, card, one
  <1> QED BY <1>3, <1>4

(* A step that is about the cards only.                                    *)
LEMMA CardsStep ==
  ASSUME DisplayInv, UNCHANGED cardVars, m_cards' \in Seq(Card),
         \A i \in DOMAIN m_cards' : Sound(m_cards'[i].series),
         m_ringSeconds' \in Seconds, m_dataDirty' \in BOOLEAN
  PROVE  DisplayInv' /\ \A n \in Nat : Seen(n) => Seen(n)'
  <1>1. DisplayTypes'
    BY DEF DisplayInv, DisplayTypes, cardVars
  <1>2. SeriesAreSound'
    BY DEF DisplayInv, SeriesAreSound, cardVars
  <1>3. RingOrdered' /\ RingIsPure' /\ TaskIsKnown' /\ OnePass' /\ TaskOutlived'
    BY DEF DisplayInv, RingOrdered, RingIsPure, TaskIsKnown, Known, OnePass, TaskOutlived, cardVars
  <1> QED BY <1>1, <1>2, <1>3 DEF DisplayInv, Seen, cardVars

LEMMA Removed ==
  ASSUME NEW S, NEW s \in Seq(S), NEW i \in DOMAIN s
  PROVE  /\ RemoveAt(s, i) \in Seq(S) /\ DOMAIN RemoveAt(s, i) = 1 .. Len(s) - 1
         /\ DOMAIN s = 1 .. Len(s) /\ Len(s) \in Nat
         /\ \A k \in DOMAIN RemoveAt(s, i) :
              RemoveAt(s, i)[k] = s[IF k < i THEN k ELSE k + 1]
  <1> DEFINE a == SubSeq(s, 1, i - 1)
             b == SubSeq(s, i + 1, Len(s))
  <1>1. DOMAIN s = 1 .. Len(s) /\ Len(s) \in Nat /\ i \in 1 .. Len(s)
    OBVIOUS
  <1>2. a \in Seq(S) /\ Len(a) = i - 1 /\ \A k \in 1 .. i - 1 : a[k] = s[k]
    BY <1>1
  <1>3. b \in Seq(S) /\ Len(b) = Len(s) - i /\ \A k \in 1 .. Len(s) - i : b[k] = s[i + k]
    BY <1>1
  <1>4. RemoveAt(s, i) = a \o b
    BY DEF RemoveAt
  <1> HIDE DEF a, b
  <1>5. a \o b \in Seq(S) /\ DOMAIN (a \o b) = 1 .. Len(s) - 1
    <2>1. a \o b \in Seq(S) /\ Len(a \o b) = Len(a) + Len(b)
      <3>1. a \in Seq(S) /\ b \in Seq(S)
        BY <1>2, <1>3
      <3> QED BY <3>1
    <2>2. Len(a) + Len(b) = Len(s) - 1
      BY <1>1, <1>2, <1>3
    <2> QED BY <2>1, <2>2
  <1>6. ASSUME NEW k \in 1 .. Len(s) - 1
        PROVE  (a \o b)[k] = s[IF k < i THEN k ELSE k + 1]
    <2>1. CASE k < i
      BY <1>1, <1>2, <1>3, <2>1
    <2>2. CASE ~(k < i)
      <3>1. k - (i - 1) \in 1 .. Len(s) - i /\ i + (k - (i - 1)) = k + 1
        BY <1>1, <2>2
      <3>2. (a \o b)[k] = b[k - (i - 1)]
        BY <1>1, <1>2, <1>3, <2>2
      <3> QED BY <1>3, <2>2, <3>1, <3>2
    <2> QED BY <2>1, <2>2
  <1> QED BY <1>1, <1>4, <1>5, <1>6

LEMMA EditStep ==
  ASSUME DisplayInv, Edit
  PROVE  DisplayInv' /\ \A n \in Nat : Seen(n) => Seen(n)'
  <1>1. /\ m_cards \in Seq(Card) /\ \A i \in DOMAIN m_cards : Sound(m_cards[i].series)
        /\ m_ringSeconds \in Seconds /\ m_dataDirty \in BOOLEAN
        /\ inputData \in Block \cup {NoData}
    BY DEF DisplayInv, DisplayTypes, SeriesAreSound
  <1>2. Sound(NoSeries)
    BY DEF Sound
  <1>3. CASE onAddPlot
    <2> DEFINE config == [processing |-> "time", channel |-> 0]
               card == NewCard(config)
    <2>1. config \in Config
      BY DisplayAssumption DEF Config
    <2> HIDE DEF config
    <2>2. card \in Card /\ Sound(card.series)
      BY <1>1, <1>2, <2>1, CardMade
    <2>3. /\ m_cards' = Append(m_cards, card) /\ UNCHANGED <<cardVars, m_ringSeconds>>
          /\ m_dataDirty' = (m_dataDirty \/ inputData # NoData)
      BY <1>3 DEF onAddPlot, config
    <2> HIDE DEF card
    <2>4. m_cards' \in Seq(Card) /\ \A i \in DOMAIN m_cards' : Sound(m_cards'[i].series)
      <3>1. /\ m_cards' \in Seq(Card) /\ DOMAIN m_cards' = 1 .. Len(m_cards) + 1
            /\ DOMAIN m_cards = 1 .. Len(m_cards) /\ Len(m_cards) \in Nat
            /\ \A i \in 1 .. Len(m_cards) : m_cards'[i] = m_cards[i]
            /\ m_cards'[Len(m_cards) + 1] = card
        BY <1>1, <2>2, <2>3, Appended
      <3>2. ASSUME NEW i \in DOMAIN m_cards' PROVE Sound(m_cards'[i].series)
        <4>1. i \in DOMAIN m_cards \/ i = Len(m_cards) + 1
          BY <3>1
        <4> QED BY <1>1, <2>2, <3>1, <4>1
      <3> QED BY <3>1, <3>2
    <2>5. m_dataDirty' \in BOOLEAN
      BY <1>1, <2>3
    <2> QED BY <1>1, <2>3, <2>4, <2>5, CardsStep
  <1>4. ASSUME NEW i \in 1 .. MaxCards, removeCardAt(i)
        PROVE  DisplayInv' /\ \A n \in Nat : Seen(n) => Seen(n)'
    <2>1. /\ i \in DOMAIN m_cards /\ m_cards' = RemoveAt(m_cards, i)
          /\ UNCHANGED <<cardVars, m_ringSeconds, m_dataDirty>>
      BY <1>4 DEF removeCardAt
    <2>2. /\ m_cards' \in Seq(Card) /\ DOMAIN m_cards' = 1 .. Len(m_cards) - 1
          /\ DOMAIN m_cards = 1 .. Len(m_cards) /\ Len(m_cards) \in Nat
          /\ \A k \in DOMAIN m_cards' : m_cards'[k] = m_cards[IF k < i THEN k ELSE k + 1]
      BY <1>1, <2>1, Removed
    <2>3. ASSUME NEW k \in DOMAIN m_cards' PROVE Sound(m_cards'[k].series)
      <3>1. (IF k < i THEN k ELSE k + 1) \in DOMAIN m_cards
        BY <2>1, <2>2
      <3> QED BY <1>1, <2>2, <3>1
    <2> QED BY <1>1, <2>1, <2>2, <2>3, CardsStep
  <1>5. ASSUME NEW i \in DOMAIN m_cards, NEW config \in Config, onCardConfigChanged(i, config)
        PROVE  DisplayInv' /\ \A n \in Nat : Seen(n) => Seen(n)'
    <2> DEFINE card == [m_cards[i] EXCEPT !.config = config]
    <2>1. m_cards[i] \in Card
      BY <1>1
    <2>2. card \in Card /\ card.series = m_cards[i].series
      BY <2>1 DEF Card
    <2>3. /\ m_cards' = [m_cards EXCEPT ![i] = card] /\ m_dataDirty' = TRUE
          /\ UNCHANGED <<cardVars, m_ringSeconds>>
      BY <1>5 DEF onCardConfigChanged
    <2> HIDE DEF card
    <2>4. m_cards' \in Seq(Card) /\ DOMAIN m_cards' = DOMAIN m_cards
          /\ \A k \in DOMAIN m_cards : m_cards'[k] = IF k = i THEN card ELSE m_cards[k]
      BY <1>1, <2>2, <2>3
    <2>5. \A k \in DOMAIN m_cards' : Sound(m_cards'[k].series)
      BY <1>1, <2>2, <2>4
    <2> QED BY <1>1, <2>3, <2>4, <2>5, CardsStep
  <1>6. ASSUME NEW seconds \in Seconds, RingSpinBoxChanged(seconds)
        PROVE  DisplayInv' /\ \A n \in Nat : Seen(n) => Seen(n)'
    BY <1>1, <1>6, CardsStep DEF RingSpinBoxChanged
  <1>7. ASSUME NEW n \in 0 .. MaxCards, NEW seconds \in Seconds,
               restore([i \in 1 .. n |-> [processing |-> "time", channel |-> 0]], seconds)
        PROVE  DisplayInv' /\ \A k \in Nat : Seen(k) => Seen(k)'
    <2> DEFINE config == [processing |-> "time", channel |-> 0]
               card == NewCard(config)
    <2>1. config \in Config /\ n \in Nat
      BY DisplayAssumption DEF Config
    <2> HIDE DEF config
    <2>2. card \in Card /\ Sound(card.series)
      BY <1>1, <1>2, <2>1, CardMade
    <2>3. /\ m_cards' = [i \in 1 .. n |-> card] /\ m_ringSeconds' = seconds
          /\ UNCHANGED cardVars /\ m_dataDirty' \in BOOLEAN
      BY <1>1, <1>7 DEF restore, config
    <2> HIDE DEF card
    <2>4. m_cards' \in [1 .. n -> Card] /\ \A i \in 1 .. n : m_cards'[i] = card
      BY <2>2, <2>3
    <2>5. m_cards' \in Seq(Card) /\ \A i \in DOMAIN m_cards' : Sound(m_cards'[i].series)
      BY <2>1, <2>2, <2>4, Listed
    <2> QED BY <2>3, <2>5, CardsStep
  <1>8. ASSUME NEW i \in DOMAIN m_cards, NEW p \in Processing, NEW c \in 0 .. m_cards[i].offered
        PROVE  [processing |-> p, channel |-> c] \in Config
    <2>1. m_cards[i] \in Card
      BY <1>1
    <2>2. m_cards[i].offered \in Nat
      BY <2>1 DEF Card
    <2> QED BY <2>2 DEF Config
  <1> QED BY <1>3, <1>4, <1>5, <1>6, <1>7, <1>8 DEF Edit
-----------------------------------------------------------------------------
(* What the types say of the ring and of the task.                         *)

LEMMA RingTyped ==
  ASSUME DisplayTypes
  PROVE  /\ m_ring.blocks \in Seq(Entry) /\ m_ring.last \in Nat
         /\ \A k \in DOMAIN m_ring.blocks :
              /\ m_ring.blocks[k].data \in Block /\ m_ring.blocks[k].generation \in Nat
              /\ m_ring.blocks[k].data.id \in Nat
  <1>1. m_ring.blocks \in Seq(Entry) /\ m_ring.last \in Nat
    BY DEF DisplayTypes
  <1>2. ASSUME NEW k \in DOMAIN m_ring.blocks
        PROVE  /\ m_ring.blocks[k].data \in Block /\ m_ring.blocks[k].generation \in Nat
               /\ m_ring.blocks[k].data.id \in Nat
    <2>1. m_ring.blocks[k] \in Entry
      BY <1>1
    <2>2. m_ring.blocks[k].data \in Block /\ m_ring.blocks[k].generation \in Nat
      BY <2>1 DEF Entry
    <2> QED BY <2>2 DEF Block
  <1> QED BY <1>1, <1>2

LEMMA TaskTyped ==
  ASSUME DisplayTypes, task # NoTask
  PROVE  /\ task \in Task /\ task.data \in Block /\ task.generation \in Nat
         /\ task.data.id \in Nat /\ task.seconds \in Seconds
         /\ task.configs \in Seq(Config) /\ task.series \in Seq(Series)
         /\ task.data.format \in Format
  <1>1. task \in Task
    BY DEF DisplayTypes
  <1>2. /\ task.data \in Block /\ task.generation \in Nat /\ task.seconds \in Seconds
        /\ task.configs \in Seq(Config) /\ task.series \in Seq(Series)
    BY <1>1 DEF Task
  <1> QED BY <1>1, <1>2 DEF Block

-----------------------------------------------------------------------------
(* Blocks that arrive, the task that takes them, and its results.          *)

LEMMA SetInDataStep ==
  ASSUME DisplayInv, NEW data \in Block \cup {NoData}, setInData(data),
         NEW n \in Nat, Seen(n),
         data # NoData => Pure(data) /\ n <= data.id
  PROVE  DisplayInv' /\ Seen(IF data = NoData THEN n ELSE data.id)'
  <1>1. /\ DisplayTypes /\ SeriesAreSound /\ TaskIsKnown /\ RingOrdered
        /\ UNCHANGED <<m_computeInFlight, m_ring, task, results, display>>
        /\ inputData' = data /\ m_dataGeneration' = Generation(data)
    BY DEF DisplayInv, setInData
  <1>2. CASE data = NoData
    <2>1. UNCHANGED <<m_ringSeconds, m_cards, m_dataDirty>> /\ m_dataGeneration' = m_dataGeneration
      BY <1>1, <1>2 DEF setInData, Generation
    <2>2. /\ DisplayTypes' /\ SeriesAreSound' /\ RingOrdered' /\ RingIsPure'
          /\ OnePass' /\ TaskOutlived'
      BY <1>1, <1>2, <2>1 DEF DisplayInv, DisplayTypes, SeriesAreSound, RingOrdered, RingIsPure,
                              OnePass, TaskOutlived
    <2>3. TaskIsKnown'
      BY <1>1, <1>2, <2>1 DEF TaskIsKnown, Known
    <2>4. Seen(n)'
      BY <1>1, <1>2 DEF Seen
    <2> QED BY <1>2, <2>2, <2>3, <2>4 DEF DisplayInv
  <1>3. CASE data # NoData
    <2>1. data \in Block /\ Pure(data) /\ data.format \in Format /\ data.id \in Nat
      BY <1>3 DEF Block
    <2>2. /\ m_cards' = Refreshed(m_cards, data) /\ m_ringSeconds' = Recommended(data)
          /\ m_dataDirty' = TRUE
      BY <1>3 DEF setInData
    <2>3. /\ m_cards' \in Seq(Card) /\ DOMAIN m_cards' = DOMAIN m_cards
          /\ \A i \in DOMAIN m_cards : m_cards'[i].series = m_cards[i].series
      BY <1>1, <2>1, <2>2, CardsRefreshed DEF DisplayTypes
    <2>4. m_ringSeconds' \in Seconds
      BY <1>1, <2>1, <2>2, DisplayAssumption DEF Recommended, DisplayTypes
    <2>5. /\ m_dataGeneration \in Nat /\ m_dataGeneration' \in Nat
          /\ \/ m_dataGeneration' = m_dataGeneration + 1
             \/ data = inputData /\ m_dataGeneration' = m_dataGeneration
      <3>1. m_dataGeneration \in Nat /\ m_dataGeneration' = Generation(data)
        BY <1>1 DEF DisplayTypes
      <3>2. CASE data = inputData
        BY <3>1, <3>2 DEF Generation
      <3>3. CASE data # inputData
        BY <1>3, <3>1, <3>3 DEF Generation
      <3> QED BY <3>2, <3>3
    <2>6. DisplayTypes'
      BY <1>1, <2>1, <2>2, <2>3, <2>4, <2>5 DEF DisplayTypes
    <2>7. SeriesAreSound'
      BY <1>1, <2>3 DEF SeriesAreSound, Sound
    <2>8. RingOrdered' /\ RingIsPure' /\ OnePass' /\ TaskOutlived'
      <3>1. m_ring.last \in Nat
        BY <1>1 DEF DisplayTypes
      <3> QED BY <1>1, <2>5, <3>1 DEF DisplayInv, RingOrdered, RingIsPure, OnePass, TaskOutlived
    <2>9. Seen(data.id)'
      <3>1. \A k \in DOMAIN m_ring.blocks : m_ring.blocks[k].data.id \in Nat
        BY <1>1, RingTyped
      <3>2. task # NoTask => task.data.id \in Nat
        BY <1>1, TaskTyped
      <3> QED BY <1>1, <1>3, <2>1, <3>1, <3>2 DEF Seen
    <2>10. TaskIsKnown'
      <3>1. m_ring.last \in Nat /\ m_ring.last <= m_dataGeneration
        BY <1>1 DEF DisplayTypes, RingOrdered
      <3>2. Known(inputData, m_dataGeneration)'
        <4>1. CASE data = inputData /\ m_dataGeneration' = m_dataGeneration
          <5>1. Known(inputData, m_dataGeneration)
            BY <1>1, <1>3, <4>1 DEF TaskIsKnown
          <5> QED BY <1>1, <4>1, <5>1 DEF Known
        <4>2. CASE m_dataGeneration' = m_dataGeneration + 1
          BY <1>1, <1>3, <2>1, <2>5, <2>9, <3>1, <4>2 DEF Known, Seen
        <4> QED BY <2>5, <4>1, <4>2
      <3>3. ASSUME task # NoTask
            PROVE  /\ task.generation <= m_dataGeneration'
                   /\ task.data.id <= data.id
                   /\ task.generation = m_dataGeneration' => task.data = data
        <4>1. task.generation \in Nat /\ task.generation <= m_dataGeneration
          BY <1>1, <3>3, TaskTyped DEF TaskIsKnown
        <4>2. CASE data = inputData /\ m_dataGeneration' = m_dataGeneration
          BY <1>1, <1>3, <3>3, <4>1, <4>2 DEF TaskIsKnown
        <4>3. CASE m_dataGeneration' = m_dataGeneration + 1
          BY <1>1, <1>3, <2>5, <2>9, <3>3, <4>1, <4>3 DEF Seen
        <4> QED BY <2>5, <4>2, <4>3
      <3>4. ASSUME task # NoTask
            PROVE  Known(task.data, task.generation)'
        <4>1. Known(task.data, task.generation)
          BY <1>1, <3>4 DEF TaskIsKnown
        <4>2. UNCHANGED <<m_ring, task>>
          BY <1>1
        <4> QED BY <4>1, <4>2 DEF Known
      <3> QED BY <1>1, <3>2, <3>3, <3>4 DEF TaskIsKnown
    <2> QED BY <1>3, <2>6, <2>7, <2>8, <2>9, <2>10 DEF DisplayInv
  <1> QED BY <1>2, <1>3

LEMMA TickStep ==
  ASSUME DisplayInv, onRefreshTick
  PROVE  DisplayInv' /\ \A n \in Nat : Seen(n) => Seen(n)'
  <1> DEFINE t == [stage |-> "queued", data |-> inputData, generation |-> m_dataGeneration,
                   seconds |-> m_ringSeconds,
                   configs |-> [i \in DOMAIN m_cards |-> m_cards[i].config],
                   series |-> <<>>]
  <1>1. /\ DisplayTypes /\ TaskIsKnown /\ OnePass /\ inputData # NoData /\ display = "alive"
        /\ ~m_computeInFlight /\ m_computeInFlight' = TRUE /\ m_dataDirty' = FALSE /\ task' = t
        /\ UNCHANGED <<inputData, m_dataGeneration, m_ringSeconds, m_cards, m_ring, results,
                       display>>
    BY DEF DisplayInv, onRefreshTick
  <1>2. [i \in DOMAIN m_cards |-> m_cards[i].config] \in Seq(Config)
    <2>1. DOMAIN m_cards = 1 .. Len(m_cards) /\ Len(m_cards) \in Nat
          /\ \A i \in DOMAIN m_cards : m_cards[i] \in Card
      BY <1>1 DEF DisplayTypes
    <2>2. \A i \in DOMAIN m_cards : m_cards[i].config \in Config
      BY <2>1 DEF Card
    <2>3. [i \in DOMAIN m_cards |-> m_cards[i].config] \in [1 .. Len(m_cards) -> Config]
      BY <2>1, <2>2
    <2> QED BY <2>1, <2>3, Listed
  <1>3. t \in Task /\ t.stage = "queued" /\ t.data = inputData /\ t.generation = m_dataGeneration
    BY <1>1, <1>2 DEF DisplayTypes, Task
  <1> HIDE DEF t
  <1>4. task' # NoTask
    BY <1>1, <1>3, StreamAssumption
  <1>5. DisplayTypes'
    BY <1>1, <1>3 DEF DisplayTypes
  <1>6. SeriesAreSound'
    BY <1>1, <1>3 DEF DisplayInv, SeriesAreSound
  <1>7. TaskIsKnown'
    <2>1. Known(inputData, m_dataGeneration) /\ inputData \in Block /\ m_dataGeneration \in Nat
      BY <1>1 DEF TaskIsKnown, DisplayTypes
    <2>2. Known(inputData, m_dataGeneration)'
      BY <1>1, <2>1 DEF Known
    <2>3. task'.data = inputData' /\ task'.generation = m_dataGeneration'
      BY <1>1, <1>3
    <2>4. Known(task.data, task.generation)'
      BY <1>1, <2>1, <2>3 DEF Known
    <2>5. inputData'.id \in Nat /\ m_dataGeneration' \in Nat
      BY <1>1, <2>1 DEF Block
    <2> QED BY <2>2, <2>3, <2>4, <2>5 DEF TaskIsKnown
  <1>8. RingOrdered' /\ RingIsPure' /\ OnePass' /\ TaskOutlived'
    BY <1>1, <1>4 DEF DisplayInv, RingOrdered, RingIsPure, OnePass, TaskOutlived
  <1>9. ASSUME NEW n \in Nat, Seen(n) PROVE Seen(n)'
    BY <1>1, <1>3, <1>9 DEF Seen
  <1> QED BY <1>5, <1>6, <1>7, <1>8, <1>9 DEF DisplayInv

LEMMA ApplyStep ==
  ASSUME DisplayInv, applyResult
  PROVE  DisplayInv' /\ \A n \in Nat : Seen(n) => Seen(n)'
  <1>1. /\ DisplayTypes /\ SeriesAreSound /\ TaskIsKnown /\ OnePass /\ display = "alive"
        /\ results # <<>> /\ results' = Tail(results) /\ m_computeInFlight' = FALSE
        /\ UNCHANGED <<inputData, m_dataGeneration, m_ringSeconds, m_dataDirty, m_ring, task,
                       display>>
    BY DEF DisplayInv, applyResult
  <1>2. /\ results' \in Seq(Seq(Series)) /\ Head(results) \in Seq(Series)
        /\ Head(results) = results[1] /\ 1 \in DOMAIN results
        /\ Len(results) \in Nat \ {0} /\ DOMAIN results' = 1 .. Len(results) - 1
    BY <1>1, Taken DEF DisplayTypes
  <1>3. task = NoTask /\ results' = <<>>
    BY <1>1, <1>2 DEF OnePass
  <1> DEFINE h == Head(results)
             shown(i) == IF i \in DOMAIN h THEN [m_cards[i] EXCEPT !.series = h[i]] ELSE m_cards[i]
  <1>4. m_cards' = [i \in DOMAIN m_cards |-> shown(i)]
    BY DEF applyResult
  <1>5. h \in Seq(Series) /\ \A i \in DOMAIN h : h[i] \in Series /\ Sound(h[i])
    <2>1. \A i \in DOMAIN h : h[i] \in Series
      BY <1>2
    <2>2. \A i \in DOMAIN h : Sound(h[i])
      BY <1>1, <1>2 DEF SeriesAreSound
    <2> QED BY <1>2, <2>1, <2>2
  <1> HIDE DEF h
  <1>6. ASSUME NEW i \in DOMAIN m_cards
        PROVE  shown(i) \in Card /\ Sound(shown(i).series)
    <2>1. m_cards[i] \in Card /\ Sound(m_cards[i].series)
      BY <1>1 DEF DisplayTypes, SeriesAreSound
    <2>2. CASE i \in DOMAIN h
      <3>1. h[i] \in Series /\ Sound(h[i])
        BY <1>5, <2>2
      <3> DEFINE c == [m_cards[i] EXCEPT !.series = h[i]]
      <3>2. c \in Card /\ c.series = h[i]
        BY <2>1, <3>1 DEF Card
      <3> QED BY <2>2, <3>1, <3>2
    <2>3. CASE i \notin DOMAIN h
      BY <2>1, <2>3
    <2> QED BY <2>2, <2>3
  <1>7. /\ m_cards' \in Seq(Card) /\ DOMAIN m_cards' = DOMAIN m_cards
        /\ \A i \in DOMAIN m_cards' : Sound(m_cards'[i].series)
    <2>1. DOMAIN m_cards = 1 .. Len(m_cards) /\ Len(m_cards) \in Nat
      BY <1>1 DEF DisplayTypes
    <2>2. m_cards' \in [1 .. Len(m_cards) -> Card]
      BY <1>4, <1>6, <2>1
    <2>3. \A i \in DOMAIN m_cards : m_cards'[i] = shown(i)
      BY <1>4
    <2> HIDE DEF shown
    <2>4. m_cards' \in Seq(Card) /\ DOMAIN m_cards' = 1 .. Len(m_cards)
      BY <2>1, <2>2, Listed
    <2> QED BY <1>6, <2>1, <2>3, <2>4
  <1>8. DisplayTypes'
    BY <1>1, <1>2, <1>7 DEF DisplayTypes
  <1>9. SeriesAreSound'
    BY <1>1, <1>3, <1>7 DEF SeriesAreSound
  <1>10. TaskIsKnown'
    BY <1>1, <1>3 DEF TaskIsKnown, Known
  <1>11. RingOrdered' /\ RingIsPure' /\ OnePass' /\ TaskOutlived'
    BY <1>1, <1>3 DEF DisplayInv, RingOrdered, RingIsPure, OnePass, TaskOutlived
  <1>12. ASSUME NEW n \in Nat, Seen(n) PROVE Seen(n)'
    BY <1>1, <1>12 DEF Seen
  <1> QED BY <1>8, <1>9, <1>10, <1>11, <1>12 DEF DisplayInv

LEMMA DisplayLeavingStep ==
  ASSUME DisplayInv, DestroyDisplay \/ DisplayDestroyed
  PROVE  DisplayInv' /\ \A n \in Nat : Seen(n) => Seen(n)'
  <1>1. /\ UNCHANGED <<inputData, m_dataGeneration, m_ringSeconds, m_dataDirty,
                       m_computeInFlight, m_cards, m_ring>>
        /\ task' \in {task, NoTask} /\ results' \in {results, <<>>}
        /\ display' = "closing" \/ (display' = "gone" /\ task' = NoTask)
    BY DEF DestroyDisplay, DisplayDestroyed
  <1>2. DisplayTypes' /\ SeriesAreSound'
    <2>1. DisplayTypes /\ SeriesAreSound
      BY DEF DisplayInv
    <2>2. results' \in Seq(Seq(Series))
      <3>1. CASE results' = results
        BY <2>1, <3>1 DEF DisplayTypes
      <3>2. CASE results' = <<>>
        BY <3>2
      <3> QED BY <1>1, <3>1, <3>2
    <2>3. DisplayTypes'
      <3>1. display' \in {"alive", "closing", "gone"} /\ task' \in Task \cup {NoTask}
        BY <1>1, <2>1 DEF DisplayTypes
      <3> QED BY <1>1, <2>1, <2>2, <3>1 DEF DisplayTypes
    <2>4. \A k \in DOMAIN results' : \A i \in DOMAIN results'[k] : Sound(results'[k][i])
      <3>1. CASE results' = results
        BY <2>1, <3>1 DEF SeriesAreSound
      <3>2. CASE results' = <<>>
        BY <3>2
      <3> QED BY <1>1, <3>1, <3>2
    <2>5. SeriesAreSound'
      BY <1>1, <2>1, <2>4 DEF SeriesAreSound
    <2> QED BY <2>3, <2>5
  <1>3. TaskIsKnown'
    BY <1>1 DEF DisplayInv, TaskIsKnown, Known
  <1>4. RingOrdered' /\ RingIsPure' /\ OnePass' /\ TaskOutlived'
    BY <1>1 DEF DisplayInv, RingOrdered, RingIsPure, OnePass, TaskOutlived
  <1>5. ASSUME NEW n \in Nat, Seen(n) PROVE Seen(n)'
    BY <1>1, <1>5 DEF Seen
  <1> QED BY <1>2, <1>3, <1>4, <1>5 DEF DisplayInv

LEMMA PostStep ==
  ASSUME DisplayInv, PostResult
  PROVE  DisplayInv' /\ \A n \in Nat : Seen(n) => Seen(n)'
  <1>1. /\ DisplayTypes /\ SeriesAreSound /\ TaskIsKnown /\ OnePass
        /\ task # NoTask /\ task.stage = "computed" /\ task' = NoTask
        /\ UNCHANGED <<inputData, m_dataGeneration, m_ringSeconds, m_dataDirty,
                       m_computeInFlight, m_cards, m_ring, display>>
        /\ results' = IF display # "alive" THEN results ELSE Append(results, task.series)
    BY DEF DisplayInv, PostResult, m_shuttingDown
  <1>2. /\ results' \in Seq(Seq(Series))
        /\ \A k \in DOMAIN results' : \A i \in DOMAIN results'[k] : Sound(results'[k][i])
        /\ display = "alive" => results' # <<>> /\ Len(results') <= 1
    <2>1. CASE display # "alive"
      BY <1>1, <2>1 DEF DisplayTypes, SeriesAreSound
    <2>2. CASE display = "alive"
      <3> DEFINE s == task.series
      <3>1. s \in Seq(Series) /\ \A i \in DOMAIN s : Sound(s[i])
        BY <1>1, TaskTyped DEF SeriesAreSound
      <3>2. results = <<>> /\ results' = Append(results, s)
        BY <1>1, <2>2 DEF OnePass
      <3> HIDE DEF s
      <3>3. results' = <<s>> /\ DOMAIN results' = {1} /\ results'[1] = s /\ Len(results') = 1
        BY <3>2
      <3>4. results' \in Seq(Seq(Series))
        BY <3>1, <3>3
      <3> QED BY <3>1, <3>3, <3>4
    <2> QED BY <2>1, <2>2
  <1>3. DisplayTypes' /\ SeriesAreSound'
    BY <1>1, <1>2 DEF DisplayTypes, SeriesAreSound
  <1>4. TaskIsKnown'
    BY <1>1 DEF TaskIsKnown, Known
  <1>5. RingOrdered' /\ RingIsPure' /\ OnePass' /\ TaskOutlived'
    BY <1>1, <1>2 DEF DisplayInv, RingOrdered, RingIsPure, OnePass, TaskOutlived
  <1>6. ASSUME NEW n \in Nat, Seen(n) PROVE Seen(n)'
    BY <1>1, <1>6 DEF Seen
  <1> QED BY <1>3, <1>4, <1>5, <1>6 DEF DisplayInv

(* The ring drops its oldest blocks and never all of them.                 *)
LEMMA LastOnesKept ==
  ASSUME NEW S, NEW s \in Seq(S), s # <<>>, NEW n \in Nat \ {0}
  PROVE  LET t == LastOnes(n, s)
         IN  /\ t \in Seq(S) /\ Len(t) \in Nat \ {0} /\ DOMAIN t = 1 .. Len(t)
             /\ Len(s) - Len(t) \in Nat
             /\ \A k \in 1 .. Len(t) : t[k] = s[k + (Len(s) - Len(t))]
  <1>1. Len(s) \in Nat \ {0} /\ DOMAIN s = 1 .. Len(s)
    OBVIOUS
  <1>2. CASE Len(s) <= n
    BY <1>1, <1>2 DEF LastOnes
  <1>3. CASE ~(Len(s) <= n)
    <2> DEFINE m == Len(s) - n + 1
               t == SubSeq(s, m, Len(s))
    <2>1. m \in 1 .. Len(s) /\ Len(s) - m + 1 = n
      BY <1>1, <1>3
    <2> HIDE DEF m
    <2>2. t \in Seq(S) /\ Len(t) = Len(s) - m + 1 /\ \A k \in 1 .. Len(t) : t[k] = s[m + k - 1]
      BY <1>1, <2>1
    <2>3. LastOnes(n, s) = t
      BY <1>3 DEF LastOnes, m
    <2> HIDE DEF t
    <2>4. Len(t) = n /\ Len(s) - n \in Nat /\ m = Len(s) - n + 1
      BY <1>1, <1>3, <2>1, <2>2 DEF m
    <2>5. ASSUME NEW k \in 1 .. n PROVE t[k] = s[k + (Len(s) - n)]
      <3>1. m + k - 1 = k + (Len(s) - n)
        BY <1>1, <2>1, <2>4
      <3> QED BY <2>2, <2>4, <3>1
    <2>6. DOMAIN t = 1 .. Len(t)
      BY <2>2
    <2> QED BY <2>2, <2>3, <2>4, <2>5, <2>6
  <1> QED BY <1>2, <1>3

(* The ring after a block was appended, or found to be in it.              *)
LEMMA RingAppended ==
  ASSUME DisplayInv, task # NoTask,
         m_ring' = appendRingBlock(m_ring, task.data, task.seconds, task.generation),
         UNCHANGED m_dataGeneration
  PROVE  /\ m_ring' \in [blocks : Seq(Entry), signature : Format \cup {NoData}, last : Nat]
         /\ RingOrdered' /\ RingIsPure' /\ m_ring'.blocks # <<>>
         /\ m_ring'.last = task.generation /\ m_ring'.signature = task.data.format
         /\ \A k \in DOMAIN m_ring'.blocks : m_ring'.blocks[k].data.id <= task.data.id
  <1>1. DisplayTypes /\ RingOrdered /\ RingIsPure /\ Known(task.data, task.generation)
        /\ task.generation <= m_dataGeneration
    BY DEF DisplayInv, TaskIsKnown
  <1> DEFINE data == task.data
             generation == task.generation
  <1>2. /\ data \in Block /\ generation \in Nat /\ data.id \in Nat /\ task.seconds \in Nat \ {0}
        /\ data.format \in Format
    BY <1>1, TaskTyped, DisplayAssumption
  <1>3. CASE generation = m_ring.last
    <2>1. m_ring' = m_ring /\ m_ring.signature = data.format
      BY <1>1, <1>3 DEF appendRingBlock, Known
    <2>2. m_ring.blocks # <<>>
      BY <1>1, <1>2, <1>3 DEF RingIsPure, Known
    <2>3. RingOrdered' /\ RingIsPure'
      BY <1>1, <2>1 DEF RingOrdered, RingIsPure
    <2> QED BY <1>1, <1>3, <2>1, <2>2, <2>3 DEF DisplayTypes, Known
  <1>4. CASE generation # m_ring.last
    <2> DEFINE kept == IF data.format = m_ring.signature THEN m_ring.blocks ELSE <<>>
               entry == [data |-> data, generation |-> generation]
               s == Append(kept, entry)
               t == LastOnes(task.seconds, s)
               d == Len(s) - Len(t)
    <2>1. m_ring' = [blocks |-> t, signature |-> data.format, last |-> generation]
      BY <1>4 DEF appendRingBlock, Signature
    <2>2. m_ring.last \in Nat /\ m_ring.last < generation
      BY <1>1, <1>2, <1>4, RingTyped DEF Known
    <2>3. /\ kept \in Seq(Entry)
          /\ \A i \in DOMAIN kept :
               /\ Pure(kept[i].data) /\ kept[i].data.format = data.format
               /\ kept[i].data.id <= data.id /\ kept[i].generation < generation
          /\ \A i, j \in DOMAIN kept :
               i < j => /\ kept[i].generation < kept[j].generation
                        /\ kept[i].data.id <= kept[j].data.id
      <3>1. CASE data.format # m_ring.signature
        BY <3>1
      <3>2. CASE data.format = m_ring.signature
        <4>1. kept = m_ring.blocks /\ m_ring.blocks \in Seq(Entry)
          BY <1>1, <3>2, RingTyped
        <4>2. ASSUME NEW i \in DOMAIN m_ring.blocks
              PROVE  /\ Pure(m_ring.blocks[i].data) /\ m_ring.blocks[i].data.format = data.format
                     /\ m_ring.blocks[i].data.id <= data.id
          BY <1>1, <3>2 DEF RingIsPure, Known
        <4>3. ASSUME NEW i \in DOMAIN m_ring.blocks
              PROVE  m_ring.blocks[i].generation < generation
          <5> DEFINE n == Len(m_ring.blocks)
          <5>1. n \in Nat /\ DOMAIN m_ring.blocks = 1 .. n /\ m_ring.blocks # <<>>
            BY <4>1
          <5>2. m_ring.blocks[n].generation = m_ring.last
            BY <1>1, <5>1 DEF RingOrdered
          <5>3. CASE i = n
            BY <2>2, <5>2, <5>3
          <5>4. CASE i # n
            <6>1. i < n /\ n \in DOMAIN m_ring.blocks
              BY <5>1, <5>4
            <6>2. m_ring.blocks[i].generation < m_ring.blocks[n].generation
              BY <1>1, <6>1 DEF RingOrdered
            <6>3. m_ring.blocks[i].generation \in Nat
              BY <1>1, RingTyped
            <6> QED BY <1>2, <2>2, <5>2, <6>2, <6>3
          <5> QED BY <5>3, <5>4
        <4>4. \A i, j \in DOMAIN m_ring.blocks :
                i < j => /\ m_ring.blocks[i].generation < m_ring.blocks[j].generation
                         /\ m_ring.blocks[i].data.id <= m_ring.blocks[j].data.id
          BY <1>1 DEF RingOrdered
        <4> HIDE DEF kept
        <4> QED BY <4>1, <4>2, <4>3, <4>4
      <3> QED BY <3>1, <3>2
    <2>4. entry \in Entry /\ entry.data = data /\ entry.generation = generation
      BY <1>2 DEF Entry
    <2> HIDE DEF kept, entry
    <2>5. /\ s \in Seq(Entry) /\ s # <<>> /\ Len(s) = Len(kept) + 1 /\ Len(kept) \in Nat
          /\ DOMAIN s = 1 .. Len(kept) + 1 /\ DOMAIN kept = 1 .. Len(kept)
          /\ \A i \in 1 .. Len(kept) : s[i] = kept[i]
          /\ s[Len(kept) + 1] = entry
      <3>1. /\ s \in Seq(Entry) /\ Len(s) = Len(kept) + 1 /\ Len(kept) \in Nat
            /\ DOMAIN s = 1 .. Len(kept) + 1 /\ DOMAIN kept = 1 .. Len(kept)
            /\ \A i \in 1 .. Len(kept) : s[i] = kept[i]
            /\ s[Len(kept) + 1] = entry
        BY <2>3, <2>4, Appended
      <3> HIDE DEF s
      <3>2. s # <<>>
        BY <3>1
      <3> QED BY <3>1, <3>2
    <2> HIDE DEF s
    <2>6. /\ t \in Seq(Entry) /\ Len(t) \in Nat \ {0} /\ DOMAIN t = 1 .. Len(t) /\ d \in Nat
          /\ \A k \in 1 .. Len(t) : t[k] = s[k + d]
      BY <1>2, <2>5, LastOnesKept
    <2>7. Len(s) = Len(t) + d /\ \A k \in DOMAIN t : k + d \in DOMAIN s /\ t[k] = s[k + d]
      BY <2>5, <2>6
    <2> HIDE DEF t, d
    <2>8. \A i \in DOMAIN s : /\ Pure(s[i].data) /\ s[i].data.format = data.format
                              /\ s[i].data.id <= data.id
      <3> TAKE i \in DOMAIN s
      <3>1. CASE i \in DOMAIN kept
        BY <2>3, <2>5, <3>1
      <3>2. CASE i = Len(kept) + 1
        <4>1. Pure(data)
          BY <1>1 DEF Known
        <4> QED BY <1>2, <2>4, <2>5, <3>2, <4>1
      <3> QED BY <2>5, <3>1, <3>2
    <2>9. \A i, j \in DOMAIN s :
            i < j => s[i].generation < s[j].generation /\ s[i].data.id <= s[j].data.id
      <3> TAKE i, j \in DOMAIN s
      <3>1. CASE j \in DOMAIN kept
        <4>1. i < j => i \in DOMAIN kept
          BY <2>5, <3>1
        <4> QED BY <2>3, <2>5, <3>1, <4>1
      <3>2. CASE j = Len(kept) + 1
        <4>1. i < j => i \in DOMAIN kept
          BY <2>5, <3>2
        <4> QED BY <2>3, <2>4, <2>5, <3>2, <4>1
      <3> QED BY <2>5, <3>1, <3>2
    <2>10. /\ m_ring'.blocks = t /\ m_ring'.last = generation /\ m_ring'.signature = data.format
           /\ t # <<>>
      BY <2>1, <2>6
    <2>11. m_ring' \in [blocks : Seq(Entry), signature : Format \cup {NoData}, last : Nat]
      BY <1>2, <2>1, <2>6
    <2>12. RingIsPure'
      <3>1. \A k \in DOMAIN t : Pure(t[k].data) /\ t[k].data.format = data.format
        BY <2>7, <2>8
      <3> QED BY <2>10, <3>1 DEF RingIsPure
    <2>13. RingOrdered'
      <3>1. ASSUME NEW i \in DOMAIN t, NEW j \in DOMAIN t, i < j
            PROVE  t[i].generation < t[j].generation /\ t[i].data.id <= t[j].data.id
        <4>1. i + d \in DOMAIN s /\ j + d \in DOMAIN s /\ t[i] = s[i + d] /\ t[j] = s[j + d]
          BY <2>7
        <4>2. i + d < j + d
          BY <2>6, <3>1
        <4> QED BY <2>9, <4>1, <4>2
      <3>2. t[Len(t)].generation = generation
        <4>1. Len(t) \in DOMAIN t /\ Len(t) + d = Len(kept) + 1
          BY <2>5, <2>6, <2>7
        <4> QED BY <2>4, <2>5, <2>7, <4>1
      <3> QED BY <1>1, <2>10, <3>1, <3>2 DEF RingOrdered
    <2>14. \A k \in DOMAIN t : t[k].data.id <= data.id
      BY <2>7, <2>8
    <2> QED BY <2>10, <2>11, <2>12, <2>13, <2>14
  <1> QED BY <1>3, <1>4

LEMMA RunStep ==
  ASSUME DisplayInv, RunTask
  PROVE  DisplayInv' /\ \A n \in Nat : Seen(n) => Seen(n)'
  <1>1. /\ DisplayTypes /\ SeriesAreSound /\ TaskIsKnown /\ OnePass
        /\ task # NoTask
        /\ UNCHANGED <<inputData, m_dataGeneration, m_ringSeconds, m_dataDirty,
                       m_computeInFlight, m_cards, results, display>>
    BY DEF DisplayInv, RunTask
  <1>2. CASE display # "alive"
    <2>1. task' = NoTask /\ UNCHANGED m_ring
      BY <1>2 DEF RunTask, m_shuttingDown
    <2> QED BY <1>1, <1>2, <2>1 DEF DisplayInv, DisplayTypes, SeriesAreSound, RingOrdered,
              RingIsPure, TaskIsKnown, Known, OnePass, TaskOutlived, Seen
  <1>3. CASE display = "alive"
    <2> DEFINE data == task.data
               generation == task.generation
               series == [i \in DOMAIN task.configs |-> SeriesFor(task.configs[i], m_ring', data)]
    <2>1. /\ m_ring' = appendRingBlock(m_ring, task.data, task.seconds, task.generation)
          /\ task' = [task EXCEPT !.stage = "computed", !.series = series]
      BY <1>3 DEF RunTask, m_shuttingDown, computePlotResult
    <2>2. /\ m_ring' \in [blocks : Seq(Entry), signature : Format \cup {NoData}, last : Nat]
          /\ RingOrdered' /\ RingIsPure' /\ m_ring'.blocks # <<>>
          /\ m_ring'.last = generation /\ m_ring'.signature = data.format
          /\ \A k \in DOMAIN m_ring'.blocks : m_ring'.blocks[k].data.id <= data.id
      BY <1>1, <2>1, RingAppended
    <2>3. /\ task \in Task /\ data \in Block /\ generation \in Nat /\ data.id \in Nat
          /\ data.format \in Format /\ task.configs \in Seq(Config)
      BY <1>1, TaskTyped
    <2> DEFINE recorded == UNION {m_ring'.blocks[k].data.raw : k \in DOMAIN m_ring'.blocks}
    <2>4. recorded = {data.format}
      <3>1. \A k \in DOMAIN m_ring'.blocks : m_ring'.blocks[k].data.raw = {data.format}
        BY <2>2 DEF RingIsPure, Pure
      <3>2. 1 \in DOMAIN m_ring'.blocks
        <4>1. m_ring'.blocks \in Seq(Entry)
          BY <2>2
        <4> QED BY <2>2, <4>1
      <3> QED BY <3>1, <3>2
    <2>5. ASSUME NEW i \in DOMAIN task.configs
          PROVE  /\ SeriesFor(task.configs[i], m_ring', data) \in Series
                 /\ Sound(SeriesFor(task.configs[i], m_ring', data))
      <3>1. task.configs[i] \in Config
        BY <2>3
      <3> DEFINE c == task.configs[i]
                 one == [config |-> c, decodedAs |-> data.format, recordedIn |-> recorded]
      <3>2. SeriesFor(c, m_ring', data) \in {one, NoSeries}
        BY DEF SeriesFor
      <3> HIDE DEF c, recorded
      <3>3. c \in Config
        BY <3>1 DEF c
      <3>4. one \in Series /\ Sound(one)
        <4>1. one.recordedIn = recorded /\ one.decodedAs = data.format
          OBVIOUS
        <4>2. one \in Series
          BY <2>3, <2>4, <3>3 DEF Series
        <4> QED BY <2>4, <4>1, <4>2 DEF Sound
      <3>5. NoSeries \in Series /\ Sound(NoSeries)
        BY DEF Series, Sound
      <3> QED BY <3>2, <3>4, <3>5 DEF c
    <2>6. series \in Seq(Series) /\ \A i \in DOMAIN series : Sound(series[i])
      <3>1. DOMAIN task.configs = 1 .. Len(task.configs) /\ Len(task.configs) \in Nat
        BY <2>3
      <3>2. series \in [1 .. Len(task.configs) -> Series]
        BY <2>5, <3>1
      <3>3. \A i \in DOMAIN series : Sound(series[i])
        BY <2>5
      <3> HIDE DEF series
      <3> QED BY <3>1, <3>2, <3>3, Listed
    <2> HIDE DEF series
    <2>7. /\ task' \in Task /\ task'.stage = "computed" /\ task'.series = series
          /\ task'.data = data /\ task'.generation = generation
      BY <2>1, <2>3, <2>6 DEF Task
    <2>8. task' # NoTask
      BY <2>7, StreamAssumption
    <2>9. DisplayTypes'
      BY <1>1, <2>2, <2>7 DEF DisplayTypes
    <2>10. SeriesAreSound'
      BY <1>1, <2>6, <2>7 DEF SeriesAreSound
    <2>11. OnePass' /\ TaskOutlived'
      BY <1>1, <1>3, <2>8 DEF OnePass, TaskOutlived
    <2>12. \A k \in DOMAIN m_ring'.blocks : m_ring'.blocks[k].data.id \in Nat
      <3> DEFINE b == m_ring'.blocks
      <3>1. b \in Seq(Entry)
        BY <2>2
      <3> HIDE DEF b
      <3>2. \A k \in DOMAIN b : b[k] \in Entry
        BY <3>1
      <3>3. \A k \in DOMAIN b : b[k].data.id \in Nat
        BY <3>2 DEF Entry, Block
      <3> QED BY <3>3 DEF b
    <2>13. \A n \in Nat : Seen(n) => Seen(n)'
      <3> TAKE n \in Nat
      <3>1. SUFFICES ASSUME Seen(n) PROVE Seen(n)'
        OBVIOUS
      <3>2. data.id <= n
        BY <1>1, <3>1 DEF Seen
      <3>3. ASSUME NEW k \in DOMAIN m_ring'.blocks PROVE m_ring'.blocks[k].data.id <= n
        <4>1. m_ring'.blocks[k].data.id \in Nat
          BY <2>12
        <4> QED BY <2>2, <2>3, <3>2, <4>1
      <3> QED BY <1>1, <2>7, <3>1, <3>2, <3>3 DEF Seen
    <2>14. TaskIsKnown'
      <3>1. /\ Known(data, generation) /\ generation <= m_dataGeneration
            /\ inputData # NoData => /\ data.id <= inputData.id
                                     /\ generation = m_dataGeneration => data = inputData
        BY <1>1 DEF TaskIsKnown
      <3>2. Known(task.data, task.generation)'
        BY <2>2, <2>3, <2>7, <3>1 DEF Known
      <3>3. ASSUME inputData # NoData
            PROVE  Known(inputData, m_dataGeneration)'
        <4>1. Known(inputData, m_dataGeneration) /\ m_dataGeneration \in Nat /\ inputData.id \in Nat
          BY <1>1, <3>3 DEF TaskIsKnown, DisplayTypes, Block
        <4>2. \A k \in DOMAIN m_ring'.blocks : m_ring'.blocks[k].data.id <= inputData.id
          BY <1>1, <2>2, <2>3, <2>12, <3>1, <3>3, <4>1
        <4> QED BY <1>1, <2>2, <3>1, <3>3, <4>1, <4>2 DEF Known
      <3> QED BY <1>1, <2>7, <3>1, <3>2, <3>3 DEF TaskIsKnown
    <2> QED BY <2>2, <2>9, <2>10, <2>11, <2>13, <2>14 DEF DisplayInv
  <1> QED BY <1>2, <1>3
-----------------------------------------------------------------------------
(* The two ends together.                                                  *)

LEMMA StreamStarts ==
  ASSUME StreamInit
  PROVE  StreamInv
  <1>1. CaptureInv
    <2>1. CaptureTypes
      <3>1. m_DevInfo \in Device \cup {NoDevice} /\ Preferred[m_DevInfo] \in Format
        BY CaptureAssumption DEF StreamInit, CaptureInit
      <3>2. calls \in Seq(Call) /\ signals \in Seq(Block) /\ m_buffer \in Seq(Format)
        BY DEF StreamInit, CaptureInit
      <3>3. /\ m_device = m_DevInfo /\ m_FormatAudio = Preferred[m_DevInfo]
            /\ m_format = m_FormatAudio /\ playButton = FALSE /\ m_connectionCount = 0
            /\ m_lastData = NoData /\ phase = "alive"
            /\ m_running = FALSE /\ m_connected = FALSE /\ m_audioSource = NoSource
            /\ writing = FALSE /\ written = 0
        BY DEF StreamInit, CaptureInit
      <3>4. {playButton, m_running, m_connected, writing} \subseteq BOOLEAN
        BY <3>3
      <3>5. m_connectionCount \in 0 .. 1 /\ written \in Nat
        BY <3>3
      <3> QED BY <3>1, <3>2, <3>3, <3>4, <3>5, Zenon DEF CaptureTypes
    <2>2. Recording /\ Labelled /\ NothingStranded
      BY DEF StreamInit, CaptureInit, Recording, Labelled, Newest, NothingStranded
    <2>3. Pending({"setCaptureEnabled"}) = {} /\ Pending(Button) = {}
      <3>1. DOMAIN calls = {}
        BY DEF StreamInit, CaptureInit
      <3>2. \A N : \A i : i \notin Pending(N)
        BY <3>1 DEF Pending
      <3> QED BY <3>2
    <2>4. GateFollowsEdges /\ ButtonFollowed
      <3>1. ~m_connected /\ m_connected \in BOOLEAN /\ ~m_running /\ m_connectionCount = 0
        BY DEF StreamInit, CaptureInit
      <3>2. m_connected = Edge
        BY <3>1 DEF Edge
      <3> QED BY <2>3, <3>1, <3>2 DEF GateFollowsEdges, ButtonFollowed
    <2> QED BY <2>1, <2>2, <2>4 DEF CaptureInv
  <1>2. DisplayInv /\ Seen(0)
    <2>1. DisplayTypes
      <3>1. m_cards \in Seq(Card) /\ results \in Seq(Seq(Series))
        BY DEF StreamInit, DisplayInit
      <3>2. m_ring \in [blocks : Seq(Entry), signature : Format \cup {NoData}, last : Nat]
        BY DEF StreamInit, DisplayInit, EmptyRing
      <3> QED BY <3>1, <3>2 DEF StreamInit, DisplayInit, DisplayTypes
    <2>2. RingOrdered /\ RingIsPure /\ Seen(0)
      BY DEF StreamInit, DisplayInit, EmptyRing, RingOrdered, RingIsPure, Seen
    <2>3. SeriesAreSound /\ TaskIsKnown /\ TaskOutlived
      BY DEF StreamInit, DisplayInit, SeriesAreSound, TaskIsKnown, TaskOutlived
    <2>4. OnePass
      BY DEF StreamInit, DisplayInit, OnePass
    <2> QED BY <2>1, <2>2, <2>3, <2>4 DEF DisplayInv
  <1>3. NoneIsNewer /\ written <= MaxWrites
    BY <1>2, CaptureAssumption DEF NoneIsNewer, Newest, StreamInit, CaptureInit
  <1> QED BY <1>1, <1>2, <1>3 DEF StreamInv

(* The display takes the source's last block, or loses it.                 *)
LEMMA SeenStep ==
  ASSUME StreamInv, CaptureInv', phase = "alive", Newest' \in Nat, Newest <= Newest',
         \/ setInData(NoData) /\ Newest' = Newest
         \/ setInData(m_lastData') /\ (m_lastData' # NoData => Pure(m_lastData'))
  PROVE  DisplayInv' /\ NoneIsNewer'
  <1>1. Newest \in Nat /\ Seen(Newest) /\ DisplayInv
    BY DEF StreamInv, NoneIsNewer, Newest, CaptureInv, CaptureTypes, Block
  <1>2. PICK n \in Nat : n = Newest
    BY <1>1
  <1>3. PICK m \in Nat : m = Newest'
    OBVIOUS
  <1>4. Seen(n) /\ n <= m
    BY <1>1, <1>2, <1>3
  <1>5. CASE setInData(NoData) /\ Newest' = Newest
    <2>1. DisplayInv' /\ Seen(n)' /\ m = n
      BY <1>1, <1>2, <1>3, <1>4, <1>5, SetInDataStep
    <2> QED BY <1>3, <2>1 DEF NoneIsNewer, Seen
  <1>6. CASE setInData(m_lastData') /\ (m_lastData' # NoData => Pure(m_lastData'))
    <2>1. PICK data \in Block \cup {NoData} : data = m_lastData'
      BY DEF CaptureInv, CaptureTypes
    <2>2. setInData(data) /\ (data # NoData => Pure(data))
      BY <1>6, <2>1 DEF Pure
    <2>3. (data # NoData => m = data.id) /\ (data = NoData => m = 0)
      BY <1>3, <2>1 DEF Newest
    <2>4. data # NoData => n <= data.id
      BY <1>4, <2>3
    <2>5. DisplayInv' /\ Seen(IF data = NoData THEN n ELSE data.id)'
      BY <1>1, <1>4, <2>2, <2>4, SetInDataStep
    <2>6. data = NoData => n = m
      BY <1>4, <2>3
    <2>7. (IF data = NoData THEN n ELSE data.id) = m
      BY <2>3, <2>6
    <2>8. Seen(m)'
      BY <2>5, <2>7
    <2> QED BY <1>3, <2>5, <2>8 DEF NoneIsNewer, Seen
  <1> QED BY <1>5, <1>6

LEMMA CaptureKept ==
  ASSUME CaptureInv, UNCHANGED captureVars
  PROVE  CaptureInv' /\ Newest' = Newest
  <1>1. UNCHANGED <<m_DevInfo, m_FormatAudio, playButton, m_connectionCount, m_lastData, phase,
                    calls, signals, m_running, m_connected, m_device, m_format, m_audioSource,
                    m_buffer, writing, written>>
    BY DEF captureVars, modelVars, workerVars
  <1>2. CaptureTypes' /\ Recording'
    BY <1>1 DEF CaptureInv, CaptureTypes, Recording
  <1>3. Labelled' /\ Newest' = Newest
    BY <1>1 DEF CaptureInv, Labelled, Newest
  <1>4. NothingStranded' /\ GateFollowsEdges' /\ ButtonFollowed'
    BY <1>1 DEF CaptureInv, NothingStranded, GateFollowsEdges, ButtonFollowed, Pending, Edge
  <1> QED BY <1>2, <1>3, <1>4 DEF CaptureInv

LEMMA DisplayKept ==
  ASSUME DisplayInv, UNCHANGED displayVars
  PROVE  DisplayInv' /\ \A n \in Nat : Seen(n) => Seen(n)'
  <1>1. UNCHANGED <<inputData, m_dataGeneration, m_ringSeconds, m_dataDirty,
                    m_computeInFlight, m_cards, m_ring, task, results, display>>
    BY DEF displayVars
  <1>2. DisplayTypes' /\ SeriesAreSound'
    BY <1>1 DEF DisplayInv, DisplayTypes, SeriesAreSound
  <1>3. TaskIsKnown'
    BY <1>1 DEF DisplayInv, TaskIsKnown, Known
  <1>4. RingOrdered' /\ RingIsPure' /\ OnePass' /\ TaskOutlived'
    BY <1>1 DEF DisplayInv, RingOrdered, RingIsPure, OnePass, TaskOutlived
  <1>5. ASSUME NEW n \in Nat, Seen(n) PROVE Seen(n)'
    BY <1>1, <1>5 DEF Seen
  <1> QED BY <1>2, <1>3, <1>4, <1>5 DEF DisplayInv

LEMMA StreamStep ==
  ASSUME StreamInv, StreamNext
  PROVE  StreamInv'
  <1>1. CaptureInv /\ DisplayInv /\ NoneIsNewer /\ written <= MaxWrites
        /\ written \in Nat /\ Newest \in Nat
    BY DEF StreamInv, CaptureInv, CaptureTypes, Newest, Block
  <1>2. ASSUME CaptureInv', written' = written \/ (written' = written + 1 /\ written < MaxWrites)
        PROVE  written' <= MaxWrites
    BY <1>1, <1>2, CaptureAssumption
  <1>3. ASSUME CaptureNext, UNCHANGED displayVars, UNCHANGED m_lastData \/ phase' = "gone",
               phase = "gone" => phase' = "gone",
               written' = written \/ (written' = written + 1 /\ written < MaxWrites)
        PROVE  StreamInv'
    <2>1. CaptureInv'
      BY <1>1, <1>3, CaptureStep
    <2>2. DisplayInv'
      BY <1>1, <1>3, DisplayKept
    <2>3. NoneIsNewer'
      <3>1. CASE phase' = "gone"
        BY <3>1 DEF NoneIsNewer
      <3>2. CASE phase' # "gone"
        <4>1. Seen(Newest) /\ Newest' = Newest
          BY <1>1, <1>3, <3>2 DEF NoneIsNewer, Newest
        <4>2. UNCHANGED <<inputData, task, m_ring>>
          BY <1>3 DEF displayVars
        <4>3. Seen(Newest)'
          BY <4>1, <4>2 DEF Seen
        <4> QED BY <4>3 DEF NoneIsNewer
      <3> QED BY <3>1, <3>2
    <2> QED BY <1>2, <1>3, <2>1, <2>2, <2>3 DEF StreamInv
  <1>4. ASSUME Edit \/ onRefreshTick \/ applyResult \/ DestroyDisplay \/ Pool \/ DisplayDestroyed,
               UNCHANGED captureVars
        PROVE  StreamInv'
    <2>1. CaptureInv' /\ written' = written
      BY <1>1, <1>4, CaptureKept DEF captureVars
    <2>2. DisplayInv' /\ \A n \in Nat : Seen(n) => Seen(n)'
      BY <1>1, <1>4, EditStep, TickStep, ApplyStep, DisplayLeavingStep, RunStep, PostStep DEF Pool
    <2>3. PICK n \in Nat : n = Newest
      BY <1>1
    <2>4. Newest' = n /\ phase' = phase
      BY <1>4, <2>3 DEF captureVars, Newest
    <2>5. NoneIsNewer'
      <3>1. phase' # "gone" => Seen(n)'
        BY <1>1, <2>2, <2>3, <2>4 DEF NoneIsNewer
      <3> QED BY <2>4, <3>1 DEF NoneIsNewer, Seen
    <2> QED BY <1>2, <2>1, <2>2, <2>5 DEF StreamInv
  <1>5. CASE SourceEvent
    <2>1. CaptureNext /\ UNCHANGED displayVars
      BY <1>5 DEF SourceEvent, CaptureNext
    <2>2. UNCHANGED <<m_lastData, phase, written>>
      BY <1>5 DEF SourceEvent, onUiStart, Configure, ABEInitAudioParams, FieldChanged
    <2> QED BY <1>3, <2>1, <2>2
  <1>6. CASE DisplayEvent
    BY <1>4, <1>6 DEF DisplayEvent
  <1>7. CASE Connect
    <2>1. CaptureInv' /\ setInData(m_lastData) /\ phase = "alive"
          /\ UNCHANGED <<m_lastData, written>>
      BY <1>1, <1>7, RequestStep DEF Connect, outputConnectionCreated
    <2>2. Newest' = Newest /\ setInData(m_lastData') /\ (m_lastData' # NoData => Pure(m_lastData'))
      BY <1>1, <2>1 DEF Newest, CaptureInv, Labelled
    <2>3. DisplayInv' /\ NoneIsNewer'
      BY <1>1, <2>1, <2>2, SeenStep
    <2> QED BY <1>1, <2>1, <2>3 DEF StreamInv
  <1>8. CASE Disconnect
    <2>1. CaptureInv' /\ setInData(NoData) /\ phase = "alive"
          /\ UNCHANGED <<m_lastData, written>>
      BY <1>1, <1>8, RequestStep DEF Disconnect, outputConnectionDeleted
    <2>2. Newest' = Newest
      BY <2>1 DEF Newest
    <2>3. DisplayInv' /\ NoneIsNewer'
      BY <1>1, <2>1, <2>2, SeenStep
    <2> QED BY <1>1, <2>1, <2>3 DEF StreamInv
  <1>9. CASE Deliver
    <2>1. /\ CaptureInv' /\ m_lastData' \in Block /\ Pure(m_lastData')
          /\ Newest <= m_lastData'.id /\ Newest' = m_lastData'.id
          /\ phase = "alive" /\ phase' = phase /\ written' = written
      BY <1>1, <1>9, DeliveredStep DEF Deliver, onSamplesReady
    <2>2. Newest' \in Nat /\ Newest <= Newest'
      BY <2>1 DEF Block
    <2>3. DisplayInv' /\ NoneIsNewer'
      <3>1. CASE setInData(m_lastData')
        BY <2>1, <2>2, <3>1, SeenStep
      <3>2. CASE UNCHANGED displayVars
        <4>1. DisplayInv'
          BY <1>1, <3>2, DisplayKept
        <4>2. Seen(Newest)
          BY <1>1, <2>1 DEF NoneIsNewer
        <4>3. /\ inputData # NoData => inputData.id \in Nat
              /\ task # NoTask => task.data.id \in Nat
              /\ \A k \in DOMAIN m_ring.blocks : m_ring.blocks[k].data.id \in Nat
          BY <1>1, RingTyped, TaskTyped DEF DisplayInv, DisplayTypes, Block
        <4>4. UNCHANGED <<inputData, task, m_ring>>
          BY <3>2 DEF displayVars
        <4>5. PICK n \in Nat : n = Newest
          BY <1>1
        <4>6. PICK m \in Nat : m = Newest'
          BY <2>2
        <4>7. Seen(n) /\ n <= m
          BY <2>2, <4>2, <4>5, <4>6
        <4>8. Seen(m)
          BY <4>3, <4>7 DEF Seen
        <4>9. Seen(m)'
          BY <4>4, <4>8 DEF Seen
        <4> QED BY <4>1, <4>6, <4>9 DEF NoneIsNewer, Seen
      <3> QED BY <1>9, <3>1, <3>2 DEF Deliver
    <2> QED BY <1>1, <2>1, <2>3 DEF StreamInv
  <1>10. CASE DeleteSource
    <2>1. CaptureNext /\ UNCHANGED displayVars
      BY <1>10 DEF DeleteSource, CaptureNext
    <2>2. UNCHANGED <<m_lastData, written>> /\ phase = "alive"
      BY <1>10 DEF DeleteSource, DestroyModel
    <2> QED BY <1>3, <2>1, <2>2
  <1>11. CASE DeleteDisplay
    BY <1>4, <1>11 DEF DeleteDisplay
  <1>12. CASE CaptureThreads
    <2>1. CaptureNext /\ UNCHANGED displayVars
      BY <1>12 DEF CaptureThreads, CaptureNext
    <2>2. /\ UNCHANGED m_lastData \/ phase' = "gone"
          /\ phase = "gone" => phase' = "gone"
          /\ written' = written \/ (written' = written + 1 /\ written < MaxWrites)
      BY <1>12 DEF CaptureThreads, Worker, AudioThread, startCapture, stopCapture, SetCaptureEnabled,
                   updateDevice, onReadyRead, ThreadFinished, writeData, readyRead
    <2> QED BY <1>3, <2>1, <2>2
  <1>13. CASE DisplayThreads
    BY <1>4, <1>13 DEF DisplayThreads
  <1> QED BY <1>5, <1>6, <1>7, <1>8, <1>9, <1>10, <1>11, <1>12, <1>13 DEF StreamNext

LEMMA StreamStutter ==
  ASSUME StreamInv, UNCHANGED streamVars
  PROVE  StreamInv'
  <1>1. /\ CaptureInv' /\ Newest' = Newest /\ DisplayInv'
        /\ \A n \in Nat : Seen(n) => Seen(n)'
    BY CaptureKept, DisplayKept DEF StreamInv, streamVars
  <1>2. UNCHANGED <<phase, written>>
    BY DEF streamVars, captureVars
  <1>3. NoneIsNewer'
    <2>1. PICK n \in Nat : n = Newest
      BY DEF StreamInv, CaptureInv, CaptureTypes, Newest, Block
    <2>2. phase' # "gone" => Seen(n)'
      BY <1>1, <1>2, <2>1 DEF StreamInv, NoneIsNewer
    <2> QED BY <1>1, <2>1, <2>2 DEF NoneIsNewer, Seen
  <1> QED BY <1>1, <1>2, <1>3 DEF StreamInv

(* The invariant, for all devices, formats and bounds.                     *)
THEOREM StreamInvariant == StreamSpec => []StreamInv
<1>1. StreamInit => StreamInv
  BY StreamStarts
<1>2. StreamInv /\ [StreamNext]_streamVars => StreamInv'
  BY StreamStep, StreamStutter
<1> QED BY <1>1, <1>2, PTL DEF StreamSpec

-----------------------------------------------------------------------------
(* A block that is twice in the ring came over two edges.                  *)

LEMMA FreshKept ==
  ASSUME Fresh, UNCHANGED <<m_lastData, signals, written>>,
         m_buffer' # <<>> => m_buffer # <<>>
  PROVE  Fresh'
  BY DEF Fresh, Newest

(* Queueing a block takes the bytes, and the next block needs new ones.    *)
LEMMA FreshCapture ==
  ASSUME CaptureInv, Fresh, Worker \/ AudioThread
  PROVE  Fresh'
  <1>1. /\ CaptureTypes /\ Labelled /\ written \in Nat /\ Newest \in Nat
        /\ signals \in Seq(Block) /\ DOMAIN signals = 1 .. Len(signals) /\ Len(signals) \in Nat
    BY DEF CaptureInv, CaptureTypes, Newest, Block
  <1>2. \A i \in DOMAIN signals : signals[i].id \in Nat
    <2>1. \A i \in DOMAIN signals : signals[i] \in Block
      BY <1>1
    <2> QED BY <2>1 DEF Block
  <1>3. CASE startCapture \/ stopCapture \/ SetCaptureEnabled \/ updateDevice
    <2>1. UNCHANGED <<m_lastData, signals, written>> /\ (m_buffer' # <<>> => m_buffer # <<>>)
      BY <1>3 DEF startCapture, stopCapture, SetCaptureEnabled, updateDevice, Start, Stop
    <2> QED BY <2>1, FreshKept
  <1>4. CASE onReadyRead
    <2>1. UNCHANGED <<m_lastData, written>> /\ m_buffer' = <<>>
      BY <1>4 DEF onReadyRead
    <2>2. CASE UNCHANGED signals
      BY <2>1, <2>2, FreshKept
    <2>3. CASE m_buffer # <<>> /\ emitSamplesReady(Range(m_buffer))
      <3> DEFINE b == [id |-> written, raw |-> Range(m_buffer), format |-> m_format]
      <3>1. b.id = written /\ signals' = Append(signals, b)
        BY <2>3 DEF emitSamplesReady
      <3> HIDE DEF b
      <3>2. /\ DOMAIN signals' = 1 .. Len(signals) + 1
            /\ \A i \in 1 .. Len(signals) : signals'[i] = signals[i]
            /\ signals'[Len(signals) + 1] = b
        BY <1>1, <3>1
      <3>3. Newest' = Newest /\ Newest < written /\ \A i \in DOMAIN signals : signals[i].id < written
        BY <2>1, <2>3 DEF Fresh, Newest
      <3>4. \A i \in DOMAIN signals' : Newest < signals'[i].id
        BY <1>1, <3>1, <3>2, <3>3 DEF Fresh
      <3>5. ASSUME NEW i \in DOMAIN signals', NEW j \in DOMAIN signals', i < j
            PROVE  signals'[i].id < signals'[j].id
        <4>1. i \in 1 .. Len(signals)
          BY <1>1, <3>2, <3>5
        <4>2. CASE j \in 1 .. Len(signals)
          BY <1>1, <3>2, <3>5, <4>1, <4>2 DEF Fresh
        <4>3. CASE j = Len(signals) + 1
          BY <1>1, <3>1, <3>2, <3>3, <4>1, <4>3
        <4> QED BY <1>1, <3>2, <4>2, <4>3
      <3> QED BY <2>1, <3>3, <3>4, <3>5 DEF Fresh
    <2> QED BY <1>4, <2>2, <2>3 DEF onReadyRead
  <1>5. CASE ThreadFinished
    <2>1. signals' = <<>> /\ m_buffer' = <<>>
      BY <1>5 DEF ThreadFinished
    <2> QED BY <2>1 DEF Fresh
  <1>6. CASE writeData
    <2>1. UNCHANGED <<m_lastData, signals>> /\ written' = written + 1 /\ Newest' = Newest
      BY <1>6 DEF writeData, Newest
    <2>2. Newest <= written /\ \A i \in DOMAIN signals : signals[i].id <= written
      BY <1>1 DEF Labelled
    <2>3. Newest < written' /\ \A i \in DOMAIN signals : signals[i].id < written'
      BY <1>1, <1>2, <2>1, <2>2
    <2> QED BY <2>1, <2>3 DEF Fresh
  <1>7. CASE readyRead
    <2>1. UNCHANGED <<m_lastData, signals, written, m_buffer>>
      BY <1>7 DEF readyRead
    <2> QED BY <2>1, FreshKept
  <1> QED BY <1>3, <1>4, <1>5, <1>6, <1>7 DEF Worker, AudioThread

LEMMA FreshDelivered ==
  ASSUME CaptureInv, Fresh, onSamplesReady
  PROVE  Fresh' /\ m_lastData' \in Block /\ Newest < m_lastData'.id
  <1>1. /\ signals \in Seq(Block) /\ signals # <<>> /\ Newest \in Nat
        /\ m_lastData' = Head(signals) /\ signals' = Tail(signals)
        /\ UNCHANGED <<m_buffer, written>>
    BY DEF CaptureInv, CaptureTypes, onSamplesReady, Newest, Block
  <1>2. /\ Head(signals) = signals[1] /\ Head(signals) \in Block
        /\ Len(signals) \in Nat \ {0} /\ DOMAIN signals = 1 .. Len(signals)
        /\ DOMAIN signals' = 1 .. Len(signals) - 1
        /\ \A i \in 1 .. Len(signals) - 1 : signals'[i] = signals[i + 1]
    BY <1>1, Taken
  <1>3. 1 \in DOMAIN signals /\ m_lastData' = signals[1] /\ Newest' = signals[1].id
    BY <1>1, <1>2, NoDataAssumption DEF Newest
  <1>4. \A i \in DOMAIN signals' :
          i + 1 \in DOMAIN signals /\ 1 < i + 1 /\ signals'[i] = signals[i + 1]
    BY <1>2
  <1>5. \A i \in DOMAIN signals' : Newest' < signals'[i].id
    BY <1>3, <1>4 DEF Fresh
  <1>6. ASSUME NEW i \in DOMAIN signals', NEW j \in DOMAIN signals', i < j
        PROVE  signals'[i].id < signals'[j].id
    <2>1. i + 1 < j + 1
      BY <1>2, <1>6
    <2> QED BY <1>4, <2>1 DEF Fresh
  <1>7. m_buffer' # <<>> =>
          Newest' < written' /\ \A i \in DOMAIN signals' : signals'[i].id < written'
    BY <1>1, <1>3, <1>4 DEF Fresh
  <1> QED BY <1>1, <1>2, <1>3, <1>5, <1>6, <1>7 DEF Fresh

(* What the ring has after a block was appended: some of what it had, in   *)
(* the same order, and the block at the end.                               *)
LEMMA RingGrown ==
  ASSUME DisplayTypes, task # NoTask,
         m_ring' = appendRingBlock(m_ring, task.data, task.seconds, task.generation)
  PROVE  LET b == m_ring.blocks
             c == m_ring'.blocks
             Is(e) == e.data = task.data /\ e.generation = task.generation
         IN  /\ \A i \in DOMAIN c : Is(c[i]) \/ \E k \in DOMAIN b : c[i] = b[k]
             /\ \A i, j \in DOMAIN c : i < j =>
                  \E k \in DOMAIN b :
                    /\ c[i] = b[k]
                    /\ Is(c[j]) \/ \E l \in DOMAIN b : k < l /\ c[j] = b[l]
  <1> DEFINE b == m_ring.blocks
             c == m_ring'.blocks
             Is(e) == e.data = task.data /\ e.generation = task.generation
             G == /\ \A i \in DOMAIN c : Is(c[i]) \/ \E k \in DOMAIN b : c[i] = b[k]
                  /\ \A i, j \in DOMAIN c : i < j =>
                       \E k \in DOMAIN b :
                         /\ c[i] = b[k]
                         /\ Is(c[j]) \/ \E l \in DOMAIN b : k < l /\ c[j] = b[l]
  <1>1. /\ b \in Seq(Entry) /\ task.data \in Block /\ task.generation \in Nat
        /\ task.seconds \in Nat \ {0}
    BY RingTyped, TaskTyped, DisplayAssumption
  <1>2. CASE task.generation = m_ring.last
    <2>1. c = b
      BY <1>2 DEF appendRingBlock
    <2>2. G
      BY <2>1
    <2> QED BY <2>2
  <1>3. CASE task.generation # m_ring.last
    <2> DEFINE kept == IF task.data.format = m_ring.signature THEN b ELSE <<>>
               entry == [data |-> task.data, generation |-> task.generation]
               s == Append(kept, entry)
               t == LastOnes(task.seconds, s)
               d == Len(s) - Len(t)
    <2>1. c = t
      BY <1>3 DEF appendRingBlock, Signature
    <2>2. entry \in Entry /\ Is(entry)
      BY <1>1 DEF Entry
    <2>3. kept \in Seq(Entry)
      BY <1>1
    <2>4. \A k \in DOMAIN kept : k \in DOMAIN b /\ kept[k] = b[k]
      BY <1>1
    <2> HIDE DEF kept, entry, c, b, Is
    <2>5. /\ s \in Seq(Entry) /\ Len(s) = Len(kept) + 1 /\ Len(kept) \in Nat
          /\ DOMAIN s = 1 .. Len(kept) + 1 /\ DOMAIN kept = 1 .. Len(kept)
          /\ \A i \in 1 .. Len(kept) : s[i] = kept[i]
          /\ s[Len(kept) + 1] = entry
      BY <2>2, <2>3, Appended
    <2> HIDE DEF s
    <2>6. s # <<>>
      BY <2>5
    <2>7. /\ Len(t) \in Nat \ {0} /\ DOMAIN t = 1 .. Len(t) /\ d \in Nat
          /\ \A k \in 1 .. Len(t) : t[k] = s[k + d]
      BY <1>1, <2>5, <2>6, LastOnesKept
    <2>8. Len(s) = Len(t) + d /\ \A k \in DOMAIN t : k + d \in DOMAIN s /\ t[k] = s[k + d]
      BY <2>5, <2>7
    <2> HIDE DEF t, d
    <2>9. \A i \in DOMAIN s : Is(s[i]) \/ (i \in DOMAIN b /\ s[i] = b[i])
      BY <2>2, <2>4, <2>5
    <2>10. \A i \in DOMAIN s : i \in DOMAIN kept \/ i = Len(kept) + 1
      BY <2>5
    <2>11. \A i \in DOMAIN c : Is(c[i]) \/ \E k \in DOMAIN b : c[i] = b[k]
      BY <2>1, <2>8, <2>9
    <2>12. ASSUME NEW i \in DOMAIN c, NEW j \in DOMAIN c, i < j
           PROVE  \E k \in DOMAIN b :
                    /\ c[i] = b[k]
                    /\ Is(c[j]) \/ \E l \in DOMAIN b : k < l /\ c[j] = b[l]
      <3>1. /\ i + d \in DOMAIN s /\ j + d \in DOMAIN s /\ i + d < j + d
            /\ c[i] = s[i + d] /\ c[j] = s[j + d]
        BY <2>1, <2>7, <2>8, <2>12
      <3>2. i + d \in DOMAIN kept
        BY <2>5, <2>10, <3>1
      <3>3. i + d \in DOMAIN b /\ c[i] = b[i + d]
        BY <2>4, <2>5, <3>1, <3>2
      <3> QED BY <2>9, <3>1, <3>3
    <2>13. G
      BY <2>11, <2>12
    <2> QED BY <2>13 DEF b, c, Is
  <1> QED BY <1>2, <1>3

(* A display that keeps its ring, or whose task goes, or that loses its    *)
(* block.                                                                  *)
LEMMA ApartKept ==
  ASSUME BroughtAgain, UNCHANGED <<m_ring, wired>>,
         task' = task \/ task' = NoTask,
         UNCHANGED <<inputData, m_dataGeneration>> \/ inputData' = NoData
  PROVE  BroughtAgain'
  BY DEF BroughtAgain, RingApart, Apart

(* A block with a new identity.                                            *)
LEMMA ApartDelivered ==
  ASSUME DisplayInv, BroughtAgain, NEW data \in Block, setInData(data), UNCHANGED wired,
         NEW n \in Nat, Seen(n), n < data.id
  PROVE  BroughtAgain'
  <1>1. UNCHANGED <<m_ring, task>> /\ inputData' = data
    BY DEF setInData
  <1>2. data.id \in Nat /\ DisplayTypes
    BY DEF Block, DisplayInv
  <1>3. \A k \in DOMAIN m_ring.blocks : m_ring.blocks[k].data.id \in Nat
    BY <1>2, RingTyped
  <1>4. \A k \in DOMAIN m_ring.blocks : m_ring.blocks[k].data.id # data.id
    BY <1>2, <1>3 DEF Seen
  <1>5. task # NoTask => task.data.id # data.id
    BY <1>2, TaskTyped DEF Seen
  <1> QED BY <1>1, <1>4, <1>5 DEF BroughtAgain, RingApart, Apart

(* The source's last block, over a new edge.                               *)
LEMMA ApartWired ==
  ASSUME DisplayInv', BroughtAgain, NEW data \in Block \cup {NoData}, setInData(data),
         IF data = NoData THEN UNCHANGED wired ELSE wired' = wired \cup {m_dataGeneration'}
  PROVE  BroughtAgain'
  <1>1. UNCHANGED <<m_ring, task>> /\ inputData' = data
    BY DEF setInData
  <1>2. wired \subseteq wired'
    OBVIOUS
  <1>3. m_dataGeneration' \in Nat
    BY DEF DisplayInv, DisplayTypes
  <1>4. ASSUME data # NoData, NEW d, NEW g PROVE Apart(d, g, data, m_dataGeneration)'
    BY <1>3, <1>4 DEF Apart
  <1> QED BY <1>1, <1>2, <1>4 DEF BroughtAgain, RingApart, Apart

LEMMA ApartTick ==
  ASSUME DisplayInv, BroughtAgain, onRefreshTick, UNCHANGED wired
  PROVE  BroughtAgain'
  <1>1. /\ inputData # NoData /\ m_dataGeneration \in Nat
        /\ task'.data = inputData /\ task'.generation = m_dataGeneration
        /\ UNCHANGED <<m_ring, inputData, m_dataGeneration>>
    BY DEF onRefreshTick, DisplayInv, DisplayTypes
  <1>2. ~(m_dataGeneration < m_dataGeneration)
    BY <1>1
  <1> QED BY <1>1, <1>2 DEF BroughtAgain, RingApart, Apart

LEMMA ApartRun ==
  ASSUME DisplayInv, BroughtAgain, RunTask, UNCHANGED wired
  PROVE  BroughtAgain'
  <1>1. DisplayTypes /\ task # NoTask /\ UNCHANGED <<inputData, m_dataGeneration>>
    BY DEF DisplayInv, RunTask
  <1>2. CASE display # "alive"
    <2>1. task' = NoTask /\ UNCHANGED m_ring
      BY <1>2 DEF RunTask, m_shuttingDown
    <2> QED BY <1>1, <2>1, ApartKept
  <1>3. CASE display = "alive"
    <2> DEFINE b == m_ring.blocks
               c == m_ring'.blocks
               Is(e) == e.data = task.data /\ e.generation = task.generation
               A(e, f) == Apart(e.data, e.generation, f.data, f.generation)
    <2>1. /\ m_ring' = appendRingBlock(m_ring, task.data, task.seconds, task.generation)
          /\ task'.data = task.data /\ task'.generation = task.generation
      BY <1>1, <1>3, TaskTyped DEF RunTask, m_shuttingDown, Task
    <2>2. /\ \A i \in DOMAIN c : Is(c[i]) \/ \E k \in DOMAIN b : c[i] = b[k]
          /\ \A i, j \in DOMAIN c : i < j =>
               \E k \in DOMAIN b :
                 /\ c[i] = b[k]
                 /\ Is(c[j]) \/ \E l \in DOMAIN b : k < l /\ c[j] = b[l]
      BY <1>1, <2>1, RingGrown
    <2>3. /\ \A k, l \in DOMAIN b : k < l => A(b[k], b[l])
          /\ \A k \in DOMAIN b : A(b[k], task)
      BY <1>1 DEF BroughtAgain, RingApart
    <2>4. \A i, j \in DOMAIN c : i < j => A(c[i], c[j])
      <3> SUFFICES ASSUME NEW i \in DOMAIN c, NEW j \in DOMAIN c, i < j PROVE A(c[i], c[j])
        OBVIOUS
      <3>1. PICK k \in DOMAIN b :
              /\ c[i] = b[k]
              /\ Is(c[j]) \/ \E l \in DOMAIN b : k < l /\ c[j] = b[l]
        BY <2>2
      <3> HIDE DEF b, c
      <3> QED BY <2>3, <3>1
    <2>5. \A i \in DOMAIN c : A(c[i], task)
      <3> TAKE i \in DOMAIN c
      <3>1. ~(task.generation < task.generation)
        BY <1>1, TaskTyped
      <3>2. CASE Is(c[i])
        BY <3>1, <3>2 DEF Apart
      <3>3. CASE \E k \in DOMAIN b : c[i] = b[k]
        BY <2>3, <3>3
      <3> QED BY <2>2, <3>2, <3>3
    <2>6. ASSUME inputData # NoData
          PROVE  /\ \A i \in DOMAIN c :
                      Apart(c[i].data, c[i].generation, inputData, m_dataGeneration)
                 /\ Apart(task.data, task.generation, inputData, m_dataGeneration)
      <3>1. /\ RingApart(inputData, m_dataGeneration)
            /\ Apart(task.data, task.generation, inputData, m_dataGeneration)
        BY <1>1, <2>6 DEF BroughtAgain
      <3> HIDE DEF c
      <3> QED BY <2>2, <3>1 DEF RingApart
    <2> QED BY <1>1, <2>1, <2>4, <2>5, <2>6 DEF BroughtAgain, RingApart, Apart
  <1> QED BY <1>2, <1>3

LEMMA BlocksStep ==
  ASSUME StreamInv, StreamInv', BlocksInv, [StreamNext]_streamVars
  PROVE  BlocksInv'
  <1>1. CaptureInv /\ DisplayInv /\ DisplayInv' /\ Fresh /\ BroughtAgain /\ wired \subseteq Nat
    BY DEF StreamInv, BlocksInv
  <1>2. wired' \subseteq Nat
    <2>1. m_dataGeneration' \in Nat
      BY <1>1 DEF DisplayInv, DisplayTypes
    <2> QED BY <1>1, <2>1 DEF StreamNext, streamVars, SourceEvent, DisplayEvent, Connect, Disconnect,
                Deliver, DeleteSource, DeleteDisplay, CaptureThreads, DisplayThreads
  <1>3. ASSUME UNCHANGED <<displayVars, wired>> PROVE BroughtAgain'
    <2>1. UNCHANGED <<m_ring, task, inputData, m_dataGeneration, wired>>
      BY <1>3 DEF displayVars
    <2> QED BY <1>1, <2>1, ApartKept
  <1>4. ASSUME UNCHANGED <<m_lastData, signals, written, m_buffer>> PROVE Fresh'
    BY <1>1, <1>4, FreshKept
  <1>5. CASE SourceEvent
    BY <1>2, <1>3, <1>4, <1>5 DEF BlocksInv, SourceEvent, onUiStart, Configure, ABEInitAudioParams,
       FieldChanged
  <1>6. CASE DisplayEvent
    <2>1. Fresh' /\ UNCHANGED wired
      BY <1>4, <1>6 DEF DisplayEvent, captureVars
    <2>2. CASE onRefreshTick
      BY <1>1, <2>1, <2>2, ApartTick, <1>2 DEF BlocksInv
    <2>3. CASE Edit \/ applyResult
      <3>1. UNCHANGED <<m_ring, task, inputData, m_dataGeneration>>
        BY <2>3 DEF Edit, applyResult, onAddPlot, removeCardAt, onCardConfigChanged,
                    RingSpinBoxChanged, restore, cardVars
      <3> QED BY <1>1, <1>2, <2>1, <3>1, ApartKept DEF BlocksInv
    <2> QED BY <1>6, <2>2, <2>3 DEF DisplayEvent
  <1>7. CASE Connect
    <2>1. Fresh' /\ m_lastData \in Block \cup {NoData} /\ setInData(m_lastData)
      BY <1>1, <1>4, <1>7 DEF Connect, outputConnectionCreated, CaptureInv, CaptureTypes
    <2>2. IF m_lastData = NoData THEN UNCHANGED wired ELSE wired' = wired \cup {m_dataGeneration'}
      BY <1>7 DEF Connect
    <2>3. BroughtAgain'
      BY <1>1, <2>1, <2>2, ApartWired
    <2> QED BY <1>2, <2>1, <2>3 DEF BlocksInv
  <1>8. CASE Disconnect
    <2>1. Fresh' /\ UNCHANGED wired
      BY <1>4, <1>8 DEF Disconnect, outputConnectionDeleted
    <2>2. UNCHANGED <<m_ring, task>> /\ inputData' = NoData
      BY <1>8 DEF Disconnect, setInData
    <2> QED BY <1>1, <1>2, <2>1, <2>2, ApartKept DEF BlocksInv
  <1>9. CASE Deliver
    <2>1. Fresh' /\ m_lastData' \in Block /\ Newest < m_lastData'.id /\ UNCHANGED wired
      BY <1>1, <1>9, FreshDelivered DEF Deliver
    <2>2. CASE UNCHANGED displayVars
      BY <1>2, <1>3, <2>1, <2>2 DEF BlocksInv
    <2>3. CASE setInData(m_lastData')
      <3>1. Seen(Newest) /\ Newest \in Nat
        BY <1>9 DEF StreamInv, NoneIsNewer, Deliver, onSamplesReady, CaptureInv, CaptureTypes,
                    Newest, Block
      <3>2. PICK n \in Nat : n = Newest
        BY <3>1
      <3>3. PICK data \in Block : data = m_lastData'
        BY <2>1
      <3>4. setInData(data) /\ n < data.id /\ Seen(n)
        BY <2>1, <2>3, <3>1, <3>2, <3>3
      <3>5. BroughtAgain'
        BY <1>1, <2>1, <3>4, ApartDelivered
      <3> QED BY <1>2, <2>1, <3>5 DEF BlocksInv
    <2> QED BY <1>9, <2>2, <2>3 DEF Deliver
  <1>10. CASE DeleteSource
    BY <1>2, <1>3, <1>4, <1>10 DEF BlocksInv, DeleteSource, DestroyModel
  <1>11. CASE DeleteDisplay
    <2>1. Fresh' /\ UNCHANGED wired
      BY <1>4, <1>11 DEF DeleteDisplay, captureVars
    <2>2. UNCHANGED <<m_ring, inputData, m_dataGeneration>> /\ (task' = task \/ task' = NoTask)
      BY <1>11 DEF DeleteDisplay, DestroyDisplay
    <2> QED BY <1>1, <1>2, <2>1, <2>2, ApartKept DEF BlocksInv
  <1>12. CASE CaptureThreads
    BY <1>1, <1>2, <1>3, <1>12, FreshCapture DEF BlocksInv, CaptureThreads
  <1>13. CASE DisplayThreads
    <2>1. Fresh' /\ UNCHANGED wired
      BY <1>4, <1>13 DEF DisplayThreads, captureVars
    <2>2. CASE RunTask
      BY <1>1, <1>2, <2>1, <2>2, ApartRun DEF BlocksInv
    <2>3. CASE PostResult \/ DisplayDestroyed
      <3>1. UNCHANGED <<m_ring, inputData, m_dataGeneration>> /\ (task' = task \/ task' = NoTask)
        BY <2>3 DEF PostResult, DisplayDestroyed
      <3> QED BY <1>1, <1>2, <2>1, <3>1, ApartKept DEF BlocksInv
    <2> QED BY <1>13, <2>2, <2>3 DEF DisplayThreads, Pool
  <1>14. CASE UNCHANGED streamVars
    <2>1. /\ UNCHANGED <<displayVars, wired>>
          /\ UNCHANGED <<m_lastData, signals, written, m_buffer>>
      BY <1>14 DEF streamVars, captureVars
    <2> QED BY <1>2, <1>3, <1>4, <2>1 DEF BlocksInv
  <1> QED BY <1>5, <1>6, <1>7, <1>8, <1>9, <1>10, <1>11, <1>12, <1>13, <1>14 DEF StreamNext

(* Where blocks come from, for all devices, formats and bounds.            *)
THEOREM BlocksInvariant == StreamSpec => []BlocksInv
<1>1. StreamInit => BlocksInv
  BY DEF StreamInit, CaptureInit, DisplayInit, EmptyRing, BlocksInv, Fresh, BroughtAgain, RingApart,
         Newest
<1>2. StreamInv /\ StreamInv' /\ BlocksInv /\ [StreamNext]_streamVars => BlocksInv'
  BY BlocksStep
<1> QED BY <1>1, <1>2, StreamInvariant, PTL DEF StreamSpec

(* The state of both nodes, of their threads and of the queues between     *)
(* them keeps its types.                                                   *)
THEOREM StreamTypes == StreamSpec => []StreamTypeOK
<1>1. StreamInv /\ BlocksInv => StreamTypeOK
  <2> SUFFICES ASSUME StreamInv, BlocksInv PROVE StreamTypeOK
    OBVIOUS
  <2>1. CaptureTypes /\ DisplayTypes /\ written \in 0 .. MaxWrites /\ wired \subseteq Nat
    BY CaptureAssumption DEF StreamInv, CaptureInv, DisplayInv, CaptureTypes, BlocksInv
  <2> QED BY <2>1 DEF StreamTypeOK, CaptureTypes, DisplayTypes
<1> QED BY <1>1, StreamInvariant, BlocksInvariant, PTL

(* Whatever the user does to device, format and edge, what is drawn was    *)
(* recorded in the format it is decoded as, the worker's gate follows the  *)
(* edges, no bytes are stranded, and a capture goes on only as asked.      *)
THEOREM CaptureStaysSound == StreamSpec => []CaptureIsSound
<1>1. StreamInv => CaptureIsSound
  <2> SUFFICES ASSUME StreamInv PROVE CaptureIsSound
    OBVIOUS
  <2>1. DecodedAsRecorded
    BY DEF StreamInv, DisplayInv, SeriesAreSound, Sound, DecodedAsRecorded
  <2>2. RunsAsAsked
    <3>1. ASSUME phase = "alive", m_running, ~playButton
          PROVE  Pending({"stopCapture"}) # {}
      <4>1. PICK i \in Pending(Button) : ~(calls[i].name = "startCapture")
        BY <3>1 DEF StreamInv, CaptureInv, ButtonFollowed
      <4> QED BY <4>1 DEF Pending, Button
    <3> QED BY <3>1 DEF RunsAsAsked
  <2> QED BY <2>1, <2>2 DEF StreamInv, CaptureInv, CaptureIsSound
<1> QED BY <1>1, StreamInvariant, PTL

(* The display's one compute pass at a time never outlives the node; its   *)
(* ring has the blocks in the order in which they were recorded, and has   *)
(* one of them twice only if a new edge brought it a second time.          *)
THEOREM DisplayStaysSound == StreamSpec => []DisplayIsSound
<1>1. StreamInv /\ BlocksInv => RingInOrder
  <2> SUFFICES ASSUME StreamInv, BlocksInv PROVE RingInOrder
    OBVIOUS
  <2>1. RingOrdered /\ BroughtAgain
    BY DEF StreamInv, DisplayInv, BlocksInv
  <2> QED BY <2>1 DEF RingOrdered, BroughtAgain, Apart, RingInOrder
<1>2. StreamInv => OnePass /\ TaskOutlived
  BY DEF StreamInv, DisplayInv
<1> QED BY <1>1, <1>2, StreamInvariant, BlocksInvariant, PTL DEF DisplayIsSound
=============================================================================
