----------------------------- MODULE DaqDisplay -----------------------------
(***************************************************************************)
(* DaqDisplayNode: plot cards in the GUI thread, and one compute task at a *)
(* time in a thread pool of its own.  A 30 Hz timer submits the latest     *)
(* block with a copy of the cards' configurations; the task appends the    *)
(* block to the ring, which only it touches, builds one series per card    *)
(* and posts them to the GUI thread, which shows the i-th series on the    *)
(* i-th card.                                                              *)
(*                                                                         *)
(* A series is modelled by the configuration it was built for and by the   *)
(* formats its samples were recorded in and decoded as.                    *)
(***************************************************************************)
EXTENDS SampledData, Sequences, SequencesExt

CONSTANTS
  Channels,            \* the number of channels of each format
  Expected,            \* expectedBufferSeconds of each format, 0 if not given
  Processing,          \* time domain, spectrum
  Seconds,             \* durations of the ring (a block lasts one second)
  NoTask, NoSeries,
  MaxCards             \* bound: plot cards

ASSUME DisplayAssumption ==
  /\ Channels \in [Format -> Nat \ {0}]
  /\ Expected \in [Format -> Seconds \cup {0}]
  /\ Seconds \subseteq Nat \ {0}
  /\ "time" \in Processing
  /\ MaxCards \in Nat

Config == [processing : Processing, channel : Nat]

(* The worker's ring: the formats and generations of the blocks whose      *)
(* samples it still holds, oldest first, and its descriptor signature.     *)
EmptyRing == [blocks |-> <<>>, signature |-> NoData, last |-> 0]

VARIABLES
  inputData,           \* m_lastData of the display
  m_dataGeneration,
  m_ringSeconds,
  m_dataDirty,
  m_computeInFlight,
  m_cards,             \* per card its configuration and what it shows
  m_ring,
  task,                \* the task in the pool
  results,             \* onComputeDone posted to the bridge
  display              \* "alive", "closing" (in the destructor), "gone"

displayVars == <<inputData, m_dataGeneration, m_ringSeconds, m_dataDirty,
                 m_computeInFlight, m_cards, m_ring, task, results, display>>

DisplayInit ==
  /\ inputData = NoData /\ m_dataGeneration = 0
  /\ m_ringSeconds \in Seconds
  /\ m_dataDirty = FALSE /\ m_computeInFlight = FALSE
  /\ m_cards = <<>> /\ m_ring = EmptyRing
  /\ task = NoTask /\ results = <<>> /\ display = "alive"

m_shuttingDown == display # "alive"
-----------------------------------------------------------------------------
(* The GUI thread.                                                         *)

Bound(channel, format) ==
  IF channel < Channels[format] THEN channel ELSE Channels[format] - 1

(* refresh(): every card's channel is bounded by the new descriptor.       *)
Refreshed(cards, data) ==
  [i \in DOMAIN cards |->
     [cards[i] EXCEPT !.config.channel = Bound(@, data.format),
                      !.offered = Channels[data.format]]]

(* A block that is not the one held already gets a new generation.         *)
Generation(data) ==
  IF data # NoData /\ data # inputData THEN m_dataGeneration + 1
                                       ELSE m_dataGeneration

Recommended(data) ==
  IF Expected[data.format] > 0 THEN Expected[data.format] ELSE m_ringSeconds

setInData(data) ==
  /\ display = "alive"
  /\ m_dataGeneration' = Generation(data)
  /\ inputData' = data
  /\ IF data = NoData
     THEN UNCHANGED <<m_ringSeconds, m_cards, m_dataDirty>>
     ELSE /\ m_ringSeconds' = Recommended(data)
          /\ m_cards' = Refreshed(m_cards, data)
          /\ m_dataDirty' = TRUE
  /\ UNCHANGED <<m_computeInFlight, m_ring, task, results, display>>

(* offered: the number of channels in the card's combo box.                *)
NewCard(config) ==
  LET card == <<[config |-> config, offered |-> 0, series |-> NoSeries]>>
  IN  IF inputData = NoData THEN card[1] ELSE Refreshed(card, inputData)[1]

cardVars == <<inputData, m_dataGeneration, m_computeInFlight, m_ring, task,
              results, display>>

onAddPlot ==
  /\ display = "alive" /\ Len(m_cards) < MaxCards
  /\ m_cards' = Append(m_cards, NewCard([processing |-> "time", channel |-> 0]))
  /\ m_dataDirty' = (m_dataDirty \/ inputData # NoData)
  /\ UNCHANGED <<cardVars, m_ringSeconds>>

removeCardAt(i) ==
  /\ display = "alive" /\ i \in DOMAIN m_cards
  /\ m_cards' = RemoveAt(m_cards, i)
  /\ UNCHANGED <<cardVars, m_ringSeconds, m_dataDirty>>

(* An empty combo box selects channel 0.                                   *)
onCardConfigChanged(i, config) ==
  /\ display = "alive" /\ i \in DOMAIN m_cards
  /\ config.channel < m_cards[i].offered \/ config.channel = 0
  /\ m_cards' = [m_cards EXCEPT ![i].config = config]
  /\ m_dataDirty' = TRUE
  /\ UNCHANGED <<cardVars, m_ringSeconds>>

RingSpinBoxChanged(seconds) ==
  /\ display = "alive"
  /\ m_ringSeconds' = seconds
  /\ UNCHANGED <<cardVars, m_cards, m_dataDirty>>

(* Loading a scene replaces all cards.                                     *)
restore(configs, seconds) ==
  /\ display = "alive"
  /\ m_ringSeconds' = seconds
  /\ m_cards' = [i \in DOMAIN configs |-> NewCard(configs[i])]
  /\ m_dataDirty' = (m_dataDirty \/ (inputData # NoData /\ configs # <<>>))
  /\ UNCHANGED cardVars

onRefreshTick ==
  /\ display = "alive"
  /\ m_dataDirty /\ ~m_computeInFlight /\ inputData # NoData
  /\ m_dataDirty' = FALSE /\ m_computeInFlight' = TRUE
  /\ task' = [stage |-> "queued", data |-> inputData, generation |-> m_dataGeneration,
              seconds |-> m_ringSeconds,
              configs |-> [i \in DOMAIN m_cards |-> m_cards[i].config],
              series |-> <<>>]
  /\ UNCHANGED <<inputData, m_dataGeneration, m_ringSeconds, m_cards, m_ring,
                 results, display>>

(* Returns early when there is nothing to show.                            *)
applyResultMut ==
  /\ display = "alive" /\ results # <<>>
  /\ m_cards' = [i \in DOMAIN m_cards |->
                   IF i \in DOMAIN Head(results)
                   THEN [m_cards[i] EXCEPT !.series = Head(results)[i]]
                   ELSE m_cards[i]]
  /\ results' = Tail(results)
  /\ m_computeInFlight' = (m_cards = <<>>)
  /\ UNCHANGED <<inputData, m_dataGeneration, m_ringSeconds, m_dataDirty,
                 m_ring, task, display>>

(* onComputeDone on the bridge: the i-th series goes to the i-th card.     *)
applyResult ==
  /\ display = "alive" /\ results # <<>>
  /\ m_cards' = [i \in DOMAIN m_cards |->
                   IF i \in DOMAIN Head(results)
                   THEN [m_cards[i] EXCEPT !.series = Head(results)[i]]
                   ELSE m_cards[i]]
  /\ results' = Tail(results)
  /\ m_computeInFlight' = FALSE
  /\ UNCHANGED <<inputData, m_dataGeneration, m_ringSeconds, m_dataDirty,
                 m_ring, task, display>>

(* The destructor: the timer stops, m_shuttingDown is set, and a task that *)
(* has not begun is taken from the pool.                                   *)
DestroyDisplay ==
  /\ display = "alive"
  /\ display' = "closing"
  /\ task' = IF task # NoTask /\ task.stage = "queued" THEN NoTask ELSE task
  /\ UNCHANGED <<inputData, m_dataGeneration, m_ringSeconds, m_dataDirty,
                 m_computeInFlight, m_cards, m_ring, results>>

(* waitForDone(500) may give up, the destructor of the pool does not; then *)
(* the bridge goes, and with it what was posted to it.                     *)
DisplayDestroyed ==
  /\ display = "closing" /\ task = NoTask
  /\ display' = "gone"
  /\ results' = <<>>
  /\ UNCHANGED <<inputData, m_dataGeneration, m_ringSeconds, m_dataDirty,
                 m_computeInFlight, m_cards, m_ring, task>>
-----------------------------------------------------------------------------
(* The pool's thread.                                                      *)

(* The fields of the descriptor that formatChanged compares.               *)
Signature(format) == format

LastOnes(n, s) == IF Len(s) <= n THEN s ELSE SubSeq(s, Len(s) - n + 1, Len(s))

(* Appends again what a changed card submits again.                        *)
appendRingBlockMut(ring, data, seconds, generation) ==
  LET kept == IF Signature(data.format) = ring.signature THEN ring.blocks ELSE <<>>
      entry == [data |-> data, generation |-> generation]
  IN  [blocks    |-> LastOnes(seconds, Append(kept, entry)),
       signature |-> Signature(data.format),
       last      |-> generation]

(* A block whose generation was appended already is not appended again; a  *)
(* change of format empties the ring; the oldest samples make room.        *)
appendRingBlock(ring, data, seconds, generation) ==
  IF generation = ring.last THEN ring
  ELSE LET kept == IF Signature(data.format) = ring.signature THEN ring.blocks ELSE <<>>
           entry == [data |-> data, generation |-> generation]
       IN  [blocks    |-> LastOnes(seconds, Append(kept, entry)),
            signature |-> Signature(data.format),
            last      |-> generation]

(* One series per configuration; a channel that the ring does not have     *)
(* gives an empty one.  The ring is decoded with the task's descriptor,    *)
(* its bytes having been recorded in some formats.                         *)
SeriesFor(config, ring, data) ==
  IF config.channel < Channels[data.format]
  THEN [config |-> config, decodedAs |-> data.format,
        recordedIn |-> UNION {ring.blocks[k].data.raw : k \in DOMAIN ring.blocks}]
  ELSE NoSeries

computePlotResult(t, ring) ==
  [i \in DOMAIN t.configs |-> SeriesFor(t.configs[i], ring, t.data)]

(* run() up to its second look at m_shuttingDown.                          *)
RunTask ==
  /\ task # NoTask /\ task.stage = "queued"
  /\ IF m_shuttingDown
     THEN task' = NoTask /\ UNCHANGED m_ring
     ELSE /\ m_ring' = appendRingBlock(m_ring, task.data, task.seconds, task.generation)
          /\ task' = [task EXCEPT !.stage = "computed",
                                  !.series = computePlotResult(task, m_ring')]
  /\ UNCHANGED <<inputData, m_dataGeneration, m_ringSeconds, m_dataDirty,
                 m_computeInFlight, m_cards, results, display>>

PostResult ==
  /\ task # NoTask /\ task.stage = "computed"
  /\ task' = NoTask
  /\ results' = IF m_shuttingDown THEN results ELSE Append(results, task.series)
  /\ UNCHANGED <<inputData, m_dataGeneration, m_ringSeconds, m_dataDirty,
                 m_computeInFlight, m_cards, m_ring, display>>
-----------------------------------------------------------------------------
Pool == RunTask \/ PostResult

Edit ==
  \/ onAddPlot
  \/ \E i \in 1 .. MaxCards : removeCardAt(i)
  \/ \E i \in DOMAIN m_cards, p \in Processing :
       \E c \in 0 .. m_cards[i].offered :
         onCardConfigChanged(i, [processing |-> p, channel |-> c])
  \/ \E seconds \in Seconds : RingSpinBoxChanged(seconds)
  \/ \E n \in 0 .. MaxCards, seconds \in Seconds :
       restore([i \in 1 .. n |-> [processing |-> "time", channel |-> 0]], seconds)
=============================================================================
