---------------------------- MODULE SampledStream ----------------------------
(***************************************************************************)
(* An audio source and a DAQ display in one scene, with an edge between    *)
(* them that the user makes and removes.  QtNodes runs in the GUI thread:  *)
(* a new edge gives the display the source's last block, a removed one a   *)
(* null pointer, and dataUpdated runs setInData on the other end.  A node  *)
(* loses its edge before it is deleted; its destructor blocks the GUI.     *)
(***************************************************************************)
EXTENDS AudioCapture, DaqDisplay

CONSTANT MaxWirings      \* bound: new edges to a source that has a block

VARIABLE wired           \* history: the generations that came with a new edge

streamVars == <<captureVars, displayVars, wired>>

GuiFree == phase # "quit" /\ display # "closing"
Edge    == m_connectionCount = 1

StreamInit == CaptureInit /\ DisplayInit /\ wired = {}

SourceEvent == GuiFree /\ (onUiStart \/ Configure)
                       /\ UNCHANGED <<displayVars, wired>>

DisplayEvent == GuiFree /\ (Edit \/ onRefreshTick \/ applyResult)
                        /\ UNCHANGED <<captureVars, wired>>

(* The display takes the source's last block as a new one, although it may *)
(* have had it through an edge of before.                                  *)
Connect == /\ GuiFree
           /\ outputConnectionCreated
           /\ setInData(m_lastData)
           /\ IF m_lastData = NoData
              THEN UNCHANGED wired
              ELSE /\ Cardinality(wired) < MaxWirings
                   /\ wired' = wired \cup {m_dataGeneration'}

Disconnect == GuiFree /\ outputConnectionDeleted /\ setInData(NoData)
                      /\ UNCHANGED wired

Deliver == /\ GuiFree
           /\ onSamplesReady
           /\ IF Edge THEN setInData(m_lastData') ELSE UNCHANGED displayVars
           /\ UNCHANGED wired

DeleteSource  == GuiFree /\ ~Edge /\ DestroyModel /\ UNCHANGED <<displayVars, wired>>
DeleteDisplay == GuiFree /\ ~Edge /\ DestroyDisplay /\ UNCHANGED <<captureVars, wired>>

CaptureThreads == (Worker \/ AudioThread) /\ UNCHANGED <<displayVars, wired>>
DisplayThreads == (Pool \/ DisplayDestroyed) /\ UNCHANGED <<captureVars, wired>>

StreamNext == \/ SourceEvent \/ DisplayEvent
              \/ Connect \/ Disconnect \/ Deliver
              \/ DeleteSource \/ DeleteDisplay
              \/ CaptureThreads \/ DisplayThreads

StreamSpec == StreamInit /\ [][StreamNext]_streamVars

(* The event loops of the GUI and of the worker run what is posted, the    *)
(* timer fires, the pool runs its task and an audio thread that has        *)
(* written signals it.  stop() keeps the audio thread from writing again,  *)
(* hence the strong fairness of the worker.                                *)
StreamFairness ==
  /\ WF_streamVars(Deliver)
  /\ WF_streamVars(GuiFree /\ onRefreshTick /\ UNCHANGED <<captureVars, wired>>)
  /\ WF_streamVars(GuiFree /\ applyResult /\ UNCHANGED <<captureVars, wired>>)
  /\ WF_streamVars(DisplayThreads)
  /\ WF_streamVars(readyRead /\ UNCHANGED <<displayVars, wired>>)
  /\ SF_streamVars(Worker /\ UNCHANGED <<displayVars, wired>>)

StreamFairSpec == StreamSpec /\ StreamFairness
-----------------------------------------------------------------------------
Entry  == [data : Block, generation : Nat]
Series == [config : Config, decodedAs : Format, recordedIn : SUBSET Format] \cup {NoSeries}
Card   == [config : Config, offered : Nat, series : Series]
Task   == [stage : {"queued", "computed"}, data : Block, generation : Nat,
           seconds : Seconds, configs : Seq(Config), series : Seq(Series)]

ASSUME StreamAssumption == NoTask \notin Task

StreamTypeOK ==
  /\ m_DevInfo \in Device \cup {NoDevice} /\ m_device \in Device \cup {NoDevice}
  /\ {m_FormatAudio, m_format} \subseteq Format
  /\ {playButton, m_running, m_connected, writing} \subseteq BOOLEAN
  /\ m_connectionCount \in 0 .. 1 /\ written \in 0 .. MaxWrites
  /\ m_lastData \in Block \cup {NoData}
  /\ phase \in {"alive", "quit", "gone"}
  /\ calls \in Seq(Call) /\ signals \in Seq(Block)
  /\ m_audioSource \in Format \cup {NoSource}
  /\ m_buffer \in Seq(Format)
  /\ inputData \in Block \cup {NoData} /\ m_dataGeneration \in Nat
  /\ m_ringSeconds \in Seconds
  /\ {m_dataDirty, m_computeInFlight} \subseteq BOOLEAN
  /\ m_cards \in Seq(Card)
  /\ m_ring \in [blocks : Seq(Entry), signature : Format \cup {NoData}, last : Nat]
  /\ task \in Task \cup {NoTask}
  /\ results \in Seq(Seq(Series))
  /\ display \in {"alive", "closing", "gone"}
  /\ wired \subseteq Nat

Pending(names) == {i \in DOMAIN calls : calls[i].name \in names}

(* What is drawn was recorded in the format it is decoded as, whatever the *)
(* user did to device, format and edge between the recording, the wrapping *)
(* and the drawing (onReadyRead labels with the current m_format, the task *)
(* decodes the ring with the descriptor of the newest block).              *)
DecodedAsRecorded ==
  \A i \in DOMAIN m_cards :
    LET s == m_cards[i].series
    IN  s # NoSeries => s.recordedIn = {s.decodedAs}

(* The gate of the worker follows the number of edges: the last request on *)
(* its way to it, or the gate itself, says what the count says.            *)
GateFollowsEdges ==
  phase = "alive" =>
    LET gates == Pending({"setCaptureEnabled"})
    IN  IF gates = {} THEN m_connected = Edge
        ELSE \E i \in gates : /\ \A j \in gates : j <= i
                              /\ calls[i].enabled = Edge

(* Bytes in the device are never left there without a readyRead that the   *)
(* worker has still to handle, although stop and start clear the device    *)
(* and leave the signals of before in the queue.                           *)
NothingStranded ==
  m_buffer # <<>> => writing \/ Pending({"onReadyRead"}) # {}

(* A capture that goes on although the play button is up is about to be    *)
(* stopped: no restart for a new device gets past the stop.                *)
RunsAsAsked ==
  phase = "alive" /\ m_running /\ ~playButton => Pending({"stopCapture"}) # {}

(* The ring has the blocks in the order in which the source made them and  *)
(* the newest is the last one appended.  appendRingBlock says that a block *)
(* "must not be appended twice": it is, when a new edge brings the last    *)
(* block again, and only then.  What the cards or a repeated tick submit   *)
(* again is appended once.                                                 *)
RingInOrder ==
  LET b == m_ring.blocks
  IN  /\ \A i, j \in DOMAIN b : i < j =>
           /\ b[i].generation < b[j].generation /\ b[i].data.id <= b[j].data.id
           /\ b[i].data.id = b[j].data.id =>
                \E g \in wired : b[i].generation < g /\ g <= b[j].generation
      /\ b # <<>> => b[Len(b)].generation = m_ring.last
      /\ m_ring.last <= m_dataGeneration

(* There is one compute pass at a time, from its submission to its         *)
(* repaint, and the flag of the GUI thread knows: the ring needs no mutex. *)
OnePass ==
  display = "alive" =>
    /\ m_computeInFlight <=> (task # NoTask \/ results # <<>>)
    /\ Len(results) <= 1 /\ (task # NoTask => results = <<>>)

(* A task never runs on a node that has been deleted.                      *)
TaskOutlived == display = "gone" => task = NoTask

(* A block that arrives is drawn, or superseded: the flag that keeps the   *)
(* timer from submitting comes down again after every pass.                *)
DisplayKeepsUp ==
  m_dataDirty ~> (~m_dataDirty \/ inputData = NoData \/ display # "alive")

(* Raising the play button stops the capture, whatever is queued before.   *)
StopStops ==
  (phase = "alive" /\ ~playButton) ~> (playButton \/ ~m_running \/ phase # "alive")

(* The capture: its samples, its gate, its buffer and its device.          *)
CaptureIsSound == DecodedAsRecorded /\ GateFollowsEdges /\ NothingStranded /\ RunsAsAsked

(* The display: its ring, its cards and the task that computes them.       *)
DisplayIsSound == RingInOrder /\ OnePass /\ TaskOutlived
=============================================================================
