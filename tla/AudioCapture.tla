---------------------------- MODULE AudioCapture ----------------------------
(***************************************************************************)
(* The AudioSource node: AudioSourceDataModel and its widgets in the GUI   *)
(* thread, MicCaptureWorker in a thread of its own, and the audio thread   *)
(* of the system, which writes into the worker's CaptureDevice.            *)
(*                                                                         *)
(* The GUI reaches the worker by queued calls, in order, and so does the   *)
(* audio thread's readyRead; the worker reaches the GUI by the queued      *)
(* signal samplesReady.  One call from a queue is one action.  A write of  *)
(* the audio thread is two: the bytes under the mutex, then the signal.    *)
(***************************************************************************)
EXTENDS SampledData, Sequences, Functions, FiniteSets

CONSTANTS
  Device, NoDevice,    \* the audio inputs; QAudioDeviceInfo::isNull
  Offered,             \* what each device lists for each field, in order
  Supported,           \* the formats that QAudioDeviceInfo::isFormatSupported
  Preferred,           \* the preferred format of each device, and of none
  NoSource,            \* no QAudioSource
  MaxCalls,            \* bound: the GUI's calls in the worker's queue
  MaxWrites            \* bound: writes of the audio thread

ASSUME CaptureAssumption ==
  /\ NoDevice \notin Device
  /\ Offered \in [Device -> [Field -> Seq(Value)]]
  /\ Supported \in [Device -> SUBSET Format]
  /\ Preferred \in [Device \cup {NoDevice} -> Format]
  /\ {MaxCalls, MaxWrites} \subseteq Nat
  /\ NoSource \notin Format

(* What may be queued for the worker.                                      *)
Call == [name : {"startCapture", "stopCapture", "onReadyRead"}]
        \cup [name : {"setCaptureEnabled"}, enabled : BOOLEAN]
        \cup [name : {"updateDevice"}, device : Device, format : Format]

Plain(c) == [name |-> c]

VARIABLES
  m_DevInfo, m_FormatAudio,       \* the model's, shared with its dialog
  playButton,                     \* is the play button checked?
  m_connectionCount,
  m_lastData,
  phase,                          \* "quit": the GUI waits in ~AudioSourceDataModel
  calls,                          \* the worker thread's event queue
  signals,                        \* samplesReady on their way to the GUI
  m_running, m_connected, m_device, m_format,      \* the worker's
  m_audioSource,                  \* the format it records in, or NoSource
  m_buffer,                       \* CaptureDevice: one format per write
  writing,                        \* the audio thread owes a readyRead
  written                         \* history: writes of the audio thread

modelVars  == <<m_DevInfo, m_FormatAudio, playButton, m_connectionCount>>
workerVars == <<m_running, m_connected, m_device, m_format, m_audioSource>>
captureVars == <<modelVars, m_lastData, phase, calls, signals, workerVars,
                 m_buffer, writing, written>>

CaptureInit ==
  /\ m_DevInfo \in Device \cup {NoDevice}
  /\ m_device = m_DevInfo
  /\ m_FormatAudio = Preferred[m_DevInfo]
  /\ m_format = m_FormatAudio
  /\ playButton = FALSE /\ m_connectionCount = 0
  /\ m_lastData = NoData /\ phase = "alive"
  /\ calls = <<>> /\ signals = <<>>
  /\ m_running = FALSE /\ m_connected = FALSE
  /\ m_audioSource = NoSource
  /\ m_buffer = <<>> /\ writing = FALSE /\ written = 0
-----------------------------------------------------------------------------
(* The GUI thread.                                                         *)

Requests == {i \in DOMAIN calls : calls[i].name # "onReadyRead"}

Invoke(call) == /\ Cardinality(Requests) < MaxCalls
                /\ calls' = Append(calls, call)

(* Forgets that the button stops as well.                                  *)
onUiStartMut ==
  /\ phase = "alive"
  /\ playButton' = ~playButton
  /\ Invoke(Plain("startCapture"))
  /\ UNCHANGED <<m_DevInfo, m_FormatAudio, m_connectionCount, m_lastData,
                 phase, signals, workerVars, m_buffer, writing, written>>

(* The play button toggles and the model forwards its state.               *)
onUiStart ==
  /\ phase = "alive"
  /\ playButton' = ~playButton
  /\ Invoke(Plain(IF playButton' THEN "startCapture" ELSE "stopCapture"))
  /\ UNCHANGED <<m_DevInfo, m_FormatAudio, m_connectionCount, m_lastData,
                 phase, signals, workerVars, m_buffer, writing, written>>

ChangeAudioConnection ==
  Invoke([name |-> "updateDevice", device |-> m_DevInfo', format |-> m_FormatAudio'])

(* Every combo box keeps the current value of its field when the device    *)
(* offers it and falls back to the first one it offers.                    *)
Adapted(device, format) ==
  [fl \in Field |->
     LET offered == Offered[device][fl]
     IN  IF offered = <<>> \/ format[fl] \in Range(offered)
         THEN format[fl] ELSE Head(offered)]

(* Showing the dialog selects the current device, which has the same       *)
(* effect as choosing it again.  Without any device there is no dialog.    *)
ABEInitAudioParams(device) ==
  /\ phase = "alive" /\ m_DevInfo # NoDevice
  /\ m_DevInfo' = device
  /\ m_FormatAudio' = Adapted(device, m_FormatAudio)
  /\ ChangeAudioConnection
  /\ UNCHANGED <<playButton, m_connectionCount, m_lastData, phase, signals,
                 workerVars, m_buffer, writing, written>>

(* ChannelNumberChanged, CodecChanged and so on, one slot per field.       *)
FieldChanged(fl, value) ==
  /\ phase = "alive" /\ m_DevInfo # NoDevice
  /\ value \in Range(Offered[m_DevInfo][fl]) /\ value # m_FormatAudio[fl]
  /\ m_FormatAudio' = [m_FormatAudio EXCEPT ![fl] = value]
  /\ m_DevInfo' = m_DevInfo
  /\ ChangeAudioConnection
  /\ UNCHANGED <<playButton, m_connectionCount, m_lastData, phase, signals,
                 workerVars, m_buffer, writing, written>>

setCaptureEnabled(enabled) ==
  Invoke([name |-> "setCaptureEnabled", enabled |-> enabled])

(* The port takes one connection (ConnectionPolicy::One).                  *)
outputConnectionCreated ==
  /\ phase = "alive" /\ m_connectionCount = 0
  /\ m_connectionCount' = m_connectionCount + 1
  /\ setCaptureEnabled(m_connectionCount' > 0)
  /\ UNCHANGED <<m_DevInfo, m_FormatAudio, playButton, m_lastData, phase,
                 signals, workerVars, m_buffer, writing, written>>

outputConnectionDeleted ==
  /\ phase = "alive" /\ m_connectionCount > 0
  /\ m_connectionCount' = m_connectionCount - 1
  /\ setCaptureEnabled(m_connectionCount' > 0)
  /\ UNCHANGED <<m_DevInfo, m_FormatAudio, playButton, m_lastData, phase,
                 signals, workerVars, m_buffer, writing, written>>

onSamplesReady ==
  /\ phase = "alive" /\ signals # <<>>
  /\ m_lastData' = Head(signals)
  /\ signals' = Tail(signals)
  /\ UNCHANGED <<modelVars, phase, calls, workerVars, m_buffer, writing, written>>

(* The destructor asks the thread to quit and waits for it.                *)
DestroyModel ==
  /\ phase = "alive"
  /\ phase' = "quit"
  /\ UNCHANGED <<modelVars, m_lastData, calls, signals, workerVars, m_buffer,
                 writing, written>>
-----------------------------------------------------------------------------
(* The worker thread: one queued call after the other.  While it waits to  *)
(* quit it may still take calls that were queued before.                   *)

Handles(name) == /\ phase # "gone"
                 /\ calls # <<>> /\ Head(calls).name = name
                 /\ calls' = Tail(calls)

(* What a capture that starts on this device with this format leads to.    *)
Usable(device, format) ==
  IF format \in Supported[device] THEN format ELSE Preferred[device]

(* The body of startCapture: nothing without a device, otherwise a source  *)
(* that records or, when it fails to start, none.                          *)
Start(device, format) ==
  IF device = NoDevice
  THEN /\ m_format' = format
       /\ UNCHANGED <<m_audioSource, m_running, m_buffer>>
  ELSE /\ m_format' = Usable(device, format)
       /\ m_buffer' = <<>>
       /\ \/ m_audioSource' = m_format' /\ m_running' = TRUE
          \/ m_audioSource' = NoSource  /\ m_running' = FALSE

startCapture ==
  /\ Handles("startCapture")
  /\ IF m_running THEN UNCHANGED <<m_format, m_audioSource, m_running, m_buffer>>
                  ELSE Start(m_device, m_format)
  /\ UNCHANGED <<modelVars, m_lastData, phase, signals, m_connected, m_device,
                 writing, written>>

(* QAudioSource::stop() returns when its thread is outside of writeData.   *)
StopWaits == ~writing

Stop == /\ StopWaits
        /\ m_audioSource' = NoSource
        /\ m_buffer' = <<>>
        /\ m_running' = FALSE

stopCapture ==
  /\ Handles("stopCapture")
  /\ Stop
  /\ UNCHANGED <<modelVars, m_lastData, phase, signals, m_connected, m_device,
                 m_format, writing, written>>

SetCaptureEnabled ==
  /\ Handles("setCaptureEnabled")
  /\ m_connected' = Head(calls).enabled
  /\ UNCHANGED <<modelVars, m_lastData, phase, signals, m_running, m_device,
                 m_format, m_audioSource, m_buffer, writing, written>>

(* Without the stop, a running source goes on in the old format.           *)
updateDeviceMut ==
  /\ Handles("updateDevice")
  /\ m_device' = Head(calls).device /\ m_format' = Head(calls).format
  /\ UNCHANGED <<modelVars, m_lastData, phase, signals, m_connected, m_running,
                 m_audioSource, m_buffer, writing, written>>

updateDevice ==
  /\ Handles("updateDevice")
  /\ m_device' = Head(calls).device
  /\ StopWaits
  /\ \/ /\ m_running
        /\ Start(m_device', Head(calls).format)
     \/ /\ ~m_running
        /\ Stop
        /\ m_format' = Head(calls).format
  /\ UNCHANGED <<modelVars, m_lastData, phase, signals, m_connected, writing, written>>

(* A block is known by the number of writes when it was made, since every  *)
(* block takes at least one.                                               *)
emitSamplesReady(raw) ==
  signals' = Append(signals, [id |-> written, raw |-> raw, format |-> m_format])

onReadyRead ==
  /\ Handles("onReadyRead")
  /\ m_buffer' = <<>>
  /\ IF m_buffer = <<>> \/ ~m_connected
     THEN UNCHANGED signals
     ELSE emitSamplesReady(Range(m_buffer))
  /\ UNCHANGED <<modelVars, m_lastData, phase, workerVars, writing, written>>

(* The thread ends: the worker is deleted in it, its source first, and     *)
(* what was queued for it and for the model is dropped.                    *)
ThreadFinished ==
  /\ phase = "quit"
  /\ StopWaits
  /\ phase' = "gone"
  /\ calls' = <<>> /\ signals' = <<>> /\ m_lastData' = NoData
  /\ m_audioSource' = NoSource /\ m_buffer' = <<>>
  /\ UNCHANGED <<modelVars, m_running, m_connected, m_device, m_format, writing, written>>
-----------------------------------------------------------------------------
(* The audio thread.                                                       *)

writeData ==
  /\ m_audioSource # NoSource /\ ~writing
  /\ written < MaxWrites
  /\ m_buffer' = Append(m_buffer, m_audioSource)
  /\ writing' = TRUE
  /\ written' = written + 1
  /\ UNCHANGED <<modelVars, m_lastData, phase, calls, signals, workerVars>>

readyRead ==
  /\ writing
  /\ writing' = FALSE
  /\ calls' = Append(calls, Plain("onReadyRead"))
  /\ UNCHANGED <<modelVars, m_lastData, phase, signals, workerVars, m_buffer, written>>
-----------------------------------------------------------------------------
Configure == \/ \E device \in Device : ABEInitAudioParams(device)
             \/ \E fl \in Field, value \in Value : FieldChanged(fl, value)

Worker == \/ startCapture \/ stopCapture \/ SetCaptureEnabled
          \/ updateDevice \/ onReadyRead \/ ThreadFinished

AudioThread == writeData \/ readyRead

CaptureNext == \/ onUiStart \/ Configure
               \/ outputConnectionCreated \/ outputConnectionDeleted
               \/ onSamplesReady \/ DestroyModel
               \/ Worker \/ AudioThread

CaptureSpec == CaptureInit /\ [][CaptureNext]_captureVars
=============================================================================
