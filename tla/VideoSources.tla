---------------------------- MODULE VideoSources ----------------------------
(***************************************************************************)
(* A video source of the node editor: a file, a stream or a camera, with   *)
(* the player or the camera behind it, which act on their own, and the     *)
(* consumers wired to its audio port.  A frame or an audio block waits in  *)
(* the event queue of the GUI thread, so it may arrive after the source    *)
(* was stopped or exchanged.  Labels that no decision reads are left out.  *)
(***************************************************************************)
EXTENDS Naturals, FiniteSets

CONSTANTS Media,      \* files or addresses that can be typed
          Playable,   \* those that the player can play
          Streams,    \* those that pass for the address of a stream
          Cameras,    \* m_devices, read once
          Consumers   \* input ports that can be wired to the audio port

ASSUME VideoSourcesAssumption ==
  /\ Playable \subseteq Media /\ Streams \subseteq Media
  /\ "" \notin Media /\ {"none", "default"} \cap Cameras = {}

VARIABLES
  kind,      \* which of the three nodes
  qt5,       \* the version of Qt it was built for
  media,     \* file and stream: the text field, m_loadedPath, m_isPlaying, the Stop button
  player,    \* the QMediaPlayer: source, playback state, whether past the start
  camera,    \* m_deviceCombo, m_camera, m_running, the QCamera objects not yet released
  audio,     \* m_audioPortConnectionCount, m_audioOut, what each wired consumer holds
  frame,     \* the source of the frame in m_videoFrameOut, "invalid", or "" before the first
  queued     \* the sources of which frames wait in the event queue

sourceVars == <<kind, qt5, media, player, camera, audio, frame, queued>>

Blocks == 1 .. 3      \* numbers of audio blocks, reused in turn; 0 is no block
NoCamera == [device |-> "none", attached |-> FALSE]

SourceInit ==
  /\ kind \in {"file", "stream", "camera"} /\ qt5 \in BOOLEAN
  /\ media = [field |-> "", loaded |-> "", isPlaying |-> FALSE, stoppable |-> FALSE]
  /\ player = [source |-> "", state |-> "stopped", begun |-> FALSE]
  /\ camera = [chosen |-> "default", m_camera |-> NoCamera, running |-> FALSE, objects |-> {}]
  /\ audio = [count |-> 0, out |-> 0, held |-> [c \in {} |-> 0]]
  /\ frame = "" /\ queued = {}
-----------------------------------------------------------------------------
(* QMediaPlayer.  A source starts some time after play(); a change of      *)
(* state is signalled within the call that causes it.                      *)
Stop(p) == [p EXCEPT !.state = "stopped", !.begun = FALSE]

setMediaSource(p, m) == [Stop(p) EXCEPT !.source = m]

Play(p) == IF p.source \in Playable /\ p.state # "playing" THEN [p EXCEPT !.state = "starting"] ELSE p

(* onPlaybackStateChanged, of a player that goes from p to q.              *)
onPlaybackStateChanged(n, p, q) ==
  IF p.state = q.state THEN n ELSE [n EXCEPT !.isPlaying = (q.state = "playing")]

PlayerGoes(q) == player' = q /\ media' = onPlaybackStateChanged(media, player, q)
-----------------------------------------------------------------------------
(* The text field, which is also set by the file dialog and by load().     *)
SetField(m) ==
  /\ kind # "camera" /\ m # media.field
  /\ media' = [media EXCEPT !.field = m]
  /\ UNCHANGED <<kind, qt5, player, camera, audio, frame, queued>>

(* The player is told to play another source only when the path is not the *)
(* one that it was last given.                                             *)
ReloadedMut(m) ==
  IF media.loaded = "" THEN [p |-> setMediaSource(player, m), path |-> m]
  ELSE [p |-> player, path |-> media.loaded]

Reloaded(m) ==
  IF m # media.loaded THEN [p |-> setMediaSource(player, m), path |-> m]
  ELSE [p |-> player, path |-> media.loaded]

onPlayPauseClicked ==
  /\ kind = "file"
  /\ \/ /\ media.isPlaying
        /\ PlayerGoes([player EXCEPT !.state = "paused"])
     \/ /\ ~media.isPlaying /\ media.field # ""
        /\ LET now == Reloaded(media.field)
           IN  /\ player' = Play(now.p)
               /\ media' = [media EXCEPT !.loaded = now.path, !.stoppable = TRUE]
  /\ UNCHANGED <<kind, qt5, camera, audio, frame, queued>>

Cleared(n) == [n EXCEPT !.loaded = "", !.isPlaying = FALSE, !.stoppable = FALSE]

onStopClicked ==
  /\ kind = "file" /\ media.stoppable
  /\ player' = Stop(player) /\ media' = Cleared(media)
  /\ UNCHANGED <<kind, qt5, camera, audio, frame, queued>>

(* A seek of 5 seconds back or forward; back may reach the beginning.      *)
onSeekClicked ==
  /\ kind = "file" /\ media.stoppable /\ player.source \in Playable
  /\ \E begun \in BOOLEAN : player' = [player EXCEPT !.begun = begun]
  /\ UNCHANGED <<kind, qt5, media, camera, audio, frame, queued>>

(* StreamSourceNode::onConnectClicked.                                     *)
onConnectStreamClicked ==
  /\ kind = "stream"
  /\ \/ /\ media.isPlaying /\ PlayerGoes(Stop(player))
     \/ /\ ~media.isPlaying /\ media.field \in Streams
        /\ player' = Play(setMediaSource(player, media.field)) /\ media' = media
  /\ UNCHANGED <<kind, qt5, camera, audio, frame, queued>>

PlayerStarts ==
  /\ player.state = "starting"
  /\ PlayerGoes([player EXCEPT !.state = "playing", !.begun = TRUE])
  /\ UNCHANGED <<kind, qt5, camera, audio, frame, queued>>

(* EndOfMedia.                                                             *)
MediaEnds ==
  /\ player.state = "playing"
  /\ player' = Stop(player)
  /\ media' = IF kind = "file" THEN Cleared(media) ELSE [media EXCEPT !.isPlaying = FALSE]
  /\ UNCHANGED <<kind, qt5, camera, audio, frame, queued>>

(* InvalidMedia, at the loading of a source or when a stream breaks off:   *)
(* the file node only says so.                                             *)
MediaIsInvalid ==
  /\ player.source # ""
  /\ player' = Stop(player)
  /\ media' = [onPlaybackStateChanged(media, player, Stop(player)) EXCEPT
                 !.isPlaying = IF kind = "stream" THEN FALSE ELSE @]
  /\ UNCHANGED <<kind, qt5, camera, audio, frame, queued>>

(* An error: the player may stop or go on.                                 *)
onPlayerError ==
  /\ player.source # ""
  /\ player' \in {player, Stop(player)}
  /\ media' = [media EXCEPT !.isPlaying = FALSE]
  /\ UNCHANGED <<kind, qt5, camera, audio, frame, queued>>
-----------------------------------------------------------------------------
(* The camera.  The default of the platform may change, or be missing.     *)
selectedDevice(default) == IF camera.chosen = "default" THEN default ELSE camera.chosen

stopCamera(c) ==
  [c EXCEPT !.objects = @ \ {c.m_camera}, !.m_camera = NoCamera, !.running = FALSE]

(* A camera that no frames can be taken from (Qt 5 only) is given up.      *)
startCamera(c, device, attached) ==
  LET new == [device |-> device, attached |-> attached]
      with == [c EXCEPT !.m_camera = new, !.objects = @ \cup {new}]
  IN  IF c.running \/ device = "none" THEN c
      ELSE IF attached THEN [with EXCEPT !.running = TRUE] ELSE stopCamera(with)

Attaches == IF qt5 THEN BOOLEAN ELSE {TRUE}

onStartStopClicked ==
  /\ kind = "camera"
  /\ \E default \in Cameras \cup {"none"}, attached \in Attaches :
       camera' = IF camera.running THEN stopCamera(camera)
                 ELSE startCamera(camera, selectedDevice(default), attached)
  /\ UNCHANGED <<kind, qt5, media, player, audio, frame, queued>>

(* onDeviceChanged, also of load(), which selects the camera of a project  *)
(* in the list.                                                            *)
onDeviceChanged(c, device, attached) ==
  IF c.running THEN startCamera(stopCamera(c), device, attached) ELSE c

Choose(device) ==
  /\ kind = "camera" /\ device # camera.chosen
  /\ \E default \in Cameras \cup {"none"}, attached \in Attaches :
       camera' = onDeviceChanged([camera EXCEPT !.chosen = device],
                                 IF device = "default" THEN default ELSE device, attached)
  /\ UNCHANGED <<kind, qt5, media, player, audio, frame, queued>>
-----------------------------------------------------------------------------
Running ==
  IF kind = "camera" THEN IF camera.running THEN {camera.m_camera.device} ELSE {}
  ELSE IF player.state = "playing" THEN {player.source} ELSE {}

(* The backend thread decodes a frame and posts it.                        *)
Decode ==
  /\ queued' = queued \cup Running /\ queued' # queued
  /\ UNCHANGED <<kind, qt5, media, player, camera, audio, frame>>

(* frameToFrame: Qt 5 copies two pixel formats and no other.               *)
onFrameAvailable ==
  \E source \in queued, copied \in IF qt5 THEN BOOLEAN ELSE {TRUE}, last \in BOOLEAN :
    /\ queued' = IF last THEN queued \ {source} ELSE queued
    /\ frame' = IF copied THEN source ELSE "invalid"
    /\ UNCHANGED <<kind, qt5, media, player, camera, audio>>

(* wrapBuffer, and the signal to every wired consumer if the node counts   *)
(* one.  A camera has no audio with Qt 6.                                  *)
onAudioBufferReceived ==
  LET block == (audio.out % 3) + 1
  IN  /\ \/ kind # "camera" /\ player.source # ""
         \/ kind = "camera" /\ qt5 /\ camera.running
      /\ audio' = [audio EXCEPT
                     !.out = block,
                     !.held = IF audio.count > 0 THEN [c \in DOMAIN @ |-> block] ELSE @]
      /\ UNCHANGED <<kind, qt5, media, player, camera, frame, queued>>

(* outputConnectionCreated and -Deleted.  The graph hands a new consumer   *)
(* what the port holds.                                                    *)
outputConnectionCreated(c) ==
  /\ c \notin DOMAIN audio.held
  /\ audio' = [audio EXCEPT
                 !.count = @ + 1,
                 !.held = [d \in DOMAIN @ \cup {c} |-> IF d = c THEN audio.out ELSE @[d]]]
  /\ UNCHANGED <<kind, qt5, media, player, camera, frame, queued>>

outputConnectionDeletedMut(c) ==
  /\ c \in DOMAIN audio.held
  /\ audio' = [audio EXCEPT !.count = 0, !.held = [d \in DOMAIN @ \ {c} |-> @[d]]]
  /\ UNCHANGED <<kind, qt5, media, player, camera, frame, queued>>

outputConnectionDeleted(c) ==
  /\ c \in DOMAIN audio.held
  /\ audio' = [audio EXCEPT
                 !.count = IF @ > 0 THEN @ - 1 ELSE @,
                 !.held = [d \in DOMAIN @ \ {c} |-> @[d]]]
  /\ UNCHANGED <<kind, qt5, media, player, camera, frame, queued>>

SourceNext ==
  \/ \E m \in Media \cup {""} : SetField(m)
  \/ onPlayPauseClicked \/ onStopClicked \/ onSeekClicked \/ onConnectStreamClicked
  \/ PlayerStarts \/ MediaEnds \/ MediaIsInvalid \/ onPlayerError
  \/ onStartStopClicked
  \/ \E device \in Cameras \cup {"default"} : Choose(device)
  \/ Decode \/ onFrameAvailable \/ onAudioBufferReceived
  \/ \E c \in Consumers : outputConnectionCreated(c) \/ outputConnectionDeleted(c)

SourceSpec == SourceInit /\ [][SourceNext]_sourceVars
-----------------------------------------------------------------------------
SourceTypeOK ==
  /\ kind \in {"file", "stream", "camera"} /\ qt5 \in BOOLEAN
  /\ media \in [field : Media \cup {""}, loaded : Media \cup {""}, isPlaying : BOOLEAN, stoppable : BOOLEAN]
  /\ player \in [source : Media \cup {""}, state : {"stopped", "starting", "playing", "paused"}, begun : BOOLEAN]
  /\ camera.chosen \in Cameras \cup {"default"} /\ camera.running \in BOOLEAN
  /\ audio.count \in Nat /\ audio.out \in Blocks \cup {0}
  /\ queued \subseteq Media \cup Cameras

(* A click that makes the player start, starts what the text field names   *)
(* at that moment; a place in another medium is never taken over.          *)
PlaysWhatIsNamed ==
  [][/\ player'.state = "starting"
     /\ player.state # "starting" \/ player'.source # player.source
     => /\ player'.source = media.field
        /\ player'.begun => player.source = media.field]_sourceVars

(* The button offers to pause or to disconnect only while the player       *)
(* plays, whatever the player does on its own.                             *)
PauseMeansPlaying == media.isPlaying => player.state = "playing"

(* Every camera object is the one the node holds: it is running, and no    *)
(* camera is left open by a failed start or by a change of device.         *)
NoCameraLeaks ==
  /\ camera.objects = IF camera.running THEN {camera.m_camera} ELSE {}
  /\ camera.running => camera.m_camera.attached

(* A camera that runs is the one that is selected in the list.             *)
RunsTheChosenCamera ==
  camera.running /\ camera.chosen # "default" => camera.m_camera.device = camera.chosen

(* Every wired consumer holds the newest audio block: the count by which   *)
(* the node decides to send anything never misses a wire.                  *)
ConsumersAreCurrent == \A c \in DOMAIN audio.held : audio.held[c] = audio.out

(* A source is what its widgets say, and what is wired to it is served.    *)
SourceIsSound == PauseMeansPlaying /\ NoCameraLeaks /\ RunsTheChosenCamera /\ ConsumersAreCurrent

=============================================================================
