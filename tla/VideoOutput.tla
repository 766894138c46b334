----------------------------- MODULE VideoOutput -----------------------------
(***************************************************************************)
(* The display of VideoOutputNode, in both builds.  A frame is shown in a  *)
(* detached window, which is the GL blit widget or (Qt 6) the native       *)
(* QVideoWidget, or in the node: on a video item in the scene (Qt 6) or on *)
(* the label.  The "GPU display" box, the frame and the state of GL decide *)
(* which; GL may fail when its window is made, or turn out to have failed  *)
(* one turn of the event loop later.                                       *)
(*                                                                         *)
(* Widgets are hidden and unlinked at once and deleted later; unlinked     *)
(* ones are of no consequence and not modelled.  VideoFrames models what   *)
(* the GL window does with textures.                                       *)
(***************************************************************************)
EXTENDS Naturals

CONSTANTS
  Picture,
  GpuEffect, CpuEffect,   \* specs with Backend::GpuOrCpu, Backend::CpuOnly
  NoEffect,
  NoFrame, NoWindow,
  MaxTimers               \* bound: zero timers that have not fired

Effect == GpuEffect \cup CpuEffect

(* A frame: its picture, whether it lives in an RGBA texture, and which    *)
(* effects of this node it went through.                                   *)
Frame == [pic : Picture, rgba : BOOLEAN, effect : Effect \cup {NoEffect}]

(* A window: whether it is visible, whether the user closed it (history),  *)
(* whether its GL context works and what it was given last.                *)
Window == [visible : BOOLEAN, closed : BOOLEAN, valid : BOOLEAN, shows : Frame \cup {NoFrame}]

Opened(valid) == [visible |-> TRUE, closed |-> FALSE, valid |-> valid, shows |-> NoFrame]

ASSUME OutputAssumption ==
  /\ NoEffect \notin Effect /\ NoFrame \notin Frame /\ NoWindow \notin Window
  /\ MaxTimers \in Nat

VARIABLES
  qt6, hardwareGL, platformGL,     \* build and machine
  display,                         \* the widgets and flags of the display
  m_image, m_lastInput,
  m_outputFrame,                   \* does the port have a frame?
  m_videoInputConnected, m_selfNodeIdKnown, m_outputConnectionCount,
  m_effect,                        \* m_effectIndex, or NoEffect
  arrived                          \* history: did the last step accept a frame?

machine    == <<qt6, hardwareGL, platformGL>>
frames     == <<m_image, m_lastInput, m_outputFrame>>
edges      == <<m_videoInputConnected, m_selfNodeIdKnown, m_outputConnectionCount>>
outputVars == <<machine, display, frames, edges, m_effect, arrived>>

(* The fields of display are m_glCheck, m_detachedEnabled, m_glEnabled,    *)
(* m_glFailed, m_glWidget, m_videoWidget, m_sceneVideoItem (what it        *)
(* shows), the pixmap of m_label, m_perfBadge and the zero timers.         *)
OutputInit ==
  /\ qt6 \in BOOLEAN /\ platformGL \in BOOLEAN /\ hardwareGL \in {FALSE, platformGL}
  /\ \E blit \in BOOLEAN :
       display = [check    |-> qt6 \/ blit,  detached |-> qt6 \/ blit,
                  gl       |-> blit,         failed   |-> FALSE,
                  glWidget |-> NoWindow,     video    |-> NoWindow,
                  scene    |-> NoWindow,     label    |-> NoFrame,
                  badge    |-> FALSE,       timers   |-> 0]
  /\ m_image = NoFrame /\ m_lastInput = NoFrame /\ m_outputFrame = FALSE
  /\ m_videoInputConnected = FALSE /\ m_selfNodeIdKnown = FALSE
  /\ m_outputConnectionCount = 0
  /\ m_effect = NoEffect /\ arrived = FALSE
-----------------------------------------------------------------------------
(* The functions of the node, on the state d of its display.  Where GL or  *)
(* the scene decide, they give the set of possible results.                *)

(* setGlEnabled(false); the box follows when the program unchecks it.      *)
CloseDetached(d) ==
  [d EXCEPT !.detached = FALSE, !.gl = qt6 /\ @,
            !.glWidget = NoWindow, !.video = NoWindow]

fallbackToSoftware(d) ==
  LET failing == [d EXCEPT !.failed = TRUE, !.glWidget = NoWindow, !.label = NoFrame]
  IN  IF d.check THEN CloseDetached([failing EXCEPT !.check = FALSE])
                 ELSE [failing EXCEPT !.gl = FALSE]

setGlEnabled(d, enabled) ==
  IF d.detached = enabled THEN d
  ELSE IF ~enabled THEN CloseDetached(d)
  ELSE LET detached == [d EXCEPT !.detached = TRUE, !.gl = ~qt6 \/ @,
                                 !.scene = NoWindow]
       IN  IF detached.gl /\ d.failed THEN fallbackToSoftware(detached) ELSE detached

(* The label's text takes the place of its pixmap.                         *)
ensureGlWidget(d) ==
  IF d.failed THEN {d}
  ELSE IF d.glWidget # NoWindow
       THEN {[d EXCEPT !.glWidget.visible = TRUE, !.glWidget.closed = FALSE,
                       !.label = IF d.glWidget.visible THEN @ ELSE NoFrame]}
  ELSE IF ~platformGL THEN {fallbackToSoftware(d)}
  ELSE {[d EXCEPT !.glWidget = Opened(v),
                  !.label = NoFrame, !.timers = @ + 1] : v \in BOOLEAN}

createPerfBadge(d) ==
  IF qt6 /\ d.detached THEN [d EXCEPT !.badge = TRUE] ELSE d

(* Keeps the window of the other kind.                                     *)
ensureVideoWidgetMut(d, wantGlBlit) ==
  IF qt6 /\ ~d.detached THEN {d}
  ELSE IF d.glWidget # NoWindow /\ (wantGlBlit \/ ~qt6) THEN {d}
  ELSE IF wantGlBlit
  THEN {IF e.glWidget = NoWindow THEN e ELSE createPerfBadge([e EXCEPT !.label = NoFrame])
          : e \in ensureGlWidget(d)}
  ELSE IF ~qt6 \/ d.video # NoWindow THEN {d}
  ELSE {createPerfBadge(
          [d EXCEPT !.video = Opened(TRUE),
                    !.label = NoFrame])}

(* The window that a frame is to be presented in, made if need be.         *)
ensureVideoWidget(d, wantGlBlit) ==
  IF qt6 /\ ~d.detached THEN {d}
  ELSE IF d.glWidget # NoWindow /\ (wantGlBlit \/ ~qt6) THEN {d}
  ELSE IF wantGlBlit
  THEN {IF e.glWidget = NoWindow THEN e ELSE createPerfBadge([e EXCEPT !.label = NoFrame])
          : e \in ensureGlWidget([d EXCEPT !.video = NoWindow])}
  ELSE IF ~qt6 \/ d.video # NoWindow THEN {d}
  ELSE {createPerfBadge(
          [d EXCEPT !.glWidget = NoWindow,
                    !.video = Opened(TRUE),
                    !.label = NoFrame])}

updateDisplay(d, image) ==
  IF d.detached /\ d.gl
  THEN IF image = NoFrame
       THEN {[d EXCEPT !.label = NoFrame,
                       !.glWidget = IF @ = NoWindow THEN @ ELSE [@ EXCEPT !.visible = FALSE]]}
       ELSE {IF e.glWidget # NoWindow THEN [e EXCEPT !.glWidget.shows = image]
                                      ELSE [e EXCEPT !.label = image] : e \in ensureGlWidget(d)}
  ELSE {[d EXCEPT !.label = image]}

(* The item needs the node's id and a view of the scene among the windows. *)
ensureSceneVideoItem(d) ==
  IF d.scene # NoWindow \/ ~m_selfNodeIdKnown THEN {d}
  ELSE {d, [d EXCEPT !.scene = Opened(TRUE),
                     !.label = NoFrame]}
-----------------------------------------------------------------------------
(* A frame that is a texture already takes no CPU path.  drawn: did the    *)
(* GPU path succeed; image: can the frame be read as a QImage?             *)
MayDraw(effect) == effect \in GpuEffect /\ hardwareGL

Processed(frame, effect, drawn, image) ==
  IF MayDraw(effect) /\ drawn
  THEN [frame EXCEPT !.rgba = TRUE, !.effect = effect]
  ELSE IF effect \in Effect /\ ~frame.rgba /\ image
  THEN [frame EXCEPT !.effect = effect]
  ELSE frame

WantGlBlit(d, frame) == d.detached /\ ~d.failed /\ (d.gl \/ (frame.rgba /\ hardwareGL))

(* The output port: only somebody connected makes it emit.                 *)
PassOn == m_outputFrame' = (m_outputFrame \/ m_outputConnectionCount > 0)

(* The display of an accepted frame; the branch of the scene item returns  *)
(* before the output port, and so does a frame that has no image.          *)
Present(d, frame, image) ==
  \/ /\ d.glWidget # NoWindow
     /\ display' = [d EXCEPT !.glWidget.shows = frame]
     /\ PassOn /\ UNCHANGED m_image
  \/ /\ d.glWidget = NoWindow /\ d.video # NoWindow
     /\ display' = [d EXCEPT !.video.shows = frame]
     /\ PassOn /\ UNCHANGED m_image
  \/ /\ d.glWidget = NoWindow /\ d.video = NoWindow
     /\ \E e \in IF qt6 /\ ~d.detached THEN ensureSceneVideoItem(d) ELSE {d} :
          \/ /\ e.scene # NoWindow /\ ~e.detached
             /\ display' = [e EXCEPT !.scene.shows = frame]
             /\ UNCHANGED <<m_image, m_outputFrame>>
          \/ /\ e.scene = NoWindow \/ e.detached
             /\ image
             /\ m_image' = frame
             /\ display' \in updateDisplay(e, frame)
             /\ PassOn
          \/ /\ e.scene = NoWindow \/ e.detached
             /\ ~image
             /\ display' = e
             /\ UNCHANGED <<m_image, m_outputFrame>>

(* Keeps what the effect made of the frame.                                *)
AcceptMut(frame, drawn, image) ==
  LET processed == Processed(frame, m_effect', drawn, image)
  IN  /\ drawn => MayDraw(m_effect')
      /\ m_lastInput' = processed
      /\ arrived' = image
      /\ \E d \in ensureVideoWidget(display, WantGlBlit(display, processed)) :
           Present(d, processed, image)

Accept(frame, drawn, image) ==
  LET processed == Processed(frame, m_effect', drawn, image)
  IN  /\ drawn => MayDraw(m_effect')
      /\ m_lastInput' = frame
      /\ arrived' = image
      /\ \E d \in ensureVideoWidget(display, WantGlBlit(display, processed)) :
           Present(d, processed, image)

(* Frames go on arriving after the edge is gone, and are ignored then.     *)
setInDataFrame(frame) ==
  /\ m_videoInputConnected
  /\ frame.rgba => hardwareGL
  /\ display.timers < MaxTimers
  /\ m_effect' = m_effect
  /\ \E drawn, image \in BOOLEAN : Accept(frame, drawn, image)
  /\ UNCHANGED <<machine, edges>>

setInDataNull ==
  /\ m_lastInput' = NoFrame /\ m_image' = NoFrame /\ m_outputFrame' = FALSE
  /\ display' \in updateDisplay(display, NoFrame)
  /\ arrived' = FALSE
  /\ UNCHANGED <<machine, edges, m_effect>>

setEffectIndex(effect) ==
  /\ m_effect' = effect
  /\ arrived' = FALSE
  /\ UNCHANGED <<machine, display, frames, edges>>

(* load() selects the effect and processes the current frame again.        *)
load(effect) ==
  /\ m_videoInputConnected /\ m_lastInput # NoFrame
  /\ display.timers < MaxTimers
  /\ m_effect' = effect
  /\ \E drawn, image \in BOOLEAN : Accept(m_lastInput, drawn, image)
  /\ UNCHANGED <<machine, edges>>
-----------------------------------------------------------------------------
inputConnectionCreated ==
  /\ ~m_videoInputConnected
  /\ m_videoInputConnected' = TRUE /\ m_selfNodeIdKnown' = TRUE
  /\ arrived' = FALSE
  /\ UNCHANGED <<machine, display, frames, m_outputConnectionCount, m_effect>>

inputConnectionDeleted ==
  /\ m_videoInputConnected
  /\ m_videoInputConnected' = FALSE
  /\ m_lastInput' = NoFrame /\ m_image' = NoFrame /\ m_outputFrame' = FALSE
  /\ display' \in updateDisplay([display EXCEPT !.glWidget = NoWindow, !.video = NoWindow,
                                                !.scene = NoWindow, !.badge = FALSE], NoFrame)
  /\ arrived' = FALSE
  /\ UNCHANGED <<machine, m_selfNodeIdKnown, m_outputConnectionCount, m_effect>>

outputConnection(n) ==
  /\ m_outputConnectionCount' = n /\ n # m_outputConnectionCount
  /\ arrived' = FALSE
  /\ UNCHANGED <<machine, display, frames, m_videoInputConnected, m_selfNodeIdKnown,
                 m_effect>>

Rest == /\ arrived' = FALSE
        /\ UNCHANGED <<machine, frames, edges, m_effect>>

ToggleGpuDisplay ==
  /\ display' = setGlEnabled([display EXCEPT !.check = ~@], ~display.check)
  /\ Rest

(* Never falls back.                                                       *)
CheckGlWidgetMut ==
  /\ display.timers > 0
  /\ display' = [display EXCEPT !.timers = @ - 1]
  /\ Rest

(* The zero timer looks at whatever GL window there is by then.            *)
CheckGlWidget ==
  /\ display.timers > 0
  /\ LET d == [display EXCEPT !.timers = @ - 1]
     IN  display' = IF d.glWidget # NoWindow /\ ~d.glWidget.valid
                    THEN fallbackToSoftware(d) ELSE d
  /\ Rest

(* The user closes a detached window, which only hides it.                 *)
CloseWindow ==
  /\ \/ /\ display.glWidget # NoWindow /\ display.glWidget.visible
        /\ display' = [display EXCEPT !.glWidget.visible = FALSE, !.glWidget.closed = TRUE]
     \/ /\ display.video # NoWindow /\ display.video.visible
        /\ display' = [display EXCEPT !.video.visible = FALSE, !.video.closed = TRUE]
  /\ Rest

LabelResized ==
  /\ display.timers < MaxTimers
  /\ display.glWidget = NoWindow
  /\ display' \in updateDisplay(display, m_image)
  /\ Rest
-----------------------------------------------------------------------------
Inputs == \/ \E frame \in Frame : frame.effect = NoEffect /\ setInDataFrame(frame)
          \/ setInDataNull
          \/ \E effect \in Effect \cup {NoEffect} : setEffectIndex(effect) \/ load(effect)
          \/ inputConnectionCreated \/ inputConnectionDeleted
          \/ \E n \in 0 .. 1 : outputConnection(n)

Widgets == \/ ToggleGpuDisplay \/ CheckGlWidget \/ CloseWindow \/ LabelResized

OutputNext == Inputs \/ Widgets

OutputSpec == OutputInit /\ [][OutputNext]_outputVars

(* The event loop fires its zero timers.                                   *)
ZeroTimersFire == WF_outputVars(CheckGlWidget)
-----------------------------------------------------------------------------
Surfaces == {display.glWidget, display.video, display.scene} \ {NoWindow}

OutputTypeOK ==
  /\ {qt6, hardwareGL, platformGL, m_videoInputConnected, m_selfNodeIdKnown,
      m_outputFrame, arrived} \subseteq BOOLEAN
  /\ display \in [check : BOOLEAN, detached : BOOLEAN, gl : BOOLEAN, failed : BOOLEAN,
                  glWidget : Window \cup {NoWindow}, video : Window \cup {NoWindow},
                  scene : Window \cup {NoWindow}, label : Frame \cup {NoFrame},
                  badge : BOOLEAN, timers : 0 .. MaxTimers]
  /\ {m_image, m_lastInput} \subseteq Frame \cup {NoFrame}
  /\ m_outputConnectionCount \in 0 .. 1
  /\ m_effect \in Effect \cup {NoEffect}

(* There is one surface at most, of the kind that the box, GL and the      *)
(* build allow, and the box says so, through every fallback, toggle and    *)
(* late check of a GL context (ensureVideoWidget, setGlEnabled,            *)
(* fallbackToSoftware).                                                    *)
OneSurface ==
  LET d == display
  IN  /\ \A s, t \in {"glWidget", "video", "scene"} :
           d[s] # NoWindow /\ d[t] # NoWindow => s = t
      /\ d.check = d.detached
      /\ d.glWidget # NoWindow => d.detached /\ ~d.failed
      /\ d.video # NoWindow => d.detached /\ qt6
      /\ d.scene # NoWindow => ~d.detached /\ qt6
      /\ ~qt6 => d.gl = d.detached

(* Without an edge nothing of the video is left, whatever frames, zero     *)
(* timers, resizes or loads come after its removal (the guard of           *)
(* setInDataFrame and inputConnectionDeleted).                             *)
NothingAfterDisconnect ==
  ~m_videoInputConnected =>
    /\ Surfaces = {} /\ display.label = NoFrame /\ ~display.badge
    /\ {m_image, m_lastInput} = {NoFrame} /\ ~m_outputFrame

(* The surfaces follow the box, GL and the edge, and nothing else.         *)
SurfacesAreRight == OneSurface /\ NothingAfterDisconnect

(* A frame that arrives, or is processed again, is given to the one        *)
(* surface that is left to show it, with the selected effect and no other, *)
(* once.  It goes without only if it came as a texture, which no CPU path  *)
(* takes.  Nobody but the user hides a native window or the scene's item;  *)
(* a GL window may be hidden otherwise, see below (setInDataFrame, load).  *)
FrameIsShown ==
  arrived =>
    LET shown == IF Surfaces = {} THEN display.label ELSE (CHOOSE s \in Surfaces : TRUE).shows
    IN  /\ shown # NoFrame /\ shown.pic = m_lastInput.pic
        /\ m_lastInput.effect = NoEffect
        /\ shown.effect = m_effect \/ (shown.effect = NoEffect /\ m_lastInput.rgba)
        /\ \A s \in Surfaces \ {display.glWidget} : s.visible = ~s.closed

(* A GL window in which a frame arrives is visible unless the user closed  *)
(* it (VideoOutputNode.cpp:904-907: a window that the null-image branch    *)
(* hid is shown again "instead of leaving a hidden window behind").        *)
HiddenWindowComesBack ==
  arrived /\ display.glWidget # NoWindow => display.glWidget.visible \/ display.glWidget.closed

(* A GL window whose context turns out not to work makes place for the     *)
(* software display (ensureGlWidget's zero timer).                         *)
BrokenWindowGoes ==
  (display.glWidget # NoWindow /\ ~display.glWidget.valid)
    ~> (display.glWidget = NoWindow)

=============================================================================
