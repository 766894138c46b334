-------------------------- MODULE VideoOutputProofs --------------------------
(***************************************************************************)
(* Theorems about VideoOutput, for any pictures and any effects.           *)
(*                                                                         *)
(* The functions of the node are about the state d of a display, so most   *)
(* lemmas are too: what each makes of a display that is sound, that is,    *)
(* has one surface at most.  A native window is sound only while GL is out *)
(* of the question: when it is not, the same frame, or a resized label,    *)
(* would make a GL window beside it.                                       *)
(***************************************************************************)
EXTENDS VideoOutput, TLAPS

Pixels  == Frame \cup {NoFrame}
Windows == Window \cup {NoWindow}

Displays ==
  [check : BOOLEAN, detached : BOOLEAN, gl : BOOLEAN, failed : BOOLEAN,
   glWidget : Windows, video : Windows, scene : Windows, label : Pixels,
   badge : BOOLEAN, timers : Nat]

NoSurface(d) == d.glWidget = NoWindow /\ d.video = NoWindow /\ d.scene = NoWindow

(* Nobody but the user has hidden the window.                              *)
HiddenByUserOnly(window) == window # NoWindow => window.visible = ~window.closed

(* The parts of the invariant that are about the display alone.            *)
Intact(d) ==
  /\ d \in Displays
  /\ d.check = d.detached
  /\ d.glWidget # NoWindow => d.detached /\ ~d.failed /\ d.video = NoWindow
  /\ d.video # NoWindow => d.detached /\ qt6 /\ (d.failed \/ ~d.gl)
  /\ d.scene # NoWindow => ~d.detached /\ qt6
  /\ ~qt6 => d.gl = d.detached
  /\ HiddenByUserOnly(d.video) /\ HiddenByUserOnly(d.scene)

(* The frame in the node is one of those that came in, untouched.          *)
InputInv ==
  /\ {qt6, hardwareGL, platformGL, m_videoInputConnected, m_selfNodeIdKnown,
      m_outputFrame, arrived} \subseteq BOOLEAN
  /\ {m_image, m_lastInput} \subseteq Pixels
  /\ m_lastInput # NoFrame => m_lastInput.effect = NoEffect
  /\ m_outputConnectionCount \in 0 .. 1
  /\ m_effect \in Effect \cup {NoEffect}

OutputInv ==
  /\ InputInv
  /\ Intact(display) /\ display.timers <= MaxTimers
  /\ NothingAfterDisconnect
  /\ FrameIsShown
-----------------------------------------------------------------------------
(* The frame f is on the surface of d, or on the label if there is none.   *)
Presents(d, f) ==
  /\ d.glWidget # NoWindow => d.glWidget.shows = f
  /\ d.video # NoWindow => d.video.shows = f
  /\ d.scene # NoWindow => d.scene.shows = f
  /\ NoSurface(d) => d.label = f

(* A display that needs no GL window before it can show a frame.           *)
Ready(d) == d.detached /\ d.gl /\ ~d.failed => d.glWidget # NoWindow

LEMMA NothingHidden == HiddenByUserOnly(NoWindow)
  BY DEF HiddenByUserOnly

(* Closing the detached window, once the box is off.                       *)
LEMMA ClosedSound ==
  ASSUME NEW d, d \in Displays, qt6 \in BOOLEAN, ~d.check,
         d.scene # NoWindow => ~d.detached /\ qt6, HiddenByUserOnly(d.scene)
  PROVE  /\ Intact(CloseDetached(d))
         /\ CloseDetached(d) = [d EXCEPT !.detached = FALSE, !.gl = qt6 /\ d.gl,
                                         !.glWidget = NoWindow, !.video = NoWindow]
  <1>1. CloseDetached(d) = [d EXCEPT !.detached = FALSE, !.gl = qt6 /\ d.gl,
                                     !.glWidget = NoWindow, !.video = NoWindow]
    BY DEF CloseDetached, Displays
  <1> DEFINE e == CloseDetached(d)
  <1> HIDE DEF e
  <1>2. /\ e \in Displays /\ ~e.check /\ ~e.detached /\ e.gl = (qt6 /\ d.gl)
        /\ e.glWidget = NoWindow /\ e.video = NoWindow /\ e.scene = d.scene
    BY <1>1 DEF e, Displays, Windows
  <1>3. Intact(e)
    BY <1>2, NothingHidden DEF Intact, Displays
  <1> QED BY <1>1, <1>3 DEF e

(* The fallback leaves no GL window, whatever the box said.                *)
LEMMA FallbackSound ==
  ASSUME NEW d, Intact(d), qt6 \in BOOLEAN, NEW e, e = fallbackToSoftware(d)
  PROVE  /\ Intact(e) /\ e.timers = d.timers /\ e.badge = d.badge
         /\ e.glWidget = NoWindow /\ (d.video = NoWindow => e.video = NoWindow)
         /\ e.scene = d.scene /\ e.label = NoFrame /\ e.failed /\ ~(e.detached /\ e.gl)
  <1> DEFINE failing == [d EXCEPT !.failed = TRUE, !.glWidget = NoWindow, !.label = NoFrame]
             off == [failing EXCEPT !.check = FALSE]
  <1>1. failing \in Displays /\ off \in Displays
    BY DEF Intact, Displays, Windows, Pixels
  <1>2. CASE d.check
    <2>1. e = CloseDetached(off)
      BY <1>2 DEF fallbackToSoftware, Intact, Displays
    <2>2. /\ ~off.check /\ (off.scene # NoWindow => ~off.detached /\ qt6)
          /\ HiddenByUserOnly(off.scene)
      BY DEF Intact, Displays
    <2>3. Intact(e) /\ e = [off EXCEPT !.detached = FALSE, !.gl = qt6 /\ off.gl,
                                      !.glWidget = NoWindow, !.video = NoWindow]
      <3> HIDE DEF off
      <3> QED BY <1>1, <2>1, <2>2, ClosedSound
    <2>4. ~e.detached
      <3> HIDE DEF off
      <3> QED BY <1>1, <2>3 DEF Displays
    <2>5. /\ e.timers = d.timers /\ e.badge = d.badge /\ e.scene = d.scene /\ e.label = NoFrame
          /\ e.failed /\ e.glWidget = NoWindow /\ e.video = NoWindow
      BY <2>3 DEF Intact, Displays
    <2> QED BY <2>3, <2>4, <2>5
  <1>3. CASE ~d.check
    <2>1. e = [failing EXCEPT !.gl = FALSE]
      BY <1>3 DEF fallbackToSoftware, Intact, Displays
    <2>2. e = [d EXCEPT !.failed = TRUE, !.glWidget = NoWindow, !.label = NoFrame, !.gl = FALSE]
      BY <2>1 DEF Intact, Displays
    <2>3. ~d.detached /\ d.video = NoWindow /\ ~d.check
      BY <1>3 DEF Intact, Displays
    <2> QED BY <2>2, <2>3 DEF Intact, Displays, Windows, Pixels
  <1> QED BY <1>2, <1>3

(* The box makes no window and takes no other than its own.                *)
LEMMA ToggleSound ==
  ASSUME NEW d, Intact(d), qt6 \in BOOLEAN,
         NEW e, e = setGlEnabled([d EXCEPT !.check = ~@], ~d.check)
  PROVE  /\ Intact(e) /\ e.timers = d.timers /\ e.badge = d.badge
         /\ (NoSurface(d) => NoSurface(e)) /\ e.label \in {d.label, NoFrame}
  <1> DEFINE flipped == [d EXCEPT !.check = ~@]
             opened == [flipped EXCEPT !.detached = TRUE, !.gl = ~qt6 \/ @, !.scene = NoWindow]
  <1>1. flipped \in Displays /\ flipped.detached = d.check /\ flipped.check = ~d.check
    BY DEF Intact, Displays
  <1>2. CASE d.check
    <2>1. e = CloseDetached(flipped)
      <3>1. flipped.detached /\ (~d.check) = FALSE
        BY <1>2 DEF Intact, Displays
      <3>2. e = setGlEnabled(flipped, FALSE)
        BY <3>1
      <3> HIDE DEF flipped
      <3> QED BY <3>1, <3>2 DEF setGlEnabled
    <2>2. /\ flipped.scene # NoWindow => ~flipped.detached /\ qt6
          /\ HiddenByUserOnly(flipped.scene)
      BY DEF Intact, Displays
    <2>3. Intact(e) /\ e = [flipped EXCEPT !.detached = FALSE, !.gl = qt6 /\ flipped.gl,
                                          !.glWidget = NoWindow, !.video = NoWindow]
      <3> HIDE DEF flipped
      <3> QED BY <1>1, <1>2, <2>1, <2>2, ClosedSound
    <2> QED BY <2>3 DEF NoSurface, Intact, Displays
  <1>3. CASE ~d.check
    <2>1. e = IF opened.gl /\ opened.failed THEN fallbackToSoftware(opened) ELSE opened
      <3>1. ~flipped.detached /\ (~d.check) = TRUE
        BY <1>3 DEF Intact, Displays
      <3>2. e = setGlEnabled(flipped, TRUE)
        BY <3>1
      <3> HIDE DEF flipped
      <3> QED BY <3>1, <3>2 DEF setGlEnabled
    <2>2. Intact(opened)
      <3>1. d \in Displays /\ ~d.detached /\ d.glWidget = NoWindow /\ d.video = NoWindow
        BY <1>3 DEF Intact
      <3>2. PICK gl \in BOOLEAN : gl = (~qt6 \/ d.gl)
        BY <3>1 DEF Displays
      <3>3. opened = [d EXCEPT !.check = TRUE, !.detached = TRUE, !.gl = gl, !.scene = NoWindow]
        BY <1>3, <3>1, <3>2 DEF Displays
      <3> HIDE DEF opened
      <3> QED BY <3>1, <3>2, <3>3 DEF Intact, Displays, Windows
    <2>3. /\ opened.timers = d.timers /\ opened.badge = d.badge /\ opened.scene = NoWindow
          /\ (NoSurface(d) => NoSurface(opened)) /\ opened.label = d.label
      BY DEF NoSurface, Intact, Displays
    <2> HIDE DEF opened
    <2>4. CASE opened.gl /\ opened.failed
      BY <2>1, <2>2, <2>3, <2>4, FallbackSound DEF NoSurface
    <2>5. CASE ~(opened.gl /\ opened.failed)
      BY <2>1, <2>2, <2>3, <2>5
    <2> QED BY <2>4, <2>5
  <1> QED BY <1>2, <1>3 DEF Intact, Displays
-----------------------------------------------------------------------------
(* A window that is made adds one zero timer, and no second one follows.   *)
LEMMA EnsureGlSound ==
  ASSUME NEW d, Intact(d), qt6 \in BOOLEAN, d.detached, d.failed \/ d.video = NoWindow,
         NEW e \in ensureGlWidget(d)
  PROVE  /\ Intact(e) /\ e.timers <= d.timers + 1 /\ Ready(e)
         /\ e.scene = NoWindow /\ e.video \in {d.video, NoWindow}
  <1>1. d \in Displays /\ d.scene = NoWindow /\ d.timers \in Nat
    BY DEF Intact, Displays
  <1>2. CASE d.failed
    <2>1. e = d
      BY <1>2 DEF ensureGlWidget
    <2> QED BY <1>1, <1>2, <2>1 DEF Ready
  <1>3. CASE ~d.failed /\ d.glWidget # NoWindow
    <2>1. PICK label \in {d.label, NoFrame} :
            e = [d EXCEPT !.glWidget.visible = TRUE, !.glWidget.closed = FALSE, !.label = label]
      BY <1>1, <1>3 DEF ensureGlWidget, Displays
    <2>2. d.glWidget \in Window
      BY <1>1, <1>3 DEF Displays, Windows
    <2>3. [d.glWidget EXCEPT !.visible = TRUE, !.closed = FALSE] \in Window
      BY <2>2 DEF Window
    <2>4. PICK shown \in Window : shown = [d.glWidget EXCEPT !.visible = TRUE, !.closed = FALSE]
      BY <2>3
    <2>5. e = [d EXCEPT !.glWidget = shown, !.label = label]
      BY <1>1, <2>1, <2>4 DEF Displays
    <2>6. shown # NoWindow
      BY OutputAssumption
    <2>7. e \in Displays
      BY <1>1, <2>5 DEF Displays, Windows, Pixels
    <2>8. /\ e.glWidget = shown /\ e.video = d.video /\ e.scene = d.scene
          /\ e.timers = d.timers /\ e.failed = d.failed /\ e.detached = d.detached
          /\ e.check = d.check /\ e.gl = d.gl
      BY <1>1, <2>5 DEF Displays
    <2>9. Intact(e)
      BY <1>1, <1>3, <2>6, <2>7, <2>8 DEF Intact
    <2> QED BY <1>1, <2>6, <2>8, <2>9 DEF Ready
  <1>4. CASE ~d.failed /\ d.glWidget = NoWindow /\ ~platformGL
    <2>1. e = fallbackToSoftware(d)
      BY <1>4 DEF ensureGlWidget
    <2>2. Intact(e) /\ e.timers = d.timers /\ ~(e.detached /\ e.gl) /\ e.scene = d.scene
      BY <2>1, FallbackSound
    <2>3. d.video = NoWindow => e.video = NoWindow
      BY <2>1, FallbackSound
    <2>4. e.timers <= d.timers + 1
      BY <1>1, <2>2
    <2>5. e.video \in {d.video, NoWindow}
      BY <1>4, <2>3
    <2> QED BY <1>1, <2>2, <2>4, <2>5 DEF Ready
  <1>5. CASE ~d.failed /\ d.glWidget = NoWindow /\ platformGL
    <2>1. PICK v \in BOOLEAN :
            e = [d EXCEPT !.glWidget = Opened(v),
                          !.label = NoFrame, !.timers = @ + 1]
      BY <1>5 DEF ensureGlWidget
    <2>2. PICK new \in Window : new = Opened(v)
      BY DEF Window, Opened
    <2>3. e = [d EXCEPT !.glWidget = new, !.label = NoFrame, !.timers = d.timers + 1]
      BY <1>1, <2>1, <2>2 DEF Displays
    <2>4. new # NoWindow
      BY OutputAssumption
    <2>5. PICK more \in Nat : more = d.timers + 1
      BY <1>1
    <2>6. e = [d EXCEPT !.glWidget = new, !.label = NoFrame, !.timers = more]
      BY <2>3, <2>5
    <2>7. e \in Displays
      BY <1>1, <2>6 DEF Displays, Windows, Pixels
    <2>8. /\ e.glWidget = new /\ e.video = d.video /\ e.scene = d.scene
          /\ e.timers = more /\ e.failed = d.failed /\ e.detached = d.detached
          /\ e.check = d.check /\ e.gl = d.gl
      BY <1>1, <2>6 DEF Displays
    <2>9. Intact(e)
      BY <1>1, <1>5, <2>4, <2>7, <2>8 DEF Intact
    <2> QED BY <1>1, <2>4, <2>5, <2>8, <2>9 DEF Ready
  <1> QED BY <1>2, <1>3, <1>4, <1>5

(* The badge is of no consequence for the surfaces.                        *)
LEMMA BadgeSound ==
  ASSUME NEW d, Intact(d), NEW e, e = createPerfBadge(d)
  PROVE  /\ Intact(e) /\ e.timers = d.timers /\ e.label = d.label
         /\ e.detached = d.detached /\ e.gl = d.gl /\ e.failed = d.failed
         /\ e.glWidget = d.glWidget /\ e.video = d.video /\ e.scene = d.scene
  <1>1. e = d \/ e = [d EXCEPT !.badge = TRUE]
    BY DEF createPerfBadge
  <1> QED BY <1>1 DEF Intact, Displays

(* Whatever window a frame asks for, there is one surface at most, and no  *)
(* GL window is wanted any more (ensureVideoWidget).                       *)
LEMMA EnsureVideoSound ==
  ASSUME NEW d, Intact(d), {qt6, hardwareGL} \subseteq BOOLEAN, NEW frame \in Frame,
         NEW e \in ensureVideoWidget(d, WantGlBlit(d, frame))
  PROVE  Intact(e) /\ Ready(e) /\ e.timers <= d.timers + 1
  <1> DEFINE want == WantGlBlit(d, frame)
  <1>1. d \in Displays /\ d.timers \in Nat
    BY DEF Intact, Displays
  <1>2. CASE (qt6 /\ ~d.detached) \/ (d.glWidget # NoWindow /\ (want \/ ~qt6))
    <2>1. e = d
      BY <1>2 DEF ensureVideoWidget
    <2> QED BY <1>1, <1>2, <2>1 DEF Ready
  <1>3. CASE /\ ~(qt6 /\ ~d.detached) /\ ~(d.glWidget # NoWindow /\ (want \/ ~qt6))
             /\ want
    <2>1. d.detached /\ ~d.failed /\ d.glWidget = NoWindow
      BY <1>3 DEF WantGlBlit
    <2> DEFINE alone == [d EXCEPT !.video = NoWindow]
    <2>2. Intact(alone) /\ alone.detached /\ alone.video = NoWindow /\ alone.timers = d.timers
      BY <1>1, <2>1 DEF Intact, Displays, Windows
    <2>3. PICK f \in ensureGlWidget(alone) :
            e = IF f.glWidget = NoWindow THEN f ELSE createPerfBadge([f EXCEPT !.label = NoFrame])
      BY <1>3 DEF ensureVideoWidget
    <2> HIDE DEF alone
    <2>4. Intact(f) /\ f.timers <= d.timers + 1 /\ Ready(f)
      BY <2>2, <2>3, EnsureGlSound
    <2>5. CASE f.glWidget = NoWindow
      BY <2>3, <2>4, <2>5
    <2>6. CASE f.glWidget # NoWindow
      <3> DEFINE bare == [f EXCEPT !.label = NoFrame]
      <3>1. /\ Intact(bare) /\ bare.glWidget = f.glWidget /\ bare.timers = f.timers
        BY <2>4 DEF Intact, Displays, Pixels
      <3>2. e = createPerfBadge(bare)
        BY <2>3, <2>6
      <3> HIDE DEF bare
      <3> QED BY <2>4, <2>6, <3>1, <3>2, BadgeSound DEF Ready
    <2> QED BY <2>5, <2>6
  <1>4. CASE /\ ~(qt6 /\ ~d.detached) /\ ~(d.glWidget # NoWindow /\ (want \/ ~qt6))
             /\ ~want /\ (~qt6 \/ d.video # NoWindow)
    <2>1. e = d
      BY <1>4 DEF ensureVideoWidget
    <2>2. ~qt6 => ~(d.detached /\ ~d.failed)
      BY <1>4 DEF WantGlBlit, Intact
    <2>3. d.video # NoWindow => d.failed \/ ~d.gl
      BY DEF Intact
    <2> QED BY <1>1, <1>4, <2>1, <2>2, <2>3 DEF Ready
  <1>5. CASE /\ ~(qt6 /\ ~d.detached) /\ ~(d.glWidget # NoWindow /\ (want \/ ~qt6))
             /\ ~want /\ qt6 /\ d.video = NoWindow
    <2>1. d.detached /\ (d.failed \/ ~d.gl)
      BY <1>5 DEF WantGlBlit
    <2>2. PICK new \in Window : new = Opened(TRUE)
      BY DEF Window, Opened
    <2>2a. HiddenByUserOnly(new)
      BY <2>2 DEF Opened, HiddenByUserOnly
    <2> DEFINE bare == [d EXCEPT !.glWidget = NoWindow, !.video = new, !.label = NoFrame]
    <2>3. e = createPerfBadge(bare)
      BY <1>5, <2>2 DEF ensureVideoWidget
    <2>4. new # NoWindow
      BY OutputAssumption
    <2>5. /\ Intact(bare) /\ bare.timers = d.timers /\ bare.failed = d.failed /\ bare.gl = d.gl
      BY <1>1, <1>5, <2>1, <2>2a, <2>4 DEF Intact, Displays, Windows, Pixels
    <2> HIDE DEF bare
    <2> QED BY <1>1, <2>1, <2>3, <2>5, BadgeSound DEF Ready
  <1> QED BY <1>2, <1>3, <1>4, <1>5
-----------------------------------------------------------------------------
(* The label shows what the port lost.                                     *)
LEMMA EmptiedSound ==
  ASSUME NEW d, Intact(d), NEW e \in updateDisplay(d, NoFrame)
  PROVE  /\ Intact(e) /\ e.timers = d.timers /\ e.badge = d.badge /\ e.label = NoFrame
         /\ (NoSurface(d) => NoSurface(e))
  <1>1. d \in Displays
    BY DEF Intact
  <1>2. CASE d.detached /\ d.gl /\ d.glWidget # NoWindow
    <2>1. e = [d EXCEPT !.label = NoFrame, !.glWidget = [d.glWidget EXCEPT !.visible = FALSE]]
      BY <1>1, <1>2 DEF updateDisplay, Displays
    <2>2. PICK hidden \in Window : hidden = [d.glWidget EXCEPT !.visible = FALSE]
      BY <1>1, <1>2 DEF Displays, Windows, Window
    <2>3. e = [d EXCEPT !.label = NoFrame, !.glWidget = hidden]
      BY <2>1, <2>2
    <2> QED BY <1>1, <1>2, <2>3 DEF Intact, Displays, Windows, Pixels, NoSurface
  <1>3. CASE ~(d.detached /\ d.gl /\ d.glWidget # NoWindow)
    <2>1. e = [d EXCEPT !.label = NoFrame]
      BY <1>1, <1>3 DEF updateDisplay, Displays
    <2> QED BY <1>1, <2>1 DEF Intact, Displays, Pixels, NoSurface
  <1> QED BY <1>2, <1>3

(* A frame that no window takes is on the label, or in a GL window that is *)
(* made for it.                                                            *)
LEMMA UpdatedSound ==
  ASSUME NEW d, Intact(d), qt6 \in BOOLEAN, d.glWidget = NoWindow,
         NEW image \in Frame, NEW e \in updateDisplay(d, image)
  PROVE  /\ Intact(e) /\ e.timers <= d.timers + 1 /\ (Ready(d) => e.timers = d.timers)
         /\ (d.video = NoWindow /\ d.scene = NoWindow => Presents(e, image))
  <1>1. d \in Displays /\ d.timers \in Nat /\ image # NoFrame
    BY OutputAssumption DEF Intact, Displays
  <1>2. CASE d.detached /\ d.gl
    <2>1. PICK f \in ensureGlWidget(d) :
            e = IF f.glWidget # NoWindow THEN [f EXCEPT !.glWidget.shows = image]
                                         ELSE [f EXCEPT !.label = image]
      BY <1>1, <1>2 DEF updateDisplay
    <2>2. d.failed \/ d.video = NoWindow
      BY <1>2 DEF Intact
    <2>3. /\ Intact(f) /\ f.timers <= d.timers + 1 /\ f.scene = NoWindow
          /\ f.video \in {d.video, NoWindow}
      BY <1>2, <2>1, <2>2, EnsureGlSound
    <2>4. Ready(d) => f = d
      BY <1>2, <2>1 DEF Ready, ensureGlWidget
    <2>5. f \in Displays
      BY <2>3 DEF Intact
    <2>6. CASE f.glWidget # NoWindow
      <3>1. PICK new \in Window : new = [f.glWidget EXCEPT !.shows = image]
        BY <2>5, <2>6 DEF Displays, Windows, Window
      <3>2. e = [f EXCEPT !.glWidget = new]
        BY <2>1, <2>5, <2>6, <3>1 DEF Displays
      <3>3. new # NoWindow /\ new.shows = image
        BY <2>5, <2>6, <3>1, OutputAssumption DEF Displays, Windows, Window
      <3>4. /\ e \in Displays /\ e.glWidget = new /\ e.video = f.video /\ e.scene = f.scene
            /\ e.timers = f.timers /\ e.failed = f.failed /\ e.detached = f.detached
            /\ e.check = f.check /\ e.gl = f.gl
        BY <2>5, <3>2 DEF Displays, Windows
      <3>5. Intact(e)
        BY <2>3, <2>6, <3>3, <3>4 DEF Intact
      <3>6. e.video = NoWindow /\ e.scene = NoWindow
        BY <3>3, <3>4, <3>5, <2>3 DEF Intact
      <3> QED BY <2>3, <2>4, <3>3, <3>4, <3>5, <3>6 DEF Presents, NoSurface
    <2>7. CASE f.glWidget = NoWindow
      <3>1. e = [f EXCEPT !.label = image]
        BY <2>1, <2>7
      <3>2. /\ e \in Displays /\ e.glWidget = NoWindow /\ e.video = f.video /\ e.scene = f.scene
            /\ e.timers = f.timers /\ e.failed = f.failed /\ e.detached = f.detached
            /\ e.check = f.check /\ e.gl = f.gl /\ e.label = image
        BY <2>5, <2>7, <3>1 DEF Displays, Pixels
      <3>3. Intact(e)
        BY <2>3, <3>2 DEF Intact
      <3> QED BY <2>3, <2>4, <3>2, <3>3 DEF Presents, NoSurface
    <2> QED BY <2>6, <2>7
  <1>3. CASE ~(d.detached /\ d.gl)
    <2>1. e = [d EXCEPT !.label = image]
      BY <1>3 DEF updateDisplay
    <2>2. /\ e \in Displays /\ e.glWidget = NoWindow /\ e.video = d.video /\ e.scene = d.scene
          /\ e.timers = d.timers /\ e.failed = d.failed /\ e.detached = d.detached
          /\ e.check = d.check /\ e.gl = d.gl /\ e.label = image
      BY <1>1, <2>1 DEF Displays, Pixels
    <2>3. Intact(e)
      BY <2>2 DEF Intact
    <2> QED BY <1>1, <2>2, <2>3 DEF Presents, NoSurface
  <1> QED BY <1>2, <1>3

(* The item in the scene takes the place of the label.                     *)
LEMMA SceneSound ==
  ASSUME NEW d, Intact(d), qt6, ~d.detached, NEW e \in ensureSceneVideoItem(d)
  PROVE  /\ Intact(e) /\ e.timers = d.timers /\ ~e.detached
         /\ e.glWidget = NoWindow /\ e.video = NoWindow
  <1>1. d \in Displays
    BY DEF Intact
  <1>2. PICK new \in Window : new = Opened(TRUE)
    BY DEF Window, Opened
  <1>2a. HiddenByUserOnly(new)
    BY <1>2 DEF Opened, HiddenByUserOnly
  <1>3. e = d \/ e = [d EXCEPT !.scene = new, !.label = NoFrame]
    BY <1>2 DEF ensureSceneVideoItem
  <1> QED BY <1>1, <1>2a, <1>3, NothingHidden DEF Intact, Displays, Windows, Pixels
-----------------------------------------------------------------------------
(* A window is given a frame and nothing else about the display changes.   *)
LEMMA GivenSound ==
  ASSUME NEW d, Intact(d), NEW frame \in Frame, NEW kind \in {"glWidget", "video", "scene"},
         d[kind] # NoWindow, NEW e, e = [d EXCEPT ![kind].shows = frame]
  PROVE  Intact(e) /\ e.timers = d.timers /\ Presents(e, frame)
  <1>1. d \in Displays
    BY DEF Intact
  <1>2. d[kind] \in Window
    BY <1>1 DEF Displays, Windows
  <1>3. PICK new \in Window : new = [d[kind] EXCEPT !.shows = frame]
    BY <1>2 DEF Window
  <1>4. new # NoWindow /\ new.shows = frame
    BY <1>2, <1>3, OutputAssumption DEF Window
  <1>5. e = [d EXCEPT ![kind] = new]
    BY <1>3, <1>1 DEF Displays
  <1>5a. HiddenByUserOnly(d[kind]) => HiddenByUserOnly(new)
    BY <1>2, <1>3 DEF Window, HiddenByUserOnly
  <1>6. CASE kind = "glWidget"
    BY <1>1, <1>4, <1>5, <1>6 DEF Intact, Displays, Windows, Presents, NoSurface
  <1>7. CASE kind = "video"
    BY <1>1, <1>4, <1>5, <1>5a, <1>7 DEF Intact, Displays, Windows, Presents, NoSurface
  <1>8. CASE kind = "scene"
    BY <1>1, <1>4, <1>5, <1>5a, <1>8 DEF Intact, Displays, Windows, Presents, NoSurface
  <1> QED BY <1>6, <1>7, <1>8

(* A frame is shown unless it has no image and no window took it.          *)
LEMMA PresentSound ==
  ASSUME InputInv, NEW d, Intact(d), Ready(d), NEW frame \in Frame, NEW image \in BOOLEAN,
         Present(d, frame, image)
  PROVE  /\ Intact(display') /\ display'.timers = d.timers
         /\ (image => Presents(display', frame))
         /\ m_image' \in Pixels /\ m_outputFrame' \in BOOLEAN
  <1>1. d \in Displays /\ qt6 \in BOOLEAN /\ m_outputFrame \in BOOLEAN /\ m_image \in Pixels
    BY DEF Intact, InputInv
  <1>2. PassOn => m_outputFrame' \in BOOLEAN
    BY <1>1 DEF PassOn
  <1>3. PICK e : e = display'
    OBVIOUS
  <1>4. CASE d.glWidget # NoWindow
    <2>1. /\ e = [d EXCEPT !.glWidget.shows = frame]
          /\ m_image' \in Pixels /\ m_outputFrame' \in BOOLEAN
      BY <1>1, <1>2, <1>3, <1>4 DEF Present
    <2>2. e = [d EXCEPT !["glWidget"].shows = frame] /\ d["glWidget"] # NoWindow
      BY <1>4, <2>1
    <2> QED BY <1>3, <2>1, <2>2, GivenSound
  <1>5. CASE d.glWidget = NoWindow /\ d.video # NoWindow
    <2>1. /\ e = [d EXCEPT !.video.shows = frame]
          /\ m_image' \in Pixels /\ m_outputFrame' \in BOOLEAN
      BY <1>1, <1>2, <1>3, <1>5 DEF Present
    <2>2. e = [d EXCEPT !["video"].shows = frame] /\ d["video"] # NoWindow
      BY <1>5, <2>1
    <2> QED BY <1>3, <2>1, <2>2, GivenSound
  <1>6. CASE d.glWidget = NoWindow /\ d.video = NoWindow
    <2>1. PICK f \in IF qt6 /\ ~d.detached THEN ensureSceneVideoItem(d) ELSE {d} :
            \/ /\ f.scene # NoWindow /\ ~f.detached
               /\ e = [f EXCEPT !.scene.shows = frame]
               /\ UNCHANGED <<m_image, m_outputFrame>>
            \/ /\ f.scene = NoWindow \/ f.detached
               /\ image /\ m_image' = frame
               /\ e \in updateDisplay(f, frame) /\ PassOn
            \/ /\ f.scene = NoWindow \/ f.detached
               /\ ~image /\ e = f
               /\ UNCHANGED <<m_image, m_outputFrame>>
      BY <1>3, <1>6 DEF Present
    <2>2. /\ Intact(f) /\ f.timers = d.timers /\ Ready(f)
          /\ f.glWidget = NoWindow /\ f.video = NoWindow
      BY <1>6, <2>1, SceneSound DEF Ready
    <2>3. f.detached => f.scene = NoWindow
      BY <2>2 DEF Intact
    <2>4. CASE f.scene # NoWindow /\ ~f.detached
      <3>1. e = [f EXCEPT !["scene"].shows = frame] /\ f["scene"] # NoWindow
        BY <2>1, <2>4
      <3>2. m_image' \in Pixels /\ m_outputFrame' \in BOOLEAN
        BY <1>1, <2>1, <2>4
      <3>3. Intact(e) /\ e.timers = f.timers /\ Presents(e, frame)
        BY <2>2, <3>1, GivenSound
      <3> QED BY <1>3, <2>2, <3>2, <3>3
    <2>5. CASE (f.scene = NoWindow \/ f.detached) /\ image
      <3>1. e \in updateDisplay(f, frame) /\ m_image' = frame /\ PassOn
        BY <2>1, <2>5
      <3>2. Intact(e) /\ e.timers = f.timers /\ Presents(e, frame)
        BY <1>1, <2>2, <2>3, <2>5, <3>1, UpdatedSound
      <3> QED BY <1>2, <1>3, <2>2, <3>1, <3>2 DEF Pixels
    <2>6. CASE (f.scene = NoWindow \/ f.detached) /\ ~image
      BY <1>1, <1>3, <2>1, <2>2, <2>6
    <2> QED BY <2>4, <2>5, <2>6
  <1> QED BY <1>4, <1>5, <1>6

(* What the effects make of a frame.                                       *)
LEMMA ProcessedFrame ==
  ASSUME NEW frame \in Frame, frame.effect = NoEffect, NEW effect \in Effect \cup {NoEffect},
         {hardwareGL} \subseteq BOOLEAN, NEW drawn \in BOOLEAN, NEW image \in BOOLEAN,
         NEW processed, processed = Processed(frame, effect, drawn, image)
  PROVE  /\ processed \in Frame /\ processed.pic = frame.pic
         /\ processed.effect \in {effect, NoEffect}
         /\ (image /\ ~frame.rgba => processed.effect = effect)
  BY OutputAssumption DEF Processed, MayDraw, Frame, Effect

(* What is seen of the surfaces in S and a label.                          *)
SeenOn(S, label) == IF S = {} THEN label ELSE (CHOOSE s \in S : TRUE).shows

(* A frame that is on its surface is the frame that is seen.               *)
LEMMA Seen ==
  ASSUME NEW d, Intact(d), NEW f, Presents(d, f), NEW S, S = {d.glWidget, d.video, d.scene} \ {NoWindow}
  PROVE  f = SeenOn(S, d.label)
  <1>1. CASE S = {}
    BY <1>1 DEF Presents, NoSurface, SeenOn
  <1>2. CASE S # {}
    <2>1. \A s \in S : s.shows = f
      BY DEF Presents
    <2> QED BY <1>2, <2>1 DEF SeenOn
  <1> QED BY <1>1, <1>2

LEMMA AcceptKeeps ==
  ASSUME OutputInv, m_videoInputConnected, display.timers < MaxTimers,
         NEW frame \in Frame, frame.effect = NoEffect, m_effect' \in Effect \cup {NoEffect},
         NEW drawn \in BOOLEAN, NEW image \in BOOLEAN, Accept(frame, drawn, image),
         UNCHANGED <<machine, edges>>
  PROVE  OutputInv'
  <1> PICK effect \in Effect \cup {NoEffect} : effect = m_effect'
    OBVIOUS
  <1> DEFINE processed == Processed(frame, effect, drawn, image)
  <1>1. processed = Processed(frame, effect, drawn, image)
    OBVIOUS
  <1> HIDE DEF processed
  <1>2. /\ InputInv /\ Intact(display) /\ display.timers < MaxTimers
        /\ {qt6, hardwareGL} \subseteq BOOLEAN
    BY DEF OutputInv, InputInv
  <1>3. /\ processed \in Frame /\ processed.pic = frame.pic
        /\ processed.effect \in {effect, NoEffect}
        /\ (image /\ ~frame.rgba => processed.effect = effect)
    BY <1>1, <1>2, ProcessedFrame
  <1>4. PICK d \in ensureVideoWidget(display, WantGlBlit(display, processed)) :
          Present(d, processed, image)
    BY <1>1 DEF Accept
  <1>5. Intact(d) /\ Ready(d) /\ d.timers <= display.timers + 1
    BY <1>2, <1>3, EnsureVideoSound
  <1>6. PICK e : e = display'
    OBVIOUS
  <1>7. /\ Intact(e) /\ e.timers = d.timers /\ (image => Presents(e, processed))
        /\ m_image' \in Pixels /\ m_outputFrame' \in BOOLEAN
    BY <1>2, <1>3, <1>4, <1>5, <1>6, PresentSound
  <1>8. m_lastInput' = frame /\ arrived' = image
    BY DEF Accept
  <1>9. InputInv'
    BY <1>1, <1>2, <1>7, <1>8 DEF InputInv, Pixels, machine, edges
  <1>10. Intact(display)' /\ (display.timers <= MaxTimers)'
    <2>1. display.timers \in Nat /\ e.timers \in Nat
      BY <1>2, <1>7 DEF Intact, Displays
    <2>2. e.timers <= MaxTimers
      BY <1>2, <1>5, <1>7, <2>1, OutputAssumption DEF Intact, Displays
    <2> QED BY <1>6, <1>7, <2>2 DEF Intact, machine
  <1>11. NothingAfterDisconnect'
    BY DEF NothingAfterDisconnect, edges
  <1>12. FrameIsShown'
    <2>1. CASE ~image
      BY <1>8, <2>1 DEF FrameIsShown
    <2>2. CASE image
      <3>1. PICK S : S = {e.glWidget, e.video, e.scene} \ {NoWindow}
        OBVIOUS
      <3>2. processed = SeenOn(S, e.label)
        BY <1>7, <2>2, <3>1, Seen
      <3>3. Surfaces' = S
        BY <1>6, <3>1 DEF Surfaces
      <3>4. processed # NoFrame
        BY <1>3, OutputAssumption
      <3>5. \A s \in S \ {e.glWidget} : s.visible = ~s.closed
        BY <1>7, <3>1 DEF Intact, HiddenByUserOnly
      <3>6. FrameIsShown' <=>
              (arrived' =>
                /\ processed # NoFrame /\ processed.pic = m_lastInput'.pic
                /\ m_lastInput'.effect = NoEffect
                /\ processed.effect = m_effect' \/ (processed.effect = NoEffect /\ m_lastInput'.rgba)
                /\ \A s \in S \ {e.glWidget} : s.visible = ~s.closed)
        BY <1>6, <3>2, <3>3 DEF FrameIsShown, SeenOn
      <3> QED BY <1>1, <1>3, <1>8, <2>2, <3>4, <3>5, <3>6
    <2> QED BY <2>1, <2>2
  <1> QED BY <1>9, <1>10, <1>11, <1>12 DEF OutputInv
-----------------------------------------------------------------------------
LEMMA InitOutputInv == OutputInit => OutputInv
  <1> SUFFICES ASSUME OutputInit PROVE OutputInv
    OBVIOUS
  <1>1. InputInv
    <2>1. {qt6, hardwareGL, platformGL, m_videoInputConnected, m_selfNodeIdKnown, m_outputFrame, arrived}
             \subseteq BOOLEAN
      BY DEF OutputInit
    <2> QED BY <2>1 DEF OutputInit, InputInv, Pixels
  <1>2. Intact(display) /\ display.timers <= MaxTimers
    <2>1. PICK blit \in BOOLEAN, on \in BOOLEAN :
            /\ on = (qt6 \/ blit)
            /\ display = [check |-> on, detached |-> on, gl |-> blit, failed |-> FALSE,
                          glWidget |-> NoWindow, video |-> NoWindow, scene |-> NoWindow,
                          label |-> NoFrame, badge |-> FALSE, timers |-> 0]
      BY DEF OutputInit
    <2> QED BY <2>1, OutputAssumption, NothingHidden DEF OutputInit, Intact, Displays, Windows, Pixels
  <1>3. NothingAfterDisconnect
    BY DEF OutputInit, NothingAfterDisconnect, Surfaces
  <1>4. FrameIsShown
    BY DEF OutputInit, FrameIsShown
  <1> QED BY <1>1, <1>2, <1>3, <1>4 DEF OutputInv

(* A step that is none of a frame's: what is left to show of it.           *)
LEMMA OtherKeeps ==
  ASSUME OutputInv, UNCHANGED machine, ~arrived', arrived' \in BOOLEAN, InputInv',
         NEW e, e = display', Intact(e), e.timers <= MaxTimers,
         ~m_videoInputConnected' =>
            /\ NoSurface(e) /\ e.label = NoFrame /\ ~e.badge
            /\ m_image' = NoFrame /\ m_lastInput' = NoFrame /\ ~m_outputFrame'
  PROVE  OutputInv'
  <1>1. Intact(display)' /\ (display.timers <= MaxTimers)'
    BY DEF Intact, machine
  <1>2. NothingAfterDisconnect'
    BY DEF NothingAfterDisconnect, Surfaces, NoSurface
  <1>3. FrameIsShown'
    BY DEF FrameIsShown
  <1> QED BY <1>1, <1>2, <1>3 DEF OutputInv

LEMMA InputsKeep == ASSUME OutputInv, Inputs PROVE OutputInv'
  <1>1. InputInv /\ Intact(display) /\ display.timers <= MaxTimers /\ NothingAfterDisconnect
    BY DEF OutputInv
  <1>2. PICK e : e = display'
    OBVIOUS
  <1>3. ASSUME NEW frame \in Frame, frame.effect = NoEffect, setInDataFrame(frame)
        PROVE  OutputInv'
    <2>1. PICK drawn \in BOOLEAN, image \in BOOLEAN : Accept(frame, drawn, image)
      BY <1>3 DEF setInDataFrame
    <2>2. m_effect' \in Effect \cup {NoEffect}
      BY <1>1, <1>3 DEF setInDataFrame, InputInv
    <2> QED BY <1>3, <2>1, <2>2, AcceptKeeps DEF setInDataFrame
  <1>4. ASSUME setInDataNull
        PROVE  OutputInv'
    <2>1. /\ Intact(e) /\ e.timers = display.timers /\ e.badge = display.badge
          /\ e.label = NoFrame /\ (NoSurface(display) => NoSurface(e))
      BY <1>1, <1>2, <1>4, EmptiedSound DEF setInDataNull
    <2>2. InputInv'
      BY <1>1, <1>4 DEF setInDataNull, InputInv, Pixels, machine, edges
    <2> QED BY <1>1, <1>2, <1>4, <2>1, <2>2, OtherKeeps
            DEF setInDataNull, NothingAfterDisconnect, Surfaces, NoSurface, edges
  <1>5. ASSUME NEW effect \in Effect \cup {NoEffect}, setEffectIndex(effect)
        PROVE  OutputInv'
    <2>1. InputInv'
      BY <1>1, <1>5 DEF setEffectIndex, InputInv, frames, machine, edges
    <2>2. e = display /\ Intact(e) /\ e.timers <= MaxTimers
      BY <1>1, <1>2, <1>5 DEF setEffectIndex
    <2>3. ~m_videoInputConnected' =>
            /\ NoSurface(e) /\ e.label = NoFrame /\ ~e.badge
            /\ m_image' = NoFrame /\ m_lastInput' = NoFrame /\ ~m_outputFrame'
      BY <1>1, <1>5, <2>2 DEF setEffectIndex, NothingAfterDisconnect, Surfaces, NoSurface, edges, frames
    <2>4. UNCHANGED machine /\ ~arrived' /\ arrived' \in BOOLEAN
      BY <1>5 DEF setEffectIndex
    <2> QED BY <1>2, <2>1, <2>2, <2>3, <2>4, OtherKeeps
  <1>6. ASSUME NEW effect \in Effect \cup {NoEffect}, load(effect)
        PROVE  OutputInv'
    <2>1. PICK drawn \in BOOLEAN, image \in BOOLEAN : Accept(m_lastInput, drawn, image)
      BY <1>6 DEF load
    <2>2. m_lastInput \in Frame /\ m_lastInput.effect = NoEffect
      BY <1>1, <1>6 DEF load, InputInv, Pixels
    <2> QED BY <1>6, <2>1, <2>2, AcceptKeeps DEF load
  <1>7. ASSUME inputConnectionCreated
        PROVE  OutputInv'
    <2>1. InputInv'
      BY <1>1, <1>7 DEF inputConnectionCreated, InputInv, frames, machine
    <2> QED BY <1>1, <1>2, <1>7, <2>1, OtherKeeps DEF inputConnectionCreated
  <1>8. ASSUME inputConnectionDeleted
        PROVE  OutputInv'
    <2> DEFINE d == [display EXCEPT !.glWidget = NoWindow, !.video = NoWindow,
                                    !.scene = NoWindow, !.badge = FALSE]
    <2>1. Intact(d) /\ NoSurface(d) /\ ~d.badge /\ d.timers = display.timers
      BY <1>1 DEF Intact, Displays, Windows, NoSurface
    <2>2. e \in updateDisplay(d, NoFrame)
      BY <1>2, <1>8 DEF inputConnectionDeleted
    <2> HIDE DEF d
    <2>3. /\ Intact(e) /\ e.timers = display.timers /\ ~e.badge
          /\ e.label = NoFrame /\ NoSurface(e)
      BY <2>1, <2>2, EmptiedSound
    <2>4. InputInv'
      BY <1>1, <1>8 DEF inputConnectionDeleted, InputInv, Pixels, machine
    <2> QED BY <1>1, <1>2, <1>8, <2>3, <2>4, OtherKeeps DEF inputConnectionDeleted
  <1>9. ASSUME NEW n \in 0 .. 1, outputConnection(n)
        PROVE  OutputInv'
    <2>1. InputInv'
      BY <1>1, <1>9 DEF outputConnection, InputInv, frames, machine
    <2>2. e = display /\ Intact(e) /\ e.timers <= MaxTimers
      BY <1>1, <1>2, <1>9 DEF outputConnection
    <2>3. ~m_videoInputConnected' =>
            /\ NoSurface(e) /\ e.label = NoFrame /\ ~e.badge
            /\ m_image' = NoFrame /\ m_lastInput' = NoFrame /\ ~m_outputFrame'
      BY <1>1, <1>9, <2>2 DEF outputConnection, NothingAfterDisconnect, Surfaces, NoSurface, frames
    <2>4. UNCHANGED machine /\ ~arrived' /\ arrived' \in BOOLEAN
      BY <1>9 DEF outputConnection
    <2> QED BY <1>2, <2>1, <2>2, <2>3, <2>4, OtherKeeps
  <1> QED BY <1>3, <1>4, <1>5, <1>6, <1>7, <1>8, <1>9 DEF Inputs

(* A step of the widgets: no window is made unless there is a frame.       *)
LEMMA WidgetsKeep == ASSUME OutputInv, Widgets PROVE OutputInv'
  <1>1. InputInv /\ Intact(display) /\ display.timers <= MaxTimers /\ NothingAfterDisconnect
    BY DEF OutputInv
  <1>2. PICK e : e = display'
    OBVIOUS
  <1>3. display \in Displays /\ qt6 \in BOOLEAN
    BY <1>1 DEF Intact, InputInv
  <1>4. Rest => InputInv' /\ UNCHANGED machine /\ ~arrived' /\ arrived' \in BOOLEAN
    BY <1>1 DEF Rest, InputInv, machine, frames, edges
  <1>5. ASSUME Rest, Intact(e), e.timers <= MaxTimers,
               ~m_videoInputConnected => NoSurface(e) /\ e.label = NoFrame /\ ~e.badge
        PROVE  OutputInv'
    BY <1>1, <1>2, <1>4, <1>5, OtherKeeps DEF Rest, frames, edges, NothingAfterDisconnect
  <1>6. ~m_videoInputConnected =>
          NoSurface(display) /\ display.label = NoFrame /\ ~display.badge /\ m_image = NoFrame
    BY <1>1 DEF NothingAfterDisconnect, Surfaces, NoSurface
  <1>7. CASE ToggleGpuDisplay
    <2>1. /\ Intact(e) /\ e.timers = display.timers /\ e.badge = display.badge
          /\ (NoSurface(display) => NoSurface(e)) /\ e.label \in {display.label, NoFrame}
      BY <1>1, <1>2, <1>3, <1>7, ToggleSound DEF ToggleGpuDisplay
    <2> QED BY <1>1, <1>5, <1>6, <1>7, <2>1 DEF ToggleGpuDisplay
  <1>8. CASE CheckGlWidget
    <2> DEFINE d == [display EXCEPT !.timers = @ - 1]
    <2>1. Intact(d) /\ d.timers <= MaxTimers
      <3>1. PICK less \in Nat : less = display.timers - 1 /\ less <= MaxTimers
        BY <1>1, <1>3, <1>8, OutputAssumption DEF CheckGlWidget, Displays
      <3>2. d = [display EXCEPT !.timers = less]
        BY <1>3, <3>1 DEF Displays
      <3> HIDE DEF d
      <3> QED BY <1>1, <1>3, <3>1, <3>2 DEF Intact, Displays
    <2>2. /\ d.badge = display.badge /\ d.label = display.label
          /\ (NoSurface(display) => NoSurface(d))
      BY <1>3 DEF Displays, NoSurface
    <2>3. e = d \/ e = fallbackToSoftware(d)
      BY <1>2, <1>8 DEF CheckGlWidget
    <2> HIDE DEF d
    <2>4. /\ Intact(e) /\ e.timers = d.timers /\ e.badge = d.badge
          /\ (NoSurface(d) => NoSurface(e)) /\ e.label \in {d.label, NoFrame}
      BY <1>3, <2>1, <2>3, FallbackSound DEF NoSurface
    <2> QED BY <1>5, <1>6, <1>8, <2>1, <2>2, <2>4 DEF CheckGlWidget
  <1>9. CASE CloseWindow
    <2>1. PICK kind \in {"glWidget", "video"} :
            /\ display[kind] # NoWindow /\ display[kind].visible
            /\ e = [display EXCEPT ![kind].visible = FALSE, ![kind].closed = TRUE]
      <3>1. CASE /\ display.glWidget # NoWindow /\ display.glWidget.visible
                 /\ e = [display EXCEPT !.glWidget.visible = FALSE, !.glWidget.closed = TRUE]
        <4> WITNESS "glWidget" \in {"glWidget", "video"}
        <4> QED BY <3>1
      <3>2. CASE /\ display.video # NoWindow /\ display.video.visible
                 /\ e = [display EXCEPT !.video.visible = FALSE, !.video.closed = TRUE]
        <4> WITNESS "video" \in {"glWidget", "video"}
        <4> QED BY <3>2
      <3> QED BY <1>2, <1>9, <3>1, <3>2 DEF CloseWindow
    <2>2. PICK hidden \in Window :
            hidden = [display[kind] EXCEPT !.visible = FALSE, !.closed = TRUE]
      BY <1>3, <2>1 DEF Displays, Windows, Window
    <2>2a. hidden # NoWindow /\ HiddenByUserOnly(hidden)
      BY <1>3, <2>1, <2>2, OutputAssumption DEF Displays, Windows, Window, HiddenByUserOnly
    <2>3. e = [display EXCEPT ![kind] = hidden]
      BY <1>3, <2>1, <2>2 DEF Displays
    <2>4. Intact(e) /\ e.timers = display.timers /\ ~NoSurface(display)
      BY <1>1, <1>3, <2>1, <2>2a, <2>3 DEF Intact, Displays, Windows, NoSurface
    <2> QED BY <1>1, <1>5, <1>6, <1>9, <2>4 DEF CloseWindow
  <1>10. CASE LabelResized
    <2>1. display.timers < MaxTimers /\ display.glWidget = NoWindow /\ e \in updateDisplay(display, m_image)
      BY <1>2, <1>10 DEF LabelResized
    <2>2. CASE m_image = NoFrame
      <3>1. /\ Intact(e) /\ e.timers = display.timers /\ e.badge = display.badge
            /\ e.label = NoFrame /\ (NoSurface(display) => NoSurface(e))
        BY <1>1, <2>1, <2>2, EmptiedSound
      <3> QED BY <1>1, <1>5, <1>6, <1>10, <3>1 DEF LabelResized
    <2>3. CASE m_image \in Frame
      <3>1. Intact(e) /\ e.timers <= display.timers + 1
        BY <1>1, <1>3, <2>1, <2>3, UpdatedSound
      <3>2. e.timers <= MaxTimers
        BY <1>3, <2>1, <3>1, OutputAssumption DEF Intact, Displays
      <3> QED BY <1>5, <1>6, <1>10, <2>3, <3>1, <3>2, OutputAssumption DEF LabelResized
    <2> QED BY <1>1, <2>2, <2>3 DEF InputInv, Pixels
  <1> QED BY <1>7, <1>8, <1>9, <1>10 DEF Widgets

LEMMA NextOutputInv == OutputInv /\ [OutputNext]_outputVars => OutputInv'
  <1> SUFFICES ASSUME OutputInv, [OutputNext]_outputVars PROVE OutputInv'
    OBVIOUS
  <1>1. CASE Inputs
    BY <1>1, InputsKeep
  <1>2. CASE Widgets
    BY <1>2, WidgetsKeep
  <1>3. CASE UNCHANGED outputVars
    <2>1. UNCHANGED <<qt6, hardwareGL, platformGL, display, m_image, m_lastInput, m_outputFrame,
                      m_videoInputConnected, m_selfNodeIdKnown, m_outputConnectionCount, m_effect, arrived>>
      BY <1>3 DEF outputVars, machine, frames, edges
    <2>2. InputInv'
      BY <2>1 DEF OutputInv, InputInv
    <2>3. Intact(display)' /\ (display.timers <= MaxTimers)'
      BY <2>1 DEF OutputInv, Intact
    <2>4. Surfaces' = Surfaces
      BY <2>1 DEF Surfaces
    <2>5. NothingAfterDisconnect'
      BY <2>1, <2>4 DEF OutputInv, NothingAfterDisconnect
    <2>6. FrameIsShown'
      BY <2>1, <2>4 DEF OutputInv, FrameIsShown
    <2> QED BY <2>2, <2>3, <2>5, <2>6 DEF OutputInv
  <1> QED BY <1>1, <1>2, <1>3 DEF OutputNext

(* Every display that can be reached is sound: what the theorems rest on.  *)
THEOREM OutputInvariant == OutputSpec => []OutputInv
  BY InitOutputInv, NextOutputInv, PTL DEF OutputSpec

(* The type invariant, for any pictures and effects; it bounds the zero    *)
(* timers too, so that no step makes two windows.                          *)
THEOREM OutputTypes == OutputSpec => []OutputTypeOK
  <1>1. OutputInv => OutputTypeOK
    <2> SUFFICES ASSUME OutputInv PROVE OutputTypeOK
      OBVIOUS
    <2>1. display.timers \in 0 .. MaxTimers
      BY OutputAssumption DEF OutputInv, Intact, Displays
    <2>2. display \in [check : BOOLEAN, detached : BOOLEAN, gl : BOOLEAN, failed : BOOLEAN,
                  glWidget : Window \cup {NoWindow}, video : Window \cup {NoWindow},
                  scene : Window \cup {NoWindow}, label : Frame \cup {NoFrame},
                  badge : BOOLEAN, timers : 0 .. MaxTimers]
      BY <2>1 DEF OutputInv, Intact, Displays, Windows, Pixels
    <2> QED BY <2>2 DEF OutputInv, InputInv, OutputTypeOK, Pixels
  <1> QED BY <1>1, OutputInvariant, PTL

(* Through every toggle of the box, fallback and late check of a context   *)
(* there is one surface at most, of the right kind, and none without an    *)
(* edge (setGlEnabled, ensureVideoWidget, inputConnectionDeleted).         *)
THEOREM SurfacesStayRight == OutputSpec => []SurfacesAreRight
  <1>1. OutputInv => SurfacesAreRight
    <2> SUFFICES ASSUME OutputInv PROVE OneSurface
      BY DEF SurfacesAreRight, OutputInv
    <2>1. Intact(display)
      BY DEF OutputInv
    <2>2. ASSUME NEW s \in {"glWidget", "video", "scene"}, NEW t \in {"glWidget", "video", "scene"},
                 display[s] # NoWindow, display[t] # NoWindow
          PROVE  s = t
      BY <2>1, <2>2 DEF Intact
    <2> QED BY <2>1, <2>2 DEF OneSurface, Intact
  <1> QED BY <1>1, OutputInvariant, PTL

(* A frame that arrives, or is processed again, is given to the one        *)
(* surface that is left to show it, with the selected effect once; a frame *)
(* that came as a texture may go without one.  Whether that surface can be *)
(* seen is stated of the native window and the scene's item only, which    *)
(* nobody but the user hides: for a GL window it does not hold, see        *)
(* HiddenWindowComesBack (setInDataFrame, load).                           *)
THEOREM FramesAreShown == OutputSpec => []FrameIsShown
  <1>1. OutputInv => FrameIsShown
    BY DEF OutputInv
  <1> QED BY <1>1, OutputInvariant, PTL
=============================================================================
