----------------------------- MODULE VideoFrames -----------------------------
(***************************************************************************)
(* Video frames on their way from a source through a chain of effect and   *)
(* sampler nodes to a VideoOutputNode with a GL window and an effect of    *)
(* its own, and the GL textures that carry them: VideoFrameData,           *)
(* TexturePool and the setInData of each kind of node.                     *)
(*                                                                         *)
(* A frame is known by what it holds: an effect's frame is the texture it  *)
(* took from its node's pool,  with the size in its handle; a source has   *)
(* one VideoFrameData for all its pictures (Src), and a frame made on the  *)
(* CPU holds no texture (Cpu).  Frames are held by shared_ptr; one that    *)
(* nobody holds any longer dies in the step in which the last one lets go. *)
(* All of this is the GUI thread: pos and arg are the setInData that is    *)
(* about to run inside the dataUpdated of the node before it.              *)
(***************************************************************************)
EXTENDS Naturals, FiniteSets

CONSTANTS
  N, Kind,         \* the nodes between source and output, and their kinds
  Name,            \* the names glGenTextures may give
  Size, Pic,       \* resolutions, and what can be seen on a frame
  Shots,           \* the sizes and pictures the source gives
  None, Src, Cpu,  \* no frame, the source's frame, a frame on the CPU
  Deleted          \* the content of a name that is no texture

Stage == 1 .. N
Out   == N + 1
Node  == 1 .. Out

PoolFrame == Node \X Name \X Size
Frame     == {None, Src, Cpu} \cup PoolFrame
Content   == [size : Size, pic : Pic]
Entry     == [id : Name, size : Size]

ASSUME FramesAssumption ==
  /\ N \in Nat /\ Kind \in [Stage -> {"effect", "sampler"}]
  /\ Shots \subseteq Size \X Pic /\ Shots # {}
  /\ None \notin {Src, Cpu} /\ Src # Cpu
  /\ {None, Src, Cpu} \cap PoolFrame = {}
  /\ None \notin Name /\ Deleted \notin Content
  /\ None \notin [tex : Name, pic : Pic]

VARIABLES
  tex,              \* what the textures of the shared GL context hold
  m_all, m_free,    \* the TexturePool of each node
  src,              \* the source's VideoFrameData, up its uploaded texture
  m_lastInput, m_output,  \* the frames each node holds
  window,           \* the GL window of the output
  m_textureOwner,   \* the frame it holds
  m_textureHandle,  \* the texture it paints, and the picture it was given
  connected,        \* the nodes whose input is connected
  m_outputConnectionCount,  \* of the output: zero or not
  gone,             \* the nodes that were deleted
  pos, arg          \* the node whose setInData is due, with what; 0 is none

poolVars == <<tex, m_all, m_free>>
winVars  == <<window, m_textureOwner, m_textureHandle>>
userVars == <<connected, m_outputConnectionCount, gone>>
vars == <<poolVars, src, m_lastInput, m_output, winVars, userVars, pos, arg>>

TypeOK ==
  /\ tex \in [Name -> Content \cup {Deleted}]
  /\ m_all \in [Node -> SUBSET Entry] /\ m_free \in [Node -> SUBSET Entry]
  /\ src \in [valid : BOOLEAN, size : Size, pic : Pic, up : Name \cup {None}]
  /\ m_lastInput \in [Node -> Frame] /\ m_output \in [Node -> Frame]
  /\ window \in {"none", "shown", "hidden"}
  /\ m_textureOwner \in Frame
  /\ m_textureHandle \in [tex : Name, pic : Pic] \cup {None}
  /\ connected \in SUBSET Node /\ m_outputConnectionCount \in {0, 1}
  /\ gone \in SUBSET Stage
  /\ pos \in 0 .. Out /\ arg \in Frame

Init ==
  /\ tex = [n \in Name |-> Deleted]
  /\ m_all = [k \in Node |-> {}] /\ m_free = [k \in Node |-> {}]
  /\ \E c \in Shots : src = [valid |-> FALSE, size |-> c[1], pic |-> c[2], up |-> None]
  /\ m_lastInput = [k \in Node |-> None] /\ m_output = [k \in Node |-> None]
  /\ window = "none" /\ m_textureOwner = None /\ m_textureHandle = None
  /\ connected = Node /\ m_outputConnectionCount = 0 /\ gone = {}
  /\ pos = 0 /\ arg = None

-----------------------------------------------------------------------------
(* Who holds what, and what happens to a frame that nobody holds: its      *)
(* release callback returns its texture to the pool, and the pool of a     *)
(* node that is gone deletes its textures when its last frame dies.        *)
HeldBy(in, out, owner) ==
  {in[k] : k \in Node} \cup {out[k] : k \in Node} \cup {owner}

Held == HeldBy(m_lastInput, m_output, m_textureOwner)

Carried(k, held) == {n \in Name : \E s \in Size : <<k, n, s>> \in held}
Ids(entries)     == {e.id : e \in entries}

EagerMut(k, held)    == {e \in m_all[k] : e.id \in Carried(k, Held)}
Released(k, held) ==
  {e \in m_all[k] : e.id \in Carried(k, Held) \ Carried(k, held)}

OrphanedMut(k, held, dead) == k \in dead
Orphaned(k, held, dead) == k \in dead /\ Carried(k, held) = {}

AllAfter(held, dead) ==
  [k \in Node |-> IF Orphaned(k, held, dead) THEN {} ELSE m_all[k]]
FreeAfter(held, dead) ==
  [k \in Node |-> IF Orphaned(k, held, dead) THEN {} ELSE m_free[k] \cup Released(k, held)]
TexAfter(held, dead) ==
  [n \in Name |-> IF \E k \in Node : Orphaned(k, held, dead) /\ n \in Ids(m_all[k])
                  THEN Deleted ELSE tex[n]]

(* A step after which the frames held are those of in, out and owner.      *)
Hold(in, out, owner) ==
  LET held == HeldBy(in, out, owner)
  IN /\ m_lastInput' = in /\ m_output' = out /\ m_textureOwner' = owner
     /\ m_all' = AllAfter(held, gone) /\ m_free' = FreeAfter(held, gone)
     /\ tex' = TexAfter(held, gone)

HasFrame(f) == f # None /\ (f = Src => src.valid)

(* The handle of a frame: its texture and size, or None if it has none.    *)
Handle(f) ==
  CASE f \in PoolFrame             -> [tex |-> f[2], size |-> f[3]]
    [] f = Src /\ src.up # None    -> [tex |-> src.up, size |-> src.size]
    [] OTHER                       -> None

Idle == pos' = 0 /\ arg' = None
Call(k, f) == IF k \in connected THEN pos' = k /\ arg' = f ELSE Idle

(* dataInvalidated: QtNodes may pass the loss on, or not.                  *)
Invalidate(k) == Idle \/ Call(k, None)
-----------------------------------------------------------------------------
(* The source: setFrame deletes the textures of the frame before and emits *)
(* the same VideoFrameData again; on Qt 5 only if the new one is valid.    *)
DeleteUpload == IF src.up = None THEN tex ELSE [tex EXCEPT ![src.up] = Deleted]

setFrame(valid, c) ==
  /\ src' = [valid |-> valid, size |-> c[1], pic |-> c[2], up |-> None]
  /\ tex' = DeleteUpload

onFrameAvailable(valid, c) ==
  /\ pos = 0 /\ (~valid => c = <<src.size, src.pic>>)
  /\ setFrame(valid, c)
  /\ Call(1, Src) \/ (~valid /\ Idle)
  /\ UNCHANGED <<m_all, m_free, m_lastInput, m_output, winVars, userVars>>

(* asTexture, called by the node whose turn it is: uploads the source's    *)
(* frame once.  It fails for an unsupported format or a GL error, and the  *)
(* node then goes on without a handle.                                     *)
asTexture ==
  /\ pos # 0 /\ (pos \in Stage => Kind[pos] = "effect")
  /\ arg = Src /\ src.valid /\ src.up = None
  /\ \E n \in Name :
       /\ tex[n] = Deleted
       /\ tex' = [tex EXCEPT ![n] = [size |-> src.size, pic |-> src.pic]]
       /\ src' = [src EXCEPT !.up = n]
  /\ UNCHANGED <<m_all, m_free, m_lastInput, m_output, winVars, userVars, pos, arg>>
-----------------------------------------------------------------------------
(* TexturePool::acquire: the texture, what is free afterwards and the list *)
(* of all; exact is a texture that was returned under the size asked for,  *)
(* whose storage is left alone.                                            *)
New(k, s, free) ==
  {[id |-> n, exact |-> FALSE, free |-> free, all |-> m_all[k] \cup {[id |-> n, size |-> s]}] :
     n \in {m \in Name : tex[m] = Deleted}}

acquire(k, s, free) ==
  LET fits == {e \in free : e.size = s}
      Reuse(entries, exact) ==
        {[id |-> e.id, exact |-> exact, free |-> free \ {e}, all |-> m_all[k]] : e \in entries}
  IN CASE fits # {}               -> Reuse(fits, TRUE)
       [] fits = {} /\ free # {} -> Reuse(free, FALSE)
       [] OTHER                   -> New(k, s, free)

(* processTexture draws what handle h shows into the texture a acquired    *)
(* for node k.  held are the frames held when the step is over: when the   *)
(* drawing fails none of them carries the texture, and it goes back.       *)
processTexture(k, h, a, held) ==
  /\ tex' = [TexAfter(held, gone) EXCEPT ![a.id] =
               [size |-> IF a.exact THEN tex[a.id].size ELSE h.size, pic |-> tex[h.tex].pic]]
  /\ m_all' = [AllAfter(held, gone) EXCEPT ![k] = a.all]
  /\ m_free' = [FreeAfter(held, gone) EXCEPT ![k] =
                  a.free \cup Released(k, held)
                         \cup {e \in a.all : e.id = a.id /\ a.id \notin Carried(k, held)}]

(* setInData of an effect drops its output first, then draws the new one   *)
(* into a texture of the pool.  When that fails the frame is converted on  *)
(* the CPU, which may give none.                                           *)
EffectEmits(i, f) == IF f = None THEN Invalidate(i + 1) ELSE Call(i + 1, f)

EffectOnTexture(i) ==
  LET h      == Handle(arg)
      in     == [m_lastInput EXCEPT ![i] = arg]
      before == HeldBy(in, [m_output EXCEPT ![i] = None], m_textureOwner)
  IN /\ h # None
     /\ \E a \in acquire(i, h.size, FreeAfter(before, gone)[i]) :
        \E f \in {<<i, a.id, h.size>>, Cpu, None} :
          LET out == [m_output EXCEPT ![i] = f]
          IN /\ m_lastInput' = in /\ m_output' = out
             /\ processTexture(i, h, a, HeldBy(in, out, m_textureOwner))
             /\ EffectEmits(i, f)
     /\ UNCHANGED winVars

EffectOnCpu(i) ==
  /\ \E f \in {Cpu, None} :
       /\ Hold([m_lastInput EXCEPT ![i] = arg], [m_output EXCEPT ![i] = f], m_textureOwner)
       /\ EffectEmits(i, f)
  /\ UNCHANGED <<window, m_textureHandle>>

VideoEffectNode(i) ==
  /\ pos = i /\ i \in Stage /\ Kind[i] = "effect"
  /\ IF HasFrame(arg)
     THEN EffectOnTexture(i) \/ EffectOnCpu(i)
     ELSE /\ Hold([m_lastInput EXCEPT ![i] = arg], [m_output EXCEPT ![i] = None], m_textureOwner)
          /\ EffectEmits(i, None)
          /\ UNCHANGED <<window, m_textureHandle>>
  /\ UNCHANGED <<src, userVars>>

(* setInData of a sampler passes the frame itself on, or drops it; passes  *)
(* stands for the counter or the timer of passesGate.                      *)
FrameSamplerNode(i) ==
  /\ pos = i /\ i \in Stage /\ Kind[i] = "sampler"
  /\ \E passes \in BOOLEAN :
       LET out == CASE ~HasFrame(arg) -> None
                    [] HasFrame(arg) /\ passes -> arg
                    [] OTHER -> m_output[i]
       IN /\ Hold([m_lastInput EXCEPT ![i] = arg], [m_output EXCEPT ![i] = out], m_textureOwner)
          /\ IF ~HasFrame(arg) THEN Invalidate(i + 1)
             ELSE IF passes THEN Call(i + 1, arg) ELSE Idle
  /\ UNCHANGED <<src, window, m_textureHandle, userVars>>
-----------------------------------------------------------------------------
(* setInData of the output, with the GL blit window and perhaps an effect  *)
(* of its own: it creates the window for the first frame, presents the     *)
(* frame's texture, or uploads the frame into textures of the window, and  *)
(* passes it on.  No frame hides the window.                               *)
Owner(f)        == IF Handle(f) = None THEN None ELSE f

InputTaken    == [m_lastInput EXCEPT ![Out] = arg]
PassedOn(f)   == IF m_outputConnectionCount > 0 THEN [m_output EXCEPT ![Out] = f] ELSE m_output
WithoutDrawing == IF arg \in PoolFrame THEN {arg} ELSE {arg, Cpu}

Present(f) ==
  /\ m_lastInput' = InputTaken /\ m_output' = PassedOn(f) /\ m_textureOwner' = Owner(f)
  /\ m_textureHandle' = IF Handle(f) = None THEN None
                        ELSE [tex |-> Handle(f).tex, pic |-> tex'[Handle(f).tex].pic]
  /\ window' = IF window = "none" THEN "shown" ELSE window

OutputAsIs ==
  \E f \in WithoutDrawing :
    /\ Hold(InputTaken, PassedOn(f), Owner(f))
    /\ Present(f)

OutputOnTexture ==
  LET h      == Handle(arg)
      before == HeldBy(InputTaken, m_output, m_textureOwner)
  IN /\ h # None
     /\ \E a \in acquire(Out, h.size, FreeAfter(before, gone)[Out]) :
        \E f \in {<<Out, a.id, h.size>>} \cup WithoutDrawing :
          /\ processTexture(Out, h, a, HeldBy(InputTaken, PassedOn(f), Owner(f)))
          /\ Present(f)

OutputNoFrame ==
  /\ Hold([m_lastInput EXCEPT ![Out] = None], [m_output EXCEPT ![Out] = None], m_textureOwner)
  /\ window' = IF window = "none" THEN "none" ELSE "hidden"
  /\ UNCHANGED m_textureHandle

VideoOutputNode ==
  /\ pos = Out
  /\ CASE ~HasFrame(arg)                        -> OutputNoFrame
       [] HasFrame(arg) /\ Out \notin connected ->
            UNCHANGED <<poolVars, m_lastInput, m_output, winVars>>
       [] HasFrame(arg) /\ Out \in connected    -> OutputAsIs \/ OutputOnTexture
  /\ Idle
  /\ UNCHANGED <<src, userVars>>
-----------------------------------------------------------------------------
(* The user: another effect or parameter (reprocessCurrentFrame), edges    *)
(* that come and go, and the deletion of a node.                           *)
Before(k) == IF k = 1 THEN Src ELSE m_output[k - 1]

reprocessCurrentFrame(k) ==
  /\ pos = 0 /\ k \notin gone /\ (k \in Stage => Kind[k] = "effect")
  /\ HasFrame(m_lastInput[k])
  /\ pos' = k /\ arg' = m_lastInput[k]
  /\ UNCHANGED <<poolVars, src, m_lastInput, m_output, winVars, userVars>>

(* A new edge carries what the node before it has to offer.                *)
connectInput(k) ==
  /\ pos = 0 /\ k \notin connected /\ {k - 1, k} \cap gone = {}
  /\ connected' = connected \cup {k}
  /\ pos' = k /\ arg' = Before(k)
  /\ UNCHANGED <<poolVars, src, m_lastInput, m_output, winVars, m_outputConnectionCount, gone>>

(* An edge that goes leaves the node with no data; the output closes its   *)
(* window (its deferred deletion is not waited for).                       *)
inputConnectionDeleted(k) ==
  /\ pos = 0 /\ k \in connected
  /\ connected' = connected \ {k}
  /\ pos' = k /\ arg' = None
  /\ IF k = Out
     THEN /\ Hold([m_lastInput EXCEPT ![Out] = None], [m_output EXCEPT ![Out] = None], None)
          /\ window' = "none" /\ m_textureHandle' = None
     ELSE UNCHANGED <<poolVars, m_lastInput, m_output, winVars>>
  /\ UNCHANGED <<src, m_outputConnectionCount, gone>>

outputConnection(c) ==
  /\ pos = 0
  /\ m_outputConnectionCount' = c
  /\ UNCHANGED <<poolVars, src, m_lastInput, m_output, winVars, connected, gone, pos, arg>>

DeleteNode(i) ==
  LET in   == [m_lastInput EXCEPT ![i] = None]
      out  == [m_output EXCEPT ![i] = None]
      held == HeldBy(in, out, m_textureOwner)
      dead == gone \cup {i}
  IN /\ pos = 0 /\ i \in Stage \ gone /\ {i, i + 1} \cap connected = {}
     /\ gone' = dead
     /\ m_lastInput' = in /\ m_output' = out
     /\ m_all' = AllAfter(held, dead) /\ m_free' = FreeAfter(held, dead)
     /\ tex' = TexAfter(held, dead)
     /\ UNCHANGED <<src, winVars, connected, m_outputConnectionCount, pos, arg>>
-----------------------------------------------------------------------------
Next ==
  \/ \E valid \in BOOLEAN, c \in Shots : onFrameAvailable(valid, c)
  \/ asTexture
  \/ \E i \in Stage : VideoEffectNode(i) \/ FrameSamplerNode(i)
  \/ VideoOutputNode
  \/ \E i \in Stage : DeleteNode(i)
  \/ \E k \in Node : reprocessCurrentFrame(k) \/ connectInput(k) \/ inputConnectionDeleted(k)
  \/ \E c \in {0, 1} : outputConnection(c)

Spec == Init /\ [][Next]_vars
-----------------------------------------------------------------------------
(* The textures of a pool are of two kinds and none is lost: those free    *)
(* for reuse, and those that a frame somewhere carries.  No texture is     *)
(* both, so no frame is drawn over another (TexturePool.h:39-41).          *)
PoolSound ==
  \A k \in Node :
    /\ m_free[k] \subseteq m_all[k]
    /\ Ids(m_free[k]) \cap Carried(k, Held) = {}
    /\ Ids(m_all[k]) = Ids(m_free[k]) \cup Carried(k, Held)

(* No texture is deleted while a frame still references it, whichever node *)
(* is deleted first (TexturePool.h:20), and no texture has two owners: the *)
(* pools and the source's own upload are disjoint.                         *)
TexturesAlive ==
  /\ \A f \in Held \cap PoolFrame : tex[f[2]] # Deleted
  /\ src.up # None => tex[src.up] # Deleted
  /\ \A k \in Node : \A n \in Ids(m_all[k]) :
       n # src.up /\ \A j \in Node \ {k} : n \notin Ids(m_all[j])

(* Every texture of every pool is accounted for: free, or alive in a frame *)
(* that somebody holds.                                                    *)
TexturesAccounted == PoolSound /\ TexturesAlive

(* The texture the window paints is alive and shows what it showed when it *)
(* was presented, unless it is the source's own, which gets to a window    *)
(* only if no effect is in front of it: neither drawings into any pool nor *)
(* the deletion of nodes get at a frame that is held (presentTexture,      *)
(* TexturePool).                                                           *)
PooledPicturesStay ==
  /\ m_textureOwner = Src => \A i \in Stage : Kind[i] = "sampler"
  /\ m_textureOwner # Src /\ m_textureHandle # None =>
       /\ tex[m_textureHandle.tex] # Deleted
       /\ tex[m_textureHandle.tex].pic = m_textureHandle.pic

(* What a visible window paints, whenever the system asks it to, is the    *)
(* picture it was last given (VideoGLBlitWidget.cpp:186: the owning frame  *)
(* is held "so the cached textures stay alive until the next present").    *)
PaintsWhatWasPresented ==
  pos = 0 /\ window = "shown" /\ m_textureHandle # None =>
    /\ tex[m_textureHandle.tex] # Deleted
    /\ tex[m_textureHandle.tex].pic = m_textureHandle.pic

(* A frame's texture has the size its handle says (TexturePool.h:37:       *)
(* acquire "returns a texture with (w, h) RGBA8 storage").                 *)
FramesFit ==
  \A f \in Held \cap PoolFrame : tex[f[2]].size = f[3]
=============================================================================
