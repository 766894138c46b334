----------------------------- MODULE ShaderNode -----------------------------
(***************************************************************************)
(* The custom shader node: frames come in, the user edits the shader, and  *)
(* the node renders the frame it has into textures of its pool, while a    *)
(* display that is wired to it keeps the last frame it drew.  Every step   *)
(* of the rendering may fail.  The frames are of one size, so the          *)
(* framebuffer object is made once.  The values of the sliders and the     *)
(* error log are left out, as is the profile of the context, which never   *)
(* changes.                                                                *)
(***************************************************************************)
EXTENDS Naturals, FiniteSets

CONSTANTS Shaders,     \* texts of the editor
          Compiling    \* those that compile

ASSUME ShaderNodeAssumption == Compiling \subseteq Shaders \ {""} /\ {"none", "undefined"} \cap Shaders = {}

VARIABLES
  hardware,    \* hasHardwareGL
  shader,      \* the text of the editor
  lastInput,   \* the kind of the frame of m_lastInput
  programs,    \* for the custom and the YUV program: the key, and what is compiled
  fbo,         \* m_fbo
  pool,        \* the number of textures made, and those that are free
  rendered,    \* m_output: a texture and what rendered it
  wired,       \* whether a display is wired to the node
  drawn        \* the frame that the display keeps

shaderVars == <<hardware, shader, lastInput, programs, fbo, pool, rendered, wired, drawn>>

Yuv == {"nv12", "420p"}
FrameKinds == Yuv \cup {"rgba", "rgb"}
NoOutput == [tex |-> 0, by |-> "none"]
NoProgram == [key |-> "none", compiled |-> "none"]
Faults == {"none", "upload", "context", "fbo", "yuv", "prepass", "output"}

ShaderInit ==
  /\ hardware \in BOOLEAN /\ shader \in Compiling
  /\ lastInput = "none"
  /\ programs = [custom |-> NoProgram, yuv |-> NoProgram]
  /\ fbo = "none"
  /\ pool = [made |-> 0, free |-> {}]
  /\ rendered = NoOutput /\ wired = FALSE /\ drawn = NoOutput
-----------------------------------------------------------------------------
(* Without the program of before being deleted.                            *)
ensureProgramMut(program, source, links) ==
  IF program.compiled # "none" /\ program.key = source THEN program
  ELSE [key |-> source, compiled |-> IF links THEN source ELSE program.compiled]

(* ensureCustomProgram and ensureYuvProgram: a program is kept with the    *)
(* key of its source, and compiled again when it is another or failed.     *)
ensureProgram(program, source, links) ==
  IF program.compiled # "none" /\ program.key = source THEN program
  ELSE [key |-> source, compiled |-> IF links THEN source ELSE "none"]

(* TexturePool, of textures of one size: acquire takes a free texture.     *)
Acquired(p) ==
  IF p.free = {} THEN [tex |-> p.made + 1, pool |-> [p EXCEPT !.made = @ + 1]]
  ELSE LET tex == CHOOSE tex \in p.free : TRUE
       IN  [tex |-> tex, pool |-> [p EXCEPT !.free = @ \ {tex}]]

Returned(p, textures) == [p EXCEPT !.free = @ \cup (textures \ {0})]

(* processTexture, up to the call that fails: the output and what is left. *)
Failure(progs, f, p) == [out |-> NoOutput, programs |-> progs, fbo |-> f, pool |-> p]

(* Without the texture of the pre-pass going back when the pass fails.     *)
RenderMut(text, target, progs, temporary, p) ==
  LET custom == [progs EXCEPT !.custom = ensureProgram(@, text, text \in Compiling)]
      new == Acquired(p)
      by == IF target.fbo = "invalid" THEN "undefined" ELSE custom.custom.compiled
  IN  IF custom.custom.compiled = "none" THEN Failure(custom, target.fbo, p)
      ELSE IF target.fault = "output"
      THEN Failure(custom, target.fbo, Returned(new.pool, {new.tex}))
      ELSE [out |-> [tex |-> new.tex, by |-> by], programs |-> custom,
            fbo |-> target.fbo, pool |-> Returned(new.pool, {temporary})]

(* The custom pass.  It reads the input, or the texture that the pre-pass  *)
(* acquired, which goes back to the pool in any case.  An invalid          *)
(* framebuffer object cannot be bound, and nothing notices.                *)
Render(text, target, progs, temporary, p) ==
  LET custom == [progs EXCEPT !.custom = ensureProgram(@, text, text \in Compiling)]
      new == Acquired(p)
      by == IF target.fbo = "invalid" THEN "undefined" ELSE custom.custom.compiled
  IN  IF custom.custom.compiled = "none" THEN Failure(custom, target.fbo, Returned(p, {temporary}))
      ELSE IF target.fault = "output"
      THEN Failure(custom, target.fbo, Returned(new.pool, {new.tex, temporary}))
      ELSE [out |-> [tex |-> new.tex, by |-> by], programs |-> custom,
            fbo |-> target.fbo, pool |-> Returned(new.pool, {temporary})]

processTexture(kind, text, p, fault) ==
  LET made == IF fbo # "none" THEN fbo ELSE IF fault = "fbo" THEN "invalid" ELSE "valid"
      target == [fbo |-> made, fault |-> fault]
      yuv == [programs EXCEPT !.yuv = ensureProgram(@, kind, fault # "yuv")]
      pre == Acquired(p)
  IN  IF text = "" \/ fault = "context" THEN Failure(programs, fbo, p)
      ELSE IF fbo = "none" /\ fault = "fbo" THEN Failure(programs, made, p)
      ELSE IF kind \notin Yuv THEN Render(text, target, programs, 0, p)
      ELSE IF yuv.yuv.compiled = "none" THEN Failure(yuv, made, p)
      ELSE IF fault = "prepass" THEN Failure(yuv, made, Returned(pre.pool, {pre.tex}))
      ELSE Render(text, target, yuv, pre.tex, pre.pool)
-----------------------------------------------------------------------------
(* The output is replaced; a frame that neither the node nor the display   *)
(* holds any longer gives its texture back.  Only an update reaches the    *)
(* display, which keeps what it drew when the data is invalidated.         *)
Emit(out, updated, p) ==
  LET keeps == IF updated /\ wired THEN out ELSE drawn
  IN  /\ rendered' = out /\ drawn' = keeps /\ UNCHANGED wired
      /\ pool' = Returned(p, {rendered.tex, drawn.tex} \ {out.tex, keeps.tex})

(* reprocessCurrentFrame with the output as it is, or reset before.        *)
Reprocess(kind, text, current, fault) ==
  LET p == IF current = rendered THEN pool ELSE Returned(pool, {rendered.tex} \ {drawn.tex})
      done == processTexture(kind, text, p, fault)
  IN  IF kind = "rgb" \/ (kind \in Yuv /\ fault = "upload")
      THEN Emit(current, FALSE, p) /\ UNCHANGED <<programs, fbo>>
      ELSE /\ programs' = done.programs /\ fbo' = done.fbo
           /\ Emit(done.out, done.out # NoOutput, done.pool)

(* CustomShaderNode::setInData; without hardware OpenGL nothing is tried.  *)
FrameArrives(kind, fault) ==
  /\ hardware
  /\ lastInput' = kind
  /\ Reprocess(kind, shader, NoOutput, fault)
  /\ UNCHANGED <<hardware, shader>>

WithoutHardware(kind) ==
  /\ ~hardware
  /\ lastInput' = kind
  /\ Emit(NoOutput, FALSE, pool)
  /\ UNCHANGED <<hardware, shader, programs, fbo>>

NoFrameArrives ==
  /\ lastInput' = "none"
  /\ Emit(NoOutput, FALSE, pool)
  /\ UNCHANGED <<hardware, shader, programs, fbo>>

(* A source replaces the frame that the node still has, behind a node that *)
(* does not pass the new one on.                                           *)
Replaced(kind) ==
  /\ lastInput # "none"
  /\ lastInput' = kind
  /\ UNCHANGED <<hardware, shader, programs, fbo, pool, rendered, wired, drawn>>

Edit(text) ==
  /\ shader' = text
  /\ UNCHANGED <<hardware, lastInput, programs, fbo, pool, rendered, wired, drawn>>

(* The Compile button, a slider, the check box, and load(), which sets the *)
(* text before.  They ask for no hardware OpenGL.                          *)
Recompile(text, fault) ==
  /\ lastInput # "none"
  /\ shader' = text
  /\ Reprocess(lastInput, text, rendered, fault)
  /\ UNCHANGED <<hardware, lastInput>>

(* A display is connected, and gets the frame that the node has, or        *)
(* disconnected, and lets go of what it drew.                              *)
Rewired ==
  /\ wired' = ~wired
  /\ drawn' = IF wired THEN NoOutput ELSE rendered
  /\ pool' = Returned(pool, {drawn.tex} \ {rendered.tex})
  /\ UNCHANGED <<hardware, shader, lastInput, programs, fbo, rendered>>

ShaderNext ==
  \/ \E kind \in FrameKinds, fault \in Faults : FrameArrives(kind, fault)
  \/ \E kind \in FrameKinds : WithoutHardware(kind) \/ Replaced(kind)
  \/ NoFrameArrives
  \/ \E text \in Shaders : Edit(text)
  \/ \E text \in Shaders, fault \in Faults : Recompile(text, fault)
  \/ Rewired

ShaderSpec == ShaderInit /\ [][ShaderNext]_shaderVars
-----------------------------------------------------------------------------
ShaderTypeOK ==
  /\ hardware \in BOOLEAN /\ shader \in Shaders /\ lastInput \in FrameKinds \cup {"none"}
  /\ fbo \in {"none", "valid", "invalid"} /\ wired \in BOOLEAN
  /\ pool.made \in Nat /\ pool.free \subseteq 1 .. pool.made
  /\ {rendered.tex, drawn.tex} \subseteq 0 .. pool.made

(* A frame that the node puts out was rendered by the shader that is in    *)
(* the editor at that moment, whatever was compiled, failed to compile or  *)
(* was edited before.                                                      *)
RunsTheEditedShader ==
  [][rendered' # rendered /\ rendered' # NoOutput =>
       rendered'.by \in {shader', "undefined"}]_shaderVars

(* Every texture is free or belongs to the frame of the node or of the     *)
(* display, on whatever step the rendering failed, and three suffice.      *)
EveryTextureReturns ==
  /\ 1 .. pool.made = pool.free \cup ({rendered.tex, drawn.tex} \ {0})
  /\ {rendered.tex, drawn.tex} \cap pool.free = {}
  /\ pool.made <= 3
=============================================================================
