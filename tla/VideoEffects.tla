---------------------------- MODULE VideoEffects ----------------------------
(***************************************************************************)
(* The pictures of the video nodes: what an effect does to the pixels on   *)
(* the CPU and in its shader, and which way up a picture is in memory.  A  *)
(* picture is a sequence of rows from the top, a row a sequence of pixels, *)
(* a pixel the triple of its bytes.  A texture is the sequence of its rows *)
(* from v = 0; what a framebuffer object renders has the bottom row there. *)
(***************************************************************************)
EXTENDS Integers, SequencesExt

CONSTANT Effects   \* the identifiers of the effects in use

clampByte(value) == IF value < 0 THEN 0 ELSE IF value > 255 THEN 255 ELSE value

Truncated(a, b) == IF a >= 0 THEN a \div b ELSE -((-a) \div b)

PixelWise(picture, Do(_)) == [y \in DOMAIN picture |-> [x \in DOMAIN picture[y] |-> Do(picture[y][x])]]

ByteWise(pixel, Do(_)) == <<Do(pixel[1]), Do(pixel[2]), Do(pixel[3])>>

Gray(pixel) == 299 * pixel[1] + 587 * pixel[2] + 114 * pixel[3]

Sepia(pixel) ==
  <<393 * pixel[1] + 769 * pixel[2] + 189 * pixel[3],
    349 * pixel[1] + 686 * pixel[2] + 168 * pixel[3],
    272 * pixel[1] + 534 * pixel[2] + 131 * pixel[3]>>

swapRedBlue(pixel) == <<pixel[3], pixel[2], pixel[1]>>

(* QImage::mirrored.                                                       *)
flip(picture, horizontal) ==
  IF horizontal THEN [y \in DOMAIN picture |-> Reverse(picture[y])] ELSE Reverse(picture)

(* VideoTransformOps of one pixel.                                         *)
cpuPixel(effect, pixel) ==
  CASE effect.id = "brightness" ->
         ByteWise(pixel, LAMBDA c : clampByte(c + Truncated(effect.value * 255, 100)))
    [] effect.id = "contrast" ->
         ByteWise(pixel, LAMBDA c : clampByte(Truncated((c - 128) * effect.value + 12800, 100)))
    [] effect.id = "grayscale" -> ByteWise(pixel, LAMBDA c : Gray(pixel) \div 1000)
    [] effect.id = "invert" -> ByteWise(pixel, LAMBDA c : 255 - c)
    [] effect.id = "sepia" -> ByteWise(Sepia(pixel), LAMBDA c : clampByte(c \div 1000))
    [] effect.id = "channelSwap" -> swapRedBlue(pixel)
    [] OTHER -> pixel

(* The sum of the first n of the numbers f.                                *)
Total(f, n) ==
  LET upTo[k \in 0 .. n] == IF k = 0 THEN 0 ELSE upTo[k - 1] + f[k]
  IN  upTo[n]

(* blur: each pass takes the mean over the neighbours within the radius.   *)
Mean(row, first, last) ==
  LET n == last - first + 1
  IN  [b \in 1 .. 3 |-> Total([i \in 1 .. n |-> row[first + i - 1][b]], n) \div n]

Within(x, last) == IF x < 1 THEN 1 ELSE IF x > last THEN last ELSE x

BlurredRow(row, radius) ==
  [x \in DOMAIN row |-> Mean(row, Within(x - radius, Len(row)), Within(x + radius, Len(row)))]

Transposed(picture) == [x \in DOMAIN picture[1] |-> [y \in DOMAIN picture |-> picture[y][x]]]

BlurredRows(picture, radius) == [y \in DOMAIN picture |-> BlurredRow(picture[y], radius)]

blur(picture, radius) ==
  IF radius <= 0 THEN picture
  ELSE Transposed(BlurredRows(Transposed(BlurredRows(picture, radius)), radius))

cpuApply(effect, picture) ==
  CASE effect.id = "flip" -> flip(picture, effect.value)
    [] effect.id = "blur" -> blur(picture, effect.value)
    [] OTHER -> PixelWise(picture, LAMBDA pixel : cpuPixel(effect, pixel))
-----------------------------------------------------------------------------
(* The body of the shader of an effect; a byte written to a texture is     *)
(* rounded to the nearest.                                                 *)
shaderPixel(effect, pixel) ==
  CASE effect.id = "brightness" ->
         ByteWise(pixel, LAMBDA c : clampByte((100 * c + 255 * effect.value + 50) \div 100))
    [] effect.id = "contrast" ->
         ByteWise(pixel, LAMBDA c : clampByte(((2 * c - 255) * effect.value + 25500 + 100) \div 200))
    [] effect.id = "grayscale" -> ByteWise(pixel, LAMBDA c : (Gray(pixel) + 500) \div 1000)
    [] effect.id = "invert" -> ByteWise(pixel, LAMBDA c : 255 - c)
    [] effect.id = "sepia" -> ByteWise(Sepia(pixel), LAMBDA c : clampByte((c + 500) \div 1000))
    [] effect.id = "channelSwap" -> swapRedBlue(pixel)
    [] OTHER -> pixel

CpuOnly(effect) == effect.id = "blur"

(* A frame at a node: a CPU frame of colours, which no effect uploads, one *)
(* of planes, which Qt and the shaders convert to colours each in its own  *)
(* way, or a texture that a framebuffer object rendered.  The shaders of   *)
(* effects, of custom shaders and of the display share a matrix and range. *)
Colours(picture) == [gpu |-> FALSE, planar |-> FALSE, rows |-> picture, image |-> picture]

NoFrame == Colours(<<>>)

Planes(image, shaded) == [gpu |-> FALSE, planar |-> TRUE, rows |-> shaded, image |-> image]

OnGpu(picture) == [gpu |-> TRUE, planar |-> FALSE, rows |-> Reverse(picture), image |-> <<>>]

(* drawQuad: an uploaded picture has its top row at v = 0, a rendered one  *)
(* its bottom row, and its quad turns it round.                            *)
SampledMut(frame) == frame.rows

Sampled(frame) == IF frame.gpu THEN Reverse(frame.rows) ELSE frame.rows

(* readbackTexture and asImage.                                            *)
asImage(frame) == IF frame.gpu THEN Reverse(frame.rows) ELSE frame.image

hasTexture(frame) == frame.gpu \/ frame.planar

(* VideoEffectGLProcessor: u_flipX and u_flipY turn the coordinate.        *)
processTexture(effect, frame) ==
  OnGpu(IF effect.id = "flip" THEN flip(Sampled(frame), effect.value)
        ELSE PixelWise(Sampled(frame), LAMBDA pixel : shaderPixel(effect, pixel)))

(* CustomShaderNode, of a shader that copies u_tex: planes are converted   *)
(* to a rendered texture first.                                            *)
customShader(frame) ==
  LET rgbaTex == IF frame.gpu THEN frame ELSE OnGpu(Sampled(frame))
  IN  OnGpu(Sampled(rgbaTex))

(* A stage is an effect node with or without the GPU, or a custom shader,  *)
(* which has no output for a frame that is no texture.                     *)
Processed(stage, frame) ==
  IF frame = NoFrame \/ (stage.custom /\ ~hasTexture(frame)) THEN NoFrame
  ELSE IF stage.custom THEN customShader(frame)
  ELSE IF stage.hardwareGL /\ ~CpuOnly(stage.effect) /\ hasTexture(frame)
  THEN processTexture(stage.effect, frame)
  ELSE Colours(cpuApply(stage.effect, asImage(frame)))

RunChain(frame, stages) ==
  LET after[k \in 0 .. Len(stages)] == IF k = 0 THEN frame ELSE Processed(stages[k], after[k - 1])
  IN  after[Len(stages)]

(* The display draws with GL what it has as a texture, or an image.        *)
OnScreen(frame, gl) == IF gl THEN Sampled(frame) ELSE asImage(frame)
-----------------------------------------------------------------------------
(* VideoEffectNode: load() clamps what a project file holds, and selects   *)
(* the first effect for an id it does not know.                            *)
Clamped(value, low, high) == IF value < low THEN low ELSE IF value > high THEN high ELSE value

Odd(value) == IF value % 2 = 0 THEN value + 1 ELSE value

LoadedParams(saved) ==
  [effect |-> IF saved.effect \in Effects THEN saved.effect ELSE "brightness",
   brightness |-> Clamped(saved.brightness, -100, 100),
   contrast |-> Clamped(saved.contrast, 0, 200),
   flipHorizontal |-> saved.flipMode # "vertical",
   blurRadius |-> Clamped(saved.blurRadius, 0, 10),
   gaussianKernel |-> Clamped(Odd(saved.gaussianKernel), 1, 31)]

SavedParams(p) ==
  [effect |-> p.effect, brightness |-> p.brightness, contrast |-> p.contrast,
   flipMode |-> IF p.flipHorizontal THEN "horizontal" ELSE "vertical",
   blurRadius |-> p.blurRadius, gaussianKernel |-> p.gaussianKernel]

(* What the sliders and boxes of the node can set.                         *)
SliderParams(effect, brightness, contrast, horizontal, radius, kernel) ==
  [effect |-> effect, brightness |-> brightness, contrast |-> contrast,
   flipHorizontal |-> horizontal, blurRadius |-> radius, gaussianKernel |-> Odd(kernel)]
=============================================================================
