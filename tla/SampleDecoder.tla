---------------------------- MODULE SampleDecoder ----------------------------
(***************************************************************************)
(* How SampledData turns its buffer into numbers: SampledDecoder's helpers *)
(* for the integer types, and the walk over the interleaved channels.      *)
(* What decodeToNormalizedF32 narrows to a float is left out, and so are   *)
(* samples that are floating-point numbers themselves.                     *)
(***************************************************************************)
EXTENDS Integers, Sequences, SequencesExt

CONSTANT Base   \* values of a byte: 256 in the code

ASSUME BaseAssumption == Base \in Nat /\ Base % 2 = 0 /\ Base > 0

SampleType == [signed : BOOLEAN, bytes : 1 .. 4]

(* How many numbers there are of so many bytes.                            *)
Size(bytes) ==
  LET power[k \in 0 .. bytes] == IF k = 0 THEN 1 ELSE Base * power[k - 1]
  IN  power[bytes]

(* The bits of a sample, the byte of least significance first or last: the *)
(* number that the k bytes of most significance make, for each k.          *)
Bits(bytes, bigEndian) ==
  LET n   == Len(bytes)
      low == IF bigEndian THEN Reverse(bytes) ELSE bytes
      upper[k \in 0 .. n] == IF k = 0 THEN 0 ELSE Base * upper[k - 1] + low[n - k + 1]
  IN  upper[n]

(* Signed integers in two's complement, unsigned ones as they are.         *)
decodeRawSample(type, bytes, bigEndian) ==
  LET bits == Bits(bytes, bigEndian)
  IN  IF type.signed /\ 2 * bits >= Size(type.bytes) THEN bits - Size(type.bytes) ELSE bits

(* The largest sample, which is the number 1.                              *)
FullScale(type) == Size(type.bytes) \div 2 - 1

(* decodeNormalizedSample, as a multiple of 1 / FullScale: the most        *)
(* negative sample is clamped, an unsigned one is centered first.          *)
decodeNormalizedSample(type, bytes, bigEndian) ==
  LET raw   == decodeRawSample(type, bytes, bigEndian)
      value == IF type.signed THEN raw ELSE raw - Size(type.bytes) \div 2
  IN  IF value < -FullScale(type) THEN -FullScale(type) ELSE value

(* Where the samples of a frame begin, and the bytes of a whole frame.     *)
Offset(channels, ch) ==
  LET first[c \in 1 .. ch] == IF c = 1 THEN 0 ELSE first[c - 1] + channels[c - 1].bytes
  IN  first[ch]

bytesPerFrame(channels) == Offset(channels, Len(channels) + 1)

(* The bytes of a channel's sample in a frame; a last frame that is not    *)
(* whole is left alone.                                                    *)
Sample(buffer, channels, frame, ch) ==
  LET first == (frame - 1) * bytesPerFrame(channels) + Offset(channels, ch)
  IN  SubSeq(buffer, first + 1, first + channels[ch].bytes)

Decoded(buffer, channels, Decode(_, _)) ==
  IF channels = <<>> \/ buffer = <<>> THEN <<>>
  ELSE [ch \in DOMAIN channels |->
          [frame \in 1 .. Len(buffer) \div bytesPerFrame(channels) |->
             Decode(channels[ch], Sample(buffer, channels, frame, ch))]]

decodeToNormalized(buffer, channels, bigEndian) ==
  Decoded(buffer, channels, LAMBDA type, bytes : decodeNormalizedSample(type, bytes, bigEndian))

(* A float has three bytes of precision, with an exponent of two: a larger *)
(* number is rounded to a multiple of the unit of its last bit, and halves *)
(* to an even one.                                                         *)
Precision == Size(3)

Abs(x) == IF x < 0 THEN -x ELSE x

Unit(magnitude) ==
  LET unit[k \in 0 .. Base] ==
        IF k = 0 THEN 1
        ELSE LET last == unit[k - 1]
             IN  IF magnitude < Precision * last THEN last ELSE 2 * last
  IN  unit[Base]

Rounded(magnitude, unit) ==
  LET q == magnitude \div unit
      r == magnitude % unit
  IN  unit * (IF 2 * r > unit \/ (2 * r = unit /\ q % 2 = 1) THEN q + 1 ELSE q)

Float(value) ==
  LET rounded == Rounded(Abs(value), Unit(Abs(value)))
  IN  IF value < 0 THEN -rounded ELSE rounded

decodeToPhysical(buffer, channels, bigEndian, scale, offset) ==
  Decoded(buffer, channels, LAMBDA type, bytes : Float(decodeRawSample(type, bytes, bigEndian) * scale + offset))
=============================================================================
