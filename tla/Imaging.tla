-------------------------------- MODULE Imaging ------------------------------
(***************************************************************************)
(* A frame's way from the camera or the importer to the embedder: the      *)
(* buffer and the meta data it gets, the chain of preprocessing steps that *)
(* PreprocessStage makes of its configuration (or a caller of Compose      *)
(* makes), and the upload to a slab of the GPU pool that is as long as the *)
(* meta data say, in which the bytes of the frames before may still be.    *)
(*                                                                         *)
(* Of the pixels, the model keeps what a byte of the buffer is: a sample   *)
(* of a mosaic, of a colour, of grey, half of a 16-bit sample, or a        *)
(* mixture of bytes that do not belong together.  Bound: MaxFrames frames. *)
(***************************************************************************)
EXTENDS Integers, Sequences, SequencesExt

CONSTANTS
  Configs,      \* "steps" of the stage's configuration
  Composed,     \* chains made with Compose
  Formats,      \* pixel formats of the cameras
  Files,        \* image files, as [channels, deep]: deep for samples of 16 bits
  Sizes,        \* sizes of frames, as [w, h]
  Target,       \* resize_width, resize_height, as [w, h]
  Correction,   \* the correction frame of the flat field
  Expected,     \* image_width, image_height of SimplePatchEmbedder
  MaxFrames

VARIABLES
  chain,   \* the steps still to do, of PreprocessStage's chain_
  steps,   \* chain_
  image,   \* the frame
  taken,   \* frames so far: the number of this one
  slab,    \* the slab of the pool: of which frame each byte is
  phase    \* "idle", "chain", "surface", "uploaded", "dropped"

imageVars == <<chain, steps, image, taken, slab, phase>>

(***************************************************************************)
(* Formats and sizes                                                       *)
(***************************************************************************)
Deep == {"Mono10", "Mono12", "BayerRG10", "BayerRG12", "Mono16", "BayerRG16", "RGB16"}
BytesPerChannel(format) == IF format \in Deep THEN 2 ELSE 1
ByteSize(meta) == meta.w * meta.h * meta.channels * BytesPerChannel(meta.format)
\* The mosaics of other orders have no format of their own.
Mosaic == {"BayerRG8", "BayerRG10", "BayerRG12", "BayerRG16", "Undefined"}

\* A camera's frame has three channels for RGB8 and BGR8 and one for everything else.
Camera(format, size) ==
  [format |-> format, channels |-> IF format \in {"RGB8", "BGR8"} THEN 3 ELSE 1, w |-> size.w, h |-> size.h]
\* The format of a decoded file: grey for one channel; four channels are RGB8, or Mono16.
Decoded(file, size) ==
  [format |-> IF file.deep THEN (IF file.channels = 3 THEN "RGB16" ELSE "Mono16")
              ELSE IF file.channels = 1 THEN "Mono8" ELSE "RGB8",
   channels |-> file.channels, w |-> size.w, h |-> size.h]
Sources == {Camera(f, s) : f \in Formats, s \in Sizes} \cup {Decoded(f, s) : f \in Files, s \in Sizes}
Frame(s) == [format |-> s.format, channels |-> s.channels, w |-> s.w, h |-> s.h, bytes |-> ByteSize(s),
             pixels |-> IF s.format \in Deep THEN "halves" ELSE IF s.format \in Mosaic THEN "mosaic" ELSE "samples"]

(***************************************************************************)
(* The steps, each from an image to the images it may give, or Refused     *)
(***************************************************************************)
Refused == <<>>
Blend(pixels) == IF pixels = "samples" THEN "samples" ELSE "mixed"         \* of neighbours
Scale(pixels) == IF pixels \in {"halves", "mixed"} THEN "mixed" ELSE pixels  \* of each byte
\* A new image of one byte per channel and pixel; the format stays that of the old.
Rewritten(i, w, h) == [i EXCEPT !.w = w, !.h = h, !.bytes = w * h * i.channels, !.pixels = Blend(@)]

\* Variant of Debayer: the meta data keep one channel.
DebayerKeepsChannels(i) ==
  IF i.format # "BayerRG8" THEN i
  ELSE [i EXCEPT !.format = "RGB8", !.bytes = i.w * i.h * 3, !.pixels = IF @ = "mosaic" THEN "samples" ELSE "mixed"]
Debayer(i) ==
  IF i.format # "BayerRG8" THEN i
  ELSE [i EXCEPT !.channels = 3, !.format = "RGB8", !.bytes = i.w * i.h * 3,
                 !.pixels = IF @ = "mosaic" THEN "samples" ELSE "mixed"]
WhiteBalance(i) == IF i.format \notin {"RGB8", "BGR8"} THEN Refused
                   ELSE [i EXCEPT !.pixels = IF i.channels = 3 THEN Scale(@) ELSE "mixed"]
Resize(i) == IF Target.w = 0 \/ Target.h = 0 \/ i.channels \notin {1, 3} THEN Refused
             ELSE Rewritten(i, Target.w, Target.h)
FlatField(i) == IF [w |-> i.w, h |-> i.h, bytes |-> i.bytes] # Correction THEN Refused
                ELSE [i EXCEPT !.pixels = Scale(@)]
Calibration(i) == Rewritten(i, i.w, i.h)
\* Of a uniform image, nothing changes.
HDR(i) == {i, [i EXCEPT !.pixels = Scale(@)]}

After(step, i) ==
  CASE step = "debayer" -> {Debayer(i)}
    [] step = "white_balance" -> {WhiteBalance(i)}
    [] step = "resize" -> {Resize(i)}
    [] step = "FlatField" -> {FlatField(i)}
    [] step = "Calibration" -> {Calibration(i)}
    [] step = "HDR" -> HDR(i)

\* What the stage makes of a name: flat_field, and a name that it does not know, are no step.
Parsed(names) == SelectSeq(names, LAMBDA n : n \in {"debayer", "white_balance", "resize"})

ImageInit ==
  /\ steps \in {Parsed(c) : c \in Configs} \cup Composed
  /\ chain = <<>> /\ image = <<>> /\ taken = 0 /\ slab = <<>> /\ phase = "idle"

(***************************************************************************)
(* A frame                                                                 *)
(***************************************************************************)
Take(s) ==
  /\ phase = "idle" /\ taken < MaxFrames
  /\ taken' = taken + 1 /\ image' = Frame(s) /\ chain' = steps /\ phase' = "chain"
  /\ UNCHANGED <<steps, slab>>

\* RunFrom: the first step that fails ends the chain, and the frame.
RunStep ==
  /\ phase = "chain" /\ chain # <<>>
  /\ \E i \in After(Head(chain), image) :
       IF i = Refused THEN phase' = "dropped" /\ UNCHANGED <<chain, image>>
       ELSE image' = i /\ chain' = Tail(chain) /\ UNCHANGED phase
  /\ UNCHANGED <<steps, taken, slab>>

\* What the chain gives becomes a SurfaceImage, with its buffer and its meta data.
Surface == phase = "chain" /\ chain = <<>> /\ phase' = "surface" /\ UNCHANGED <<chain, steps, image, taken, slab>>

\* GpuImage::FromPool and cudaMemcpy: the slab is as long as the meta data say at least,
\* the copy as long as the buffer; what is behind it stays.
Upload ==
  /\ phase = "surface" /\ phase' = "uploaded"
  /\ slab' = [b \in 1 .. ByteSize(image) \cup DOMAIN slab |->
                IF b <= image.bytes THEN taken ELSE IF b \in DOMAIN slab THEN slab[b] ELSE 0]
  /\ UNCHANGED <<chain, steps, image, taken>>

\* SimplePatchEmbedder::Extract takes three channels of the size it expects, from a buffer of the host.
Accepts(i) == i.w = Expected.w /\ i.h = Expected.h /\ i.channels = 3
ExtractSimple ==
  /\ phase = "surface" /\ phase' = IF Accepts(image) THEN "simple" ELSE "dropped"
  /\ UNCHANGED <<chain, steps, image, taken, slab>>
Settle ==
  /\ phase \in {"uploaded", "simple", "dropped"} /\ phase' = "idle" /\ image' = <<>> /\ chain' = <<>>
  /\ UNCHANGED <<steps, taken, slab>>

ImageNext == (\E s \in Sources : Take(s)) \/ RunStep \/ Surface \/ Upload \/ ExtractSimple \/ Settle
ImageSpec == ImageInit /\ [][ImageNext]_imageVars

(***************************************************************************)
(* Properties                                                              *)
(***************************************************************************)
\* What an embedder gets is the frame, all of it and nothing else: no byte it reads
\* is left from an earlier frame, and each is a sample as its camera or file gave it,
\* balanced, scaled or averaged with samples of its own kind.
FrameSeen ==
  /\ phase = "uploaded" => /\ \A b \in 1 .. ByteSize(image) : slab[b] = taken
                           /\ image.pixels # "mixed"
  /\ phase = "simple" => image.w * image.h * 3 <= image.bytes /\ image.pixels \notin {"mixed", "halves"}

\* Documented ("bits_per_sample; 8/10/12/16 - for correct clamping in preprocess"):
\* a step works with samples, of 8 bits or of 16.
DeepPixelsKept == phase = "surface" => image.pixels # "mixed"
=============================================================================
