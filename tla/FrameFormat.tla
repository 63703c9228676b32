------------------------------ MODULE FrameFormat ------------------------------
(***************************************************************************)
(* The one format of the synthetic driver and the arithmetic of its image: *)
(* camstream_fill_format (camstream_main.c), camstream_format_is_safe,     *)
(* camstream_luma and camstream_fill_yuyv (camstream_frame.c).             *)
(***************************************************************************)
EXTENDS Naturals

CONSTANTS
  Width,     \* CAMSTREAM_WIDTH
  Height,    \* CAMSTREAM_HEIGHT
  MaxU32     \* 2^32 - 1

BytesPerPixel == 2
LumaMinimum == 16
LumaRange == 219
PatternShiftPixels == 8

ASSUME FormatAssumption ==
  /\ Width \in Nat /\ Width >= 2 /\ Width % 2 = 0
  /\ Height \in Nat \ {0}
  /\ MaxU32 \in Nat
  /\ Width * BytesPerPixel * Height <= MaxU32
  /\ Width * PatternShiftPixels <= MaxU32

\* camstream_fill_format; the fields that describe colours are left out.
FillFormat ==
  [pixelformat |-> "YUYV",
   width |-> Width,
   height |-> Height,
   bytesperline |-> Width * BytesPerPixel,
   sizeimage |-> Width * BytesPerPixel * Height]

\* Mutant: TRY_FMT keeps the size that was asked for.
TryFormat_kept(format) == format

\* camstream_try_fmt_vid_cap
TryFormat(format) == FillFormat

\* camstream_format_is_safe
FormatIsSafe(format) ==
  /\ format.pixelformat = "YUYV"
  /\ format.width >= 2
  /\ format.width % 2 = 0
  /\ format.height # 0
  /\ format.width * BytesPerPixel <= MaxU32
  /\ format.width * BytesPerPixel = format.bytesperline
  /\ format.bytesperline * format.height <= MaxU32
  /\ format.bytesperline * format.height = format.sizeimage

\* camstream_luma
Luma(position, width) == LumaMinimum + (position * LumaRange) \div (width - 1)

\* camstream_fill_yuyv: the pixel whose luma is put at column.
Shift(sequence, width) == ((sequence % width) * PatternShiftPixels) % width

Source(column, sequence, width) == (column + Shift(sequence, width)) % width
=============================================================================
