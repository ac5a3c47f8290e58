------------------------------- MODULE Panel -------------------------------
(***************************************************************************)
(* A pixel's way to the panel.  A client sets it in a packed canvas (the   *)
(* render library) or in a frame of one byte per pixel, which the daemon   *)
(* packs; the daemon's buffer is turned into the device's layout of        *)
(* columns of eight pixels, and sent.  A buffer is the set of its one      *)
(* bits, a bit being <<byte, number>>; what counts is the arithmetic of    *)
(* the three layouts.                                                      *)
(***************************************************************************)
EXTENDS Naturals, FiniteSets

CONSTANTS Columns,    \* G15_LCD_WIDTH, smaller: a multiple of 8
          Rows,       \* G15_LCD_HEIGHT, smaller: not a multiple of 8
          Offset,     \* G15_LCD_OFFSET, smaller: the bytes in front of the pixels
          Frames      \* frames of one byte per pixel a client sends: sets of black pixels

VARIABLES picture,    \* history: the pixels the program wants black
          buf         \* lcd->buf

vars == <<picture, buf>>

Points == (0 .. Columns - 1) \X (0 .. Rows - 1)

---------------------------------------------------------------------------
\* Where setPixel and the packing put a pixel: rows of bits, the most significant
\* bit of a byte first.
PackedBit(x, y) ==
  LET pixel_offset == y * Columns + x
  IN  <<pixel_offset \div 8, 7 - (pixel_offset % 8)>>

\* The library's canvas: only this bit changes.
g15r_setPixel(buffer, x, y, val) ==
  IF val THEN buffer \union {PackedBit(x, y)} ELSE buffer \ {PackedBit(x, y)}

\* The daemon packs a frame of bytes pixel by pixel, into what is there.
g15daemon_convert_buf(buffer, frame) ==
  (buffer \ {PackedBit(p[1], p[2]) : p \in Points}) \union {PackedBit(p[1], p[2]) : p \in frame}

\* Mutant: the walk over the bytes does not skip the rows below.
dumpPixmapIntoLCDFormatNoSkip(data) ==
  LET bytes_per_row == Columns \div 8
      bands == (Rows + 7) \div 8
  IN  {<<Offset + t[1] * Columns + t[2], t[3]>> :
         t \in {u \in (0 .. bands - 1) \X (0 .. Columns - 1) \X (0 .. 7) :
            <<u[1] * bytes_per_row + (u[2] \div 8) + bytes_per_row * u[3], 7 - (u[2] % 8)>> \in data}}

\* Eight rows at a time, one byte for each column, the upper pixel the lowest
\* bit.  base_offset walks over the bytes of a row and then skips the seven rows
\* below it; the last band reads rows the canvas does not have.
dumpPixmapIntoLCDFormat(data) ==
  LET bytes_per_row == Columns \div 8
      bands == (Rows + 7) \div 8
      base(band, col) == band * (bytes_per_row + (Columns - bytes_per_row)) + (col \div 8)
  IN  {<<Offset + t[1] * Columns + t[2], t[3]>> :
         t \in {u \in (0 .. bands - 1) \X (0 .. Columns - 1) \X (0 .. 7) :
            <<base(u[1], u[2]) + bytes_per_row * u[3], 7 - (u[2] % 8)>> \in data}}

\* The device: pixel <<x, y>> is bit y % 8 of the byte of its column and band.
Shown(bytes) == {p \in Points : <<Offset + (p[2] \div 8) * Columns + p[1], p[2] % 8>> \in bytes}

---------------------------------------------------------------------------
Init ==
  /\ picture = {}
  /\ buf = {}

\* A client changes one pixel of its canvas and sends the canvas.  (Bound: one
\* pixel away from a frame.)
SendCanvas ==
  /\ picture \in Frames
  /\ \E x \in 0 .. Columns - 1, y \in 0 .. Rows - 1, val \in BOOLEAN :
       /\ picture' = IF val THEN picture \union {<<x, y>>} ELSE picture \ {<<x, y>>}
       /\ buf' = g15r_setPixel(buf, x, y, val)

\* A client sends a frame of one byte per pixel.
SendBytes ==
  /\ \E frame \in Frames :
       /\ picture' = frame
       /\ buf' = g15daemon_convert_buf(buf, frame)

Next == SendCanvas \/ SendBytes

\* The bytes the device gets of the buffer.  (When the daemon writes it is
\* DrawLoop's matter.)
panel == dumpPixmapIntoLCDFormat(buf)

Spec == Init /\ [][Next]_vars

---------------------------------------------------------------------------
(* What the device gets shows the program's picture, pixel for pixel, and holds *)
(* nothing outside it: the three layouts agree, in whichever of the two ways    *)
(* the pixels came.                                                             *)
PanelShowsPicture ==
  /\ Shown(panel) = picture
  /\ Cardinality(panel) = Cardinality(picture)
=============================================================================
