------------------------------- MODULE Shapes -------------------------------
(***************************************************************************)
(* A program draws a figure of the render library on a canvas that already *)
(* shows something, in any of the drawing modes, and may draw it again.    *)
(***************************************************************************)
EXTENDS Canvas, FiniteSets

CONSTANTS Pictures,     \* pictures to draw: records [width, height, black], black a set of <<x, y>>
          MaxCalls      \* bound: times the figure is drawn

VARIABLES canvas,       \* the black pixels
          mode,         \* mode_xor and mode_reverse
          figure,       \* the figure, its colour and the writes its function makes
          before,       \* history: the canvas before the first call
          drawn         \* times it was drawn

vars == <<canvas, mode, figure, before, drawn>>

Plain == [xor |-> FALSE, reverse |-> FALSE]

\* Something to draw upon: nothing, everything, every second pixel.
Backgrounds == {clearScreen(White), clearScreen(Black), {p \in Pixels : (p[1] + p[2]) % 2 = 0}}

---------------------------------------------------------------------------
\* The figures: lines in all directions, boxes of two thicknesses, circles and
\* rounded boxes, some partly outside, areas to invert, bars, large digits (only
\* their corner is on the canvas), and pictures.

Lines   == [kind : {"line"}, x1 : {1, 4}, y1 : {0, 3}, x2 : {0, 2, Width - 1}, y2 : {1, Height - 1}]
Boxes   == [kind : {"box"}, x1 : {0, 2}, y1 : {1}, x2 : {3, Width}, y2 : {1, 5}, thick : {1, 2}, fill : BOOLEAN]
Rounds  == [kind : {"round"}, x1 : {0, 1}, y1 : {0}, x2 : {2, Width - 2}, y2 : {3, Height - 1}, fill : BOOLEAN]
Circles == [kind : {"circle"}, x : {3, 4}, y : {3}, r : 0 .. 4, fill : BOOLEAN]
Areas   == [kind : {"area"}, x1 : {1}, y1 : {0}, x2 : {0, 3}, y2 : {2}]
Bars    == [kind : {"bar"}, type : 1 .. 3, num : 0 .. 4, max : {0, 3, 4}]
BigNums == [kind : {"bignum"}, num : 0 .. 12]
Images  == [kind : {"overlay", "icon", "wbmp", "xbm", "sprite"}, picture : Pictures]

Figures == Lines \union Boxes \union Rounds \union Circles \union Areas \union Bars \union BigNums \union Images

\* The columns and the row of the bars.
BarLeft  == 0
BarRight == Width - 1
BarRow   == 3

\* How a picture lies in a buffer whose rows are per_row bits long.
Packed(p, per_row) == {b[2] * per_row + b[1] : b \in p.black}

\* A wbmp file: rows padded to whole bytes, white is 1.
WbmpFile(p) ==
  LET per_row == 8 * ((p.width + 7) \div 8)
  IN  (0 .. per_row * p.height - 1) \ Packed(p, per_row)

\* The overlay's and the icon's rows follow each other; an XBM's begin with a new
\* byte; a sprite is drawn without its last row and column.
ImageWrites(kind, p) ==
  CASE kind = "overlay" -> pixelOverlay(0, 0, p.width, p.height, Packed(p, p.width))
    [] kind = "icon"    -> drawIcon(Packed(p, p.width), 0, 0, p.width, p.height)
    [] kind = "wbmp"    -> drawIcon(loadWbmpToBuf(WbmpFile(p), p.width, p.height), 0, 0, p.width, p.height)
    [] kind = "xbm"     -> drawXBM(Packed(p, 8 * ((p.width + 7) \div 8)), p.width, p.height, 0, 0)
    [] kind = "sprite"  -> drawSprite(Packed(p, p.width + 1), 0, 0, p.width + 1, p.height + 1, 0, 0, p.width + 1)

Writes(f, color) ==
  CASE f.kind = "line"   -> {drawLine(f.x1, f.y1, f.x2, f.y2, color)}
    [] f.kind = "box"    -> {pixelBox(f.x1, f.y1, f.x2, f.y2, color, f.thick, f.fill)}
    [] f.kind = "round"  -> {drawRoundBox(f.x1, f.y1, f.x2, f.y2, f.fill, color)}
    [] f.kind = "circle" -> {drawCircle(f.x, f.y, f.r, f.fill, color)}
    [] f.kind = "area"   -> {pixelReverseFill(f.x1, f.y1, f.x2, f.y2, FALSE, color)}
    [] f.kind = "bar"    -> drawBar(BarLeft, BarRow, BarRight, BarRow, color, f.num, f.max, f.type)
    [] f.kind = "bignum" -> {drawBigNum(-10, -15, 10, 7, color, f.num)}
    [] OTHER             -> {ImageWrites(f.kind, f.picture)}

---------------------------------------------------------------------------
\* g15r_initCanvas clears the modes; the program sets them by hand.
Init ==
  /\ canvas \in Backgrounds
  /\ mode \in [xor : BOOLEAN, reverse : BOOLEAN]
  /\ \E f \in Figures, color \in {Black, White} :
       figure \in [shape : {f}, color : {color}, writes : Writes(f, color)]
  /\ before = canvas
  /\ drawn = 0

Draw ==
  /\ drawn < MaxCalls
  /\ canvas' = Drawn(canvas, mode, figure.writes)
  /\ drawn' = drawn + 1
  /\ UNCHANGED <<mode, figure, before>>

Next == Draw

Spec == Init /\ [][Next]_vars

---------------------------------------------------------------------------
(* In xor mode a figure drawn a second time takes the first one away: what   *)
(* mode_xor is for, and not evident for the figures that write some of their *)
(* pixels several times.  (An inverted area is not drawn in a colour.)       *)
XorRestores ==
  mode.xor /\ figure.shape.kind # "area" /\ drawn = 2 => canvas = before

\* The rest is said of black figures on the blank canvas, drawn once.
Fresh == drawn = 1 /\ before = {} /\ mode = Plain /\ figure.color = Black

Connected(S) ==
  LET near(p, q) == Abs(p[1] - q[1]) <= 1 /\ Abs(p[2] - q[2]) <= 1
      grown[n \in 1 .. Cardinality(S)] ==
        IF n = 1 THEN {CHOOSE p \in S : TRUE}
        ELSE LET last == grown[n - 1] IN {q \in S : \E p \in last : near(p, q)}
  IN  S = {} \/ grown[Cardinality(S)] = S

\* No part of the figure is cut off by the canvas.
Inside == \A i \in DOMAIN figure.writes : <<figure.writes[i][1], figure.writes[i][2]>> \in Pixels

\* A line has no gap and reaches both its ends.
LineJoins(f) == {<<f.x1, f.y1>>, <<f.x2, f.y2>>} \subseteq canvas /\ Connected(canvas)

\* A filled figure covers the outline that the same call draws without fill.
FillCovers(f) ==
  \A outline \in Writes([f EXCEPT !.fill = FALSE], Black) : Drawn({}, Plain, outline) \subseteq canvas

\* A bar stays in its frame and a full one fills it.
BarFits(f) ==
  LET row == {p[1] : p \in {q \in canvas : q[2] = BarRow}}
  IN  /\ \A x \in row : BarLeft <= x /\ x <= BarRight
      /\ f.max > 0 /\ f.num >= f.max /\ f.type # 2 => row = BarLeft .. BarRight

\* A large digit's picture in a box like the test program's, on a large canvas.
BigNum(num) ==
  LET boxes == BigNumBoxes(0, 0, 20, 22, num)
      black[i \in 0 .. Len(boxes)] ==
        IF i = 0 THEN {}
        ELSE LET b == boxes[i]
                 area == (b[1] .. b[3]) \X (b[2] .. b[4])
             IN  IF b[5] = Black THEN black[i - 1] \union area ELSE black[i - 1] \ area
  IN  black[Len(boxes)]

\* It is in its box, and no other digit looks the same.
BigNumReads(num) ==
  /\ BigNum(num) # {} /\ BigNum(num) \subseteq (0 .. 20) \X (0 .. 22)
  /\ \A other \in 0 .. 12 : other # num => BigNum(other) # BigNum(num)

(* A figure is drawn whole: lines and outlines without gaps, a fill over its  *)
(* outline, a bar in its frame, each digit unlike the others, and one picture *)
(* the same by all functions, whose buffers have different layouts.  (A wbmp  *)
(* whose rows do not end with a byte is the known exception: the loader       *)
(* counts without their padding.)                                             *)
FiguresWhole ==
  LET f == figure.shape
  IN  Fresh =>
        /\ f.kind = "line" => LineJoins(f)
        /\ f.kind \in {"round", "circle"} /\ Inside => Connected(canvas)
        /\ f.kind \in {"box", "round", "circle"} => (f.fill => FillCovers(f))
        /\ f.kind = "bar" => BarFits(f)
        /\ f.kind = "bignum" => BigNumReads(f.num)
        /\ f \in Images /\ (f.kind = "wbmp" => f.picture.width % 8 = 0) => canvas = f.picture.black \intersect Pixels

(* Both: what is drawn is whole, and xor takes away what it drew. *)
FiguresDrawn == XorRestores /\ FiguresWhole
=============================================================================
