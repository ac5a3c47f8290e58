------------------------------- MODULE Canvas -------------------------------
(***************************************************************************)
(* The drawing primitives of liblogitechrender (screen.c, pixel.c) on a    *)
(* canvas of Width x Height pixels.  A canvas is the set of its black      *)
(* pixels, a pixel being <<x, y>>.  A figure is the sequence of the writes *)
(* <<x, y, value>> its function makes, in their order: with mode_xor a     *)
(* pixel that is written twice is not a pixel that is written once.        *)
(* Nothing here has a state; Shapes draws with these operators.            *)
(***************************************************************************)
EXTENDS Integers, Sequences

CONSTANTS Width, Height     \* G15_LCD_WIDTH and G15_LCD_HEIGHT, smaller

Black == 1
White == 0
Flip == 2     \* "the opposite of what is there", computed when it is written

Pixels == (0 .. Width - 1) \X (0 .. Height - 1)

Abs(n) == IF n < 0 THEN -n ELSE n

\* The concatenation of f[from], ..., f[to].
Joined(f, from, to) ==
  LET upTo[i \in from - 1 .. to] == IF i = from - 1 THEN <<>> ELSE upTo[i - 1] \o f[i]
  IN  IF from > to THEN <<>> ELSE upTo[to]

---------------------------------------------------------------------------
\* screen.c

getPixel(canvas, x, y) == IF <<x, y>> \in canvas THEN Black ELSE White

\* Mutant: the pixel is or-ed instead of xor-ed.
setPixelOr(canvas, mode, write) ==
  LET at == <<write[1], write[2]>>
      asked == IF write[3] = Flip THEN 1 - getPixel(canvas, at[1], at[2]) ELSE write[3]
      black == asked = Black \/ (mode.xor /\ at \in canvas)
  IN  IF at \notin Pixels THEN canvas
      ELSE IF black # mode.reverse THEN canvas \union {at} ELSE canvas \ {at}

\* A canvas after one write: outside it nothing happens (the coordinates are
\* unsigned, so a negative one is outside too), xor first, then reverse.
setPixel(canvas, mode, write) ==
  LET x == write[1]
      y == write[2]
      asked  == IF write[3] = Flip THEN 1 - getPixel(canvas, x, y) ELSE write[3]
      xored  == IF mode.xor THEN (asked + getPixel(canvas, x, y)) % 2 ELSE asked
      value  == IF mode.reverse THEN 1 - xored ELSE xored
  IN  IF <<x, y>> \notin Pixels THEN canvas
      ELSE IF value = Black THEN canvas \union {<<x, y>>} ELSE canvas \ {<<x, y>>}

\* A canvas after a whole figure: the writes i to j are those of the first half,
\* then those of the second.
Drawn(canvas, mode, writes) ==
  LET after[c \in SUBSET Pixels, i \in Nat, j \in Nat] ==
        IF i > j THEN c
        ELSE IF i = j THEN setPixel(c, mode, writes[i])
        ELSE LET middle == (i + j) \div 2 IN after[after[c, i, middle], middle + 1, j]
  IN  after[canvas, 1, Len(writes)]

clearScreen(color) == IF color # White THEN Pixels ELSE {}

---------------------------------------------------------------------------
\* pixel.c: areas and lines

\* The writes of one value to the rectangle, column by column.
Area(x1, y1, x2, y2, value) ==
  Joined([x \in x1 .. x2 |-> [i \in 1 .. IF y2 < y1 THEN 0 ELSE y2 - y1 + 1 |-> <<x, y1 + i - 1, value>>]],
         x1, x2)

pixelReverseFill(x1, y1, x2, y2, fill, color) ==
  Area(x1, y1, x2, y2, IF fill THEN color ELSE Flip)

\* Bresenham's line.  In a steep line the axes change places, and it is always
\* drawn towards the larger coordinate; `error` is what the line is behind.
drawLine(px1, py1, px2, py2, color) ==
  LET steep == Abs(py2 - py1) > Abs(px2 - px1)
      a0 == IF steep THEN <<py1, px1>> ELSE <<px1, py1>>
      b0 == IF steep THEN <<py2, px2>> ELSE <<px2, py2>>
      a  == IF a0[1] > b0[1] THEN b0 ELSE a0
      b  == IF a0[1] > b0[1] THEN a0 ELSE b0
      dx == b[1] - a[1]
      dy == Abs(b[2] - a[2])
      ystep == IF a[2] < b[2] THEN 1 ELSE -1
      at[n \in 0 .. dx] ==           \* y and error when column a[1] + n is written
        IF n = 0 THEN [y |-> a[2], error |-> 0]
        ELSE LET before == at[n - 1]
                 error  == before.error + dy
             IN  IF 2 * error >= dx THEN [y |-> before.y + ystep, error |-> error - dx]
                 ELSE [y |-> before.y, error |-> error]
  IN  [i \in 1 .. dx + 1 |->
         LET y == at[i - 1].y
         IN  IF steep THEN <<y, a[1] + i - 1, color>> ELSE <<a[1] + i - 1, y, color>>]

\* The four sides, `thick` times one pixel further in, and what is left inside.
pixelBox(x1, y1, x2, y2, color, thick, fill) ==
  LET sides(i) == drawLine(x1 + i, y1 + i, x2 - i, y1 + i, color)
               \o drawLine(x1 + i, y1 + i, x1 + i, y2 - i, color)
               \o drawLine(x2 - i, y1 + i, x2 - i, y2 - i, color)
               \o drawLine(x1 + i, y2 - i, x2 - i, y2 - i, color)
  IN  Joined([i \in 0 .. thick - 1 |-> sides(i)], 0, thick - 1)
      \o IF fill THEN Area(x1 + thick, y1 + thick, x2 - thick, y2 - thick, color) ELSE <<>>

\* The boxes of a large digit, of ":", "-" and "." (10, 11, 12): most are a full block
\* with a hole above and one below its middle.  The middle is taken from y2 alone.
BigNumBoxes(x1, y1, x2, y2, num) ==
  LET l == x1 + 2
      r == x2 - 2
      top == y1 + (y2 \div 2) - 3
      low == y1 + (y2 \div 2) + 3
      ink(a, b, c, d)  == <<a, b, c, d, Black>>
      hole(a, b, c, d) == <<a, b, c, d, White>>
      block == ink(l, y1, r, y2)
  IN  CASE num = 0  -> <<block, hole(l + 5, y1 + 5, r - 5, y2 - 6)>>
        [] num = 1  -> <<ink(r - 5, y1, r, y2), hole(l, y1, r - 5, y2)>>
        [] num = 2  -> <<block, hole(l, y1 + 5, r - 5, top), hole(l + 5, low, r, y2 - 6)>>
        [] num = 3  -> <<block, hole(l, y1 + 5, r - 5, top), hole(l, low, r - 5, y2 - 6)>>
        [] num = 4  -> <<block, hole(l, low, r - 5, y2), hole(l + 5, y1, r - 5, top)>>
        [] num = 5  -> <<block, hole(l + 5, y1 + 5, r, top), hole(l, low, r - 5, y2 - 6)>>
        [] num = 6  -> <<block, hole(l + 5, y1 + 5, r, top), hole(l + 5, low, r - 5, y2 - 6)>>
        [] num = 7  -> <<block, hole(l, y1 + 5, r - 5, y2)>>
        [] num = 8  -> <<block, hole(l + 5, y1 + 5, r - 5, top), hole(l + 5, low, r - 5, y2 - 6)>>
        [] num = 9  -> <<block, hole(l + 5, y1 + 5, r - 5, top), hole(l, low, r - 5, y2)>>
        [] num = 10 -> <<ink(r - 5, y1 + 5, r, y1 + 10), ink(r - 5, y2 - 10, r, y2 - 5)>>
        [] num = 11 -> <<ink(l, top + 1, r, low - 1)>>
        [] num = 12 -> <<ink(r - 5, y2 - 5, r, y2)>>
        [] OTHER    -> <<>>

drawBigNum(x1, y1, x2, y2, color, num) ==
  LET boxes == BigNumBoxes(x1, y1, x2, y2, num)
      box(b) == pixelBox(b[1], b[2], b[3], b[4], IF b[5] = Black THEN color ELSE 1 - color, 1, TRUE)
  IN  Joined([i \in DOMAIN boxes |-> box(boxes[i])], 1, Len(boxes))

---------------------------------------------------------------------------
\* pixel.c: circle, rounded box, bar

\* One turn of the circle's loop: first the row, then, with the new difference,
\* the column.
CircleStep(c) ==
  LET down == IF c.dd + c.yy > 0
              THEN [c EXCEPT !.yy = c.yy - 1, !.dd = c.dd - (2 * (c.yy - 1) + 1)]
              ELSE c
  IN  IF down.xx > down.dd
      THEN [down EXCEPT !.xx = down.xx + 1, !.dd = down.dd + (2 * (down.xx + 1) + 1)]
      ELSE down

drawCircle(x, y, r, fill, color) ==
  LET turn[n \in 0 .. 3 * r + 3] ==
        IF n = 0 THEN [xx |-> 0, yy |-> r, dd |-> 2 * (1 - r)] ELSE CircleStep(turn[n - 1])
      turns == CHOOSE n \in 0 .. 3 * r + 3 :
                 turn[n].yy < 0 /\ \A k \in 0 .. n - 1 : turn[k].yy >= 0
      at(c) == IF fill
               THEN drawLine(x - c.xx, y - c.yy, x + c.xx, y - c.yy, color)
                    \o drawLine(x - c.xx, y + c.yy, x + c.xx, y + c.yy, color)
               ELSE << <<x + c.xx, y - c.yy, color>>, <<x + c.xx, y + c.yy, color>>,
                       <<x - c.xx, y - c.yy, color>>, <<x - c.xx, y + c.yy, color>> >>
  IN  Joined([n \in 0 .. turns - 1 |-> at(turn[n])], 0, turns - 1)

\* `shave` pixels of each corner stay empty.  It is at most 3, so the code's case
\* for 4, which would put single pixels back, never runs and is left out.
Shave(x1, y1, x2, y2) ==
  LET halves == {3, (x2 - x1) \div 2, (y2 - y1) \div 2}
  IN  CHOOSE s \in halves : \A t \in halves : s <= t

RoundFill(x1, y1, x2, y2, color) ==
  LET shave == Shave(x1, y1, x2, y2)
      rows(inset, from, to) ==
        Joined([y \in from .. to |-> drawLine(x1 + inset, y, x2 - inset, y, color)], from, to)
  IN  drawLine(x1 + shave, y1, x2 - shave, y1, color)
      \o rows(1, y1 + 1, y1 + shave - 1)
      \o rows(0, y1 + shave, y2 - shave)
      \o rows(1, y2 - shave + 1, y2 - 1)
      \o drawLine(x1 + shave, y2, x2 - shave, y2, color)

RoundOutline(x1, y1, x2, y2, color) ==
  LET shave == Shave(x1, y1, x2, y2)
      \* the corner at <<x, y>>, whose box lies in the directions h and v
      corner(x, y, h, v) == drawLine(x + h, y + v, x + h * (shave - 1), y + v, color)
                         \o drawLine(x + h, y + v, x + h, y + v * (shave - 1), color)
  IN  drawLine(x1 + shave, y1, x2 - shave, y1, color)
      \o drawLine(x1, y1 + shave, x1, y2 - shave, color)
      \o drawLine(x2, y1 + shave, x2, y2 - shave, color)
      \o drawLine(x1 + shave, y2, x2 - shave, y2, color)
      \o IF shave > 1
         THEN corner(x1, y1, 1, 1) \o corner(x2, y1, -1, 1)
              \o corner(x1, y2, 1, -1) \o corner(x2, y2, -1, -1)
         ELSE <<>>

drawRoundBox(x1, y1, x2, y2, fill, color) ==
  IF x1 = x2 \/ y1 = y2 THEN <<>>
  ELSE IF fill THEN RoundFill(x1, y1, x2, y2, color)
  ELSE RoundOutline(x1, y1, x2, y2, color)

\* How many of `size` pixels show num of max: max / num is rounded to a float
\* before the division, so a length that should be whole may come out just above
\* it and be rounded up; nothing of the kind when max is a multiple of num.
BarLengths(size, num, max) ==
  LET whole == (size * num + max - 1) \div max
  IN  IF num = 0 \/ max % num = 0 \/ (size * num) % max # 0 THEN {whole}
      ELSE {whole, whole + 1}

\* The three kinds of frame: a box around the bar, a box two pixels away from
\* it, an I on its side.
BarFrame(x1, y1, x2, y2, color, type) ==
  LET box(out) == pixelBox(x1 - out, y1 - type, x2 + out, y2 + type, 1 - color, 1, TRUE)
               \o pixelBox(x1 - out, y1 - type, x2 + out, y2 + type, color, 1, FALSE)
      middle == y1 + (y2 - y1) \div 2
  IN  CASE type = 1 -> box(0)
        [] type = 2 -> box(2)
        [] type = 3 -> drawLine(x1, y1 - type, x1, y2 + type, color)
                       \o drawLine(x2, y1 - type, x2, y2 + type, color)
                       \o drawLine(x1, middle, x2, middle, color)

\* Every figure the bar can come out as.
drawBar(bx1, by1, bx2, by2, color, number, max, type) ==
  LET in  == IF type = 2 THEN 2 ELSE 0
      x1  == bx1 + in
      x2  == bx2 - in
      y1  == by1 + in
      y2  == by2 - in
      num == IF number > max THEN max ELSE number
  IN  IF max <= 0 \/ num < 0 THEN {<<>>}
      ELSE {BarFrame(x1, y1, x2, y2, color, type) \o pixelBox(x1, y1, x1 + length, y2, color, 1, TRUE) :
              length \in BarLengths(x2 - x1, num, max)}

---------------------------------------------------------------------------
\* pixel.c: pictures.  A picture is a set of the positions of its set bits.

\* Bits in reading order: bit y * width + x, whatever the width.
Picture(bits, x1, y1, width, height) ==
  [i \in 1 .. width * height |->
     <<x1 + ((i - 1) % width), y1 + ((i - 1) \div width), IF i - 1 \in bits THEN Black ELSE White>>]

\* colormap[i] is non-zero iff i is in the set.
pixelOverlay(x1, y1, width, height, colormap) == Picture(colormap, x1, y1, width, height)

\* The same, the bits packed into bytes, the most significant first.
drawIcon(buf, my_x, my_y, width, height) == Picture(buf, my_x, my_y, width, height)

\* One sprite of a sheet total_width wide; its last row and column are not drawn.
drawSprite(buf, my_x, my_y, width, height, start_x, start_y, total_width) ==
  Joined([y \in 0 .. height - 2 |->
            [i \in 1 .. width - 1 |->
               <<my_x + i - 1, my_y + y,
                 IF (y + start_y) * total_width + i - 1 + start_x \in buf THEN Black ELSE White>>]],
         0, height - 2)

\* Rows padded to whole bytes, the least significant bit first; only black is
\* drawn.  data holds the numbers of the set bits, 8 for a byte, bit 0 the least.
drawXBM(data, width, height, pos_x, pos_y) ==
  LET bits_per_row == 8 * ((width + 7) \div 8)
      all == [i \in 1 .. width * height |->
                <<(i - 1) % width, (i - 1) \div width>>]
      black(p) == p[2] * bits_per_row + p[1] \in data
      drawn == SelectSeq(all, black)
  IN  [i \in 1 .. Len(drawn) |-> <<drawn[i][1] + pos_x, drawn[i][2] + pos_y, Black>>]

\* The loader's last step, which turns a wbmp's white 1 into a black one.  It
\* counts bits as the icon does, without the padding that ends a row of the file
\* when the width is not a multiple of 8.
loadWbmpToBuf(file, width, height) ==
  {i \in 0 .. width * height - 1 : i \notin file} \union {i \in file : i >= width * height}
=============================================================================
