------------------------------- MODULE Fonts -------------------------------
(***************************************************************************)
(* The bitmap fonts of liblogitechrender.  The converter turns a face into *)
(* a font file; a program that prints text loads the file of the size it   *)
(* needs, glyph by glyph into one growing block of memory, keeps the font  *)
(* and places the text's characters.  A glyph is the set of its black      *)
(* pixels; its bytes are the set of their one bits, rows padded to bytes.  *)
(***************************************************************************)
EXTENDS Integers, Sequences, FiniteSets

CONSTANTS Chars,        \* character codes; Space is one of them
          Space,
          Faces,        \* faces to convert: records [height, gap, glyph : [Chars -> [width, pixels]], active]
          Texts,        \* texts to print: sequences of characters
          FirstAlloc,   \* the block's first size, 2048 in the code
          Columns,      \* width of the panel
          MaxPrints     \* bound: texts printed

\* Codes, a glyph's width and the gap are bytes; a glyph's pixels lie in its cell.
FontAssumption ==
  /\ Chars \subseteq 0 .. 255 /\ Texts \subseteq Seq(Chars)
  /\ FirstAlloc \in Nat /\ Columns \in Nat
  /\ \A f \in Faces :
       /\ f.height \in Nat /\ f.gap \in 0 .. 255 /\ f.active \subseteq Chars
       /\ \A c \in f.active : LET g == f.glyph[c]
                              IN  g.width \in 0 .. 255 /\ g.pixels \subseteq (0 .. g.width - 1) \X (0 .. f.height - 1)

VARIABLES file,         \* the font file: None, or a header and a sequence of glyphs
          face,         \* history: the face it was made from
          load,         \* None, or how far g15r_loadG15Font is
          font,         \* defaultfont[size]: None or the loaded font
          text,         \* the last text: None, or its characters and their columns
          prints

vars == <<file, face, load, font, text, prints>>

None == [none |-> TRUE]

---------------------------------------------------------------------------
\* Bytes of a glyph, and the bit of a pixel <<x, y>> among them, with x counted
\* from 0.
RowBytes(width) == (width + 7) \div 8
GlyphBytes(height, width) == height * RowBytes(width)
BitOf(width, p) == p[2] * 8 * RowBytes(width) + p[1]

\* The converter packs each black pixel into the rows of the glyph.
Packed(glyph) == {BitOf(glyph.width, p) : p \in glyph.pixels}

\* Saving: the number of active glyphs goes into the header, the glyphs follow by
\* code, each with its width and its bytes.
Sorted(codes) ==
  CHOOSE s \in [1 .. Cardinality(codes) -> codes] : \A i, j \in DOMAIN s : i < j => s[i] < s[j]
Saved(f, c) == [code |-> c, width |-> f.glyph[c].width, bits |-> Packed(f.glyph[c])]
g15r_saveG15Font(f) ==
  [height |-> f.height, gap |-> f.gap, numchars |-> Cardinality(f.active),
   glyphs |-> [i \in DOMAIN Sorted(f.active) |-> Saved(f, Sorted(f.active)[i])]]

\* Mutant: rows are taken to be as long as the glyph is wide.
RenderedPixelsUnpadded(width, bits) == {<<(b % width) + 1, b \div width>> : b \in bits}

\* What rendering makes of a glyph's bits: the eight bits of each byte in turn, x
\* wrapping at the padded width; the bits behind the glyph's own width are not drawn.
\* The first column drawn is the one behind the corner.
RenderedPixels(width, bits) ==
  LET padded == IF width % 8 = 0 THEN width ELSE width + 8 - (width % 8)
  IN  {<<(b % padded) + 1, b \div padded>> : b \in {c \in bits : (c % padded) + 1 <= width}}

\* The pen's step.  A space has no gap behind it.
Advance(f, c) ==
  IF c \notin f.active THEN 0
  ELSE IF c # Space THEN f.width[c] + f.gap ELSE f.width[c]

\* What the first n of some steps come to, for each n.
Sums(steps) ==
  LET sum[n \in 0 .. Len(steps)] == IF n = 0 THEN 0 ELSE sum[n - 1] + steps[n] IN sum

\* The width the placing counts with: it takes every character's gap.
g15r_testG15FontWidth(f, s) == Sums([i \in DOMAIN s |-> f.width[s[i]] + f.gap])[Len(s)]

\* The columns of the characters from sx on.
g15r_G15FontRenderString(f, s, sx) ==
  LET pen == Sums([i \in DOMAIN s |-> Advance(f, s[i])])
  IN  [i \in DOMAIN s |-> [char |-> s[i], x |-> sx + pen[i - 1]]]

\* Left, centred or right-justified.
g15r_G15FPrint(f, s, x, center) ==
  LET xc == g15r_testG15FontWidth(f, s)
  IN  g15r_G15FontRenderString(f, s, CASE center = 0 -> x
                                       [] center = 1 -> (Columns \div 2) - (xc \div 2)
                                       [] center = 2 -> Columns - xc)

---------------------------------------------------------------------------
Init ==
  /\ file = None
  /\ face = None
  /\ load = None
  /\ font = None
  /\ text = None
  /\ prints = 0

\* The conversion program writes the file (before a program has the font).
convertG15Font ==
  /\ load = None /\ font = None
  /\ \E f \in Faces : face' = f /\ file' = g15r_saveG15Font(f)
  /\ UNCHANGED <<load, font, text, prints>>

\* The first text of a size: the font is not there yet.  Without a file nothing is
\* printed, and the next text tries again.
g15r_requestG15DefaultFont ==
  /\ load = None /\ font = None /\ prints < MaxPrints
  /\ IF file = None THEN load' = load
     ELSE load' = [i |-> 0, memsize |-> 0, alloc |-> FirstAlloc, active |-> {},
                   width |-> [c \in Chars |-> 0], bits |-> [c \in Chars |-> {}],
                   fits |-> TRUE, moved |-> FALSE]
  /\ prints' = IF file = None THEN prints + 1 ELSE prints
  /\ UNCHANGED <<file, face, font, text>>

\* One glyph.  The block grows when the glyphs so far do not fit, by this one's size
\* for each that is left, and may move when it does; the glyphs' pointers, those
\* already set and the one for this glyph, do not move with it.
LoadGlyph ==
  /\ load # None /\ load.i < file.numchars
  /\ LET g == file.glyphs[load.i + 1]
         size == GlyphBytes(file.height, g.width)
         memsize == load.memsize + size
         grows == memsize > load.alloc
         alloc == IF grows THEN load.alloc + size * (file.numchars - load.i) ELSE load.alloc
     IN  \E moves \in IF grows THEN BOOLEAN ELSE {FALSE} :
           load' = [load EXCEPT !.i = load.i + 1, !.memsize = memsize, !.alloc = alloc,
                                !.width[g.code] = g.width % 256, !.bits[g.code] = g.bits,
                                !.active = load.active \union {g.code},
                                !.fits = load.fits /\ load.memsize + size <= alloc,
                                !.moved = load.moved \/ moves]
  /\ UNCHANGED <<file, face, font, text, prints>>

LoadDone ==
  /\ load # None /\ load.i = file.numchars
  /\ font' = [height |-> file.height, gap |-> file.gap, width |-> load.width, bits |-> load.bits,
              active |-> load.active, fits |-> load.fits, moved |-> load.moved]
  /\ load' = None
  /\ UNCHANGED <<file, face, text, prints>>

PrintText ==
  /\ load = None /\ font # None /\ prints < MaxPrints
  /\ \E s \in Texts, x \in {0, 5}, center \in 0 .. 2 :
       text' = [center |-> center, at |-> g15r_G15FPrint(font, s, x, center)]
  /\ prints' = prints + 1
  /\ UNCHANGED <<file, face, load, font>>

Next == convertG15Font \/ g15r_requestG15DefaultFont \/ LoadGlyph \/ LoadDone \/ PrintText

Spec == Init /\ [][Next]_vars

---------------------------------------------------------------------------
(* Through packing, saving, loading and unpacking, a glyph comes out with the  *)
(* pixels the face gave it, and no glyph was read past the block's end.  (When *)
(* the block moved, the pointers are into freed memory: a known fault.)        *)
GlyphsSurvive ==
  font # None =>
    /\ font.fits
    /\ font.active = face.active
    /\ ~font.moved => \A c \in font.active :
         RenderedPixels(font.width[c], font.bits[c]) = {<<p[1] + 1, p[2]>> : p \in face.glyph[c].pixels}

(* Characters do not overlap; a right-justified text ends on the panel, a gap    *)
(* before its edge, and so does a centred one that is not wider than the panel,  *)
(* which begins on it too, though the width they are placed by is not the width  *)
(* that is drawn.  (A font without gaps can lose its last column of pixels.)     *)
TextPlaced ==
  text # None =>
    LET at == text.at
        last(i) == at[i].x + font.width[at[i].char]
        width == g15r_testG15FontWidth(font, [i \in DOMAIN at |-> at[i].char])
    IN  /\ \A i \in 1 .. Len(at) - 1 : last(i) <= at[i + 1].x
        /\ text.center = 2 => \A i \in DOMAIN at : last(i) <= Columns - font.gap
        /\ text.center = 1 /\ width <= Columns => \A i \in DOMAIN at : 0 <= at[i].x /\ last(i) <= Columns - font.gap

(* Both: the glyphs are those of the face, and they are put where they fit. *)
TextShown == GlyphsSurvive /\ TextPlaced
=============================================================================
