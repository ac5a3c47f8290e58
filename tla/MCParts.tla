------------------------------- MODULE MCParts -------------------------------
(***************************************************************************)
(* Model checking, for what they may never do, of the daemon's lives and   *)
(* of the parts that meet in no variable, one to a behaviour: `part` says  *)
(* which. Daemon's variables are its own.                                  *)
(***************************************************************************)
EXTENDS Daemon, Parts

\* A second separator ends a value.
CutShort == [v \in ConfValues |-> IF v = "10:30" THEN "10" ELSE v]

\* No file, and one with a key before any section.  (Lines as Config's Line has them.)
FileLine(t, n, v) == [title |-> t, name |-> n, val |-> v]
SmallFiles == {<<>>, <<FileLine(FALSE, "mode", "10:30"), FileLine(TRUE, "Clock", "blank"),
                       FileLine(FALSE, "date", "10"), FileLine(TRUE, "Global", "blank"),
                       FileLine(FALSE, "; note", "blank")>>}

\* A typeface whose glyphs' pictures are frames.
Frame(w, h) == {p \in Rect(0 .. w - 1, 0 .. h - 1) : p[1] \in {0, w - 1} \/ p[2] = h - 1}
Face(widths, gap, active) ==
  [height |-> 3, gap |-> gap, active |-> active,
   glyph |-> [c \in {32, 65, 66} |->
                IF c = 32 THEN [width |-> 2, pixels |-> {}]
                ELSE [width |-> widths[c - 64], pixels |-> Frame(widths[c - 64], 3)]]]

\* Glyphs around one and two bytes wide, with and without a gap between them, and
\* files that lack some characters.
SmallFaces == {Face(w, g, a) : w \in {<<1, 9>>, <<8, 7>>, <<9, 17>>, <<1, 2>>}, g \in {0, 1},
                               a \in {{32, 65, 66}, {65}, {66}}}
SmallTexts == UNION {[1 .. n -> FontChars] : n \in 0 .. 2}

---------------------------------------------------------------------------
\* No daemon has started while a behaviour is about another part.
NotStarted == conf = EmptyConf
PartsInit == \/ part = "daemon" /\ Init /\ None1
             \/ PartInit /\ Init /\ NotStarted
PartsNext == \/ part = "daemon" /\ Next /\ UNCHANGED <<part, from1>>
             \/ part # "daemon" /\ PartNext /\ UNCHANGED vars
PartsSpec == PartsInit /\ [][PartsNext]_<<partvars, vars>>
=============================================================================
