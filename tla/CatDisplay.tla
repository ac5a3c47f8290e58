------------------------------ MODULE CatDisplay ------------------------------
(* g15cat: a stream of characters on a display of lines that scroll, where a   *)
(* backspace may be the first character of a shell's way to rub out another.   *)
EXTENDS Naturals, SequencesExt

CONSTANTS Columns, Lines,   \* num_chars and num_lines of the format
          MaxText           \* (bound) characters that come

VARIABLES shell, cut,    \* options
          counter,       \* characters of the line cut so far
          rows,          \* the lines of the display, as the places of their letters in text
          pc,            \* what the next fgetc() is for, "done" or "crashed"
          text           \* history: the characters read

vars == <<shell, cut, counter, rows, pc, text>>

\* One line more than the format says.
Init == /\ shell \in BOOLEAN /\ cut \in {0, 1} /\ counter = 0 /\ text = <<>>
        /\ rows = [i \in 1 .. Lines + 1 |-> <<>>] /\ pc = "next"

---------------------------------------------------------------------------
(* The list of lines (display.c).                                             *)
display_newline(r) == Append(Tail(r), <<>>)
display_add_char(r, place) == [r EXCEPT ![Len(r)] = Append(@, place)]
display_remline(r) == Cons(<<>>, Front(r))
\* A line that is emptied goes, and the one above is written on.
display_rem_char(r) ==
  IF Len(Last(r)) <= 1 THEN display_remline(r) ELSE [r EXCEPT ![Len(r)] = Front(@)]

\* Mutant: the letter that no longer fits is not put in the new line.
WrappedAway(r, c, place) == display_newline(r)

Wrapped(r, c, place) ==
  IF c = "nl" THEN display_newline(r) ELSE display_add_char(display_newline(r), place)

---------------------------------------------------------------------------
Here == Len(text) + 1

Show(c) ==
  IF c = "nl" \/ (Len(Last(rows)) >= Columns /\ c # "bs")
  THEN rows' = Wrapped(rows, c, Here) /\ counter' = 0 /\ pc' = "next"
  ELSE /\ rows' = IF c \in {"bell", "bs"} THEN rows ELSE display_add_char(rows, Here)
       /\ pc' = IF c = "bs" THEN "esc" ELSE "next"
       /\ UNCHANGED counter

\* The rest of a full line is read away: the character that was read for it is not
\* looked at, be it the end of that line.
Read(c) ==
  /\ pc = "next"
  /\ IF ~shell /\ counter < cut
     THEN counter' = counter + 1 /\ UNCHANGED <<rows, pc>>
     ELSE IF ~shell /\ Len(Last(rows)) = Columns
     THEN pc' = "skip" /\ UNCHANGED <<rows, counter>>
     ELSE Show(c)

\* At the end of the stream this loop goes on for ever.
Skip(c) ==
  /\ pc = "skip"
  /\ IF c = "nl" THEN Show(c) ELSE UNCHANGED <<rows, counter, pc>>

\* What follows a backspace is lost when it is not what a shell sends.  On an empty
\* line it is the byte in front of the line's memory that becomes zero: it may have
\* been zero, or the program ends by it.
RubOut(c) ==
  /\ \/ pc = "esc" /\ pc' = (IF c = "esc" THEN "[" ELSE "next") /\ UNCHANGED rows
     \/ pc = "[" /\ pc' = (IF c = "[" THEN "K" ELSE "next") /\ UNCHANGED rows
     \/ pc = "K" /\ pc' = "next" /\ rows' = (IF c = "K" THEN display_rem_char(rows) ELSE rows)
     \/ pc = "K" /\ c = "K" /\ Last(rows) = <<>> /\ pc' = "crashed" /\ UNCHANGED rows
  /\ UNCHANGED counter

Comes == IF pc \in {"next", "skip"} THEN {"letter", "nl", "bs", "bell"} ELSE {"letter", pc}

main_loop ==
  /\ Len(text) < MaxText
  /\ \E c \in Comes : /\ Read(c) \/ Skip(c) \/ RubOut(c)
                      /\ text' = Append(text, c)
  /\ UNCHANGED <<shell, cut>>

Eof ==
  /\ pc \notin {"skip", "done", "crashed"}
  /\ pc' = "done"
  /\ UNCHANGED <<shell, cut, counter, rows, text>>

Next == main_loop \/ Eof

---------------------------------------------------------------------------
\* Letters in the order in which they stand, row after row.
InOrder(r) ==
  \A i, j \in DOMAIN r : \A m \in DOMAIN r[i], n \in DOMAIN r[j] :
    i < j \/ (i = j /\ m < n) => r[i][m] < r[j][n]
Shown(r) == UNION {ToSet(r[i]) : i \in DOMAIN r}
LettersFrom(p) == {i \in p .. Len(text) : text[i] \notin {"nl", "bell"}}
Between(p, q) == {text[i] : i \in p + 1 .. q - 1}

(* No line grows past the memory it has, and letters stand in the order they    *)
(* came in, however they were rubbed out.  Where nothing was rubbed out, a row   *)
(* has letters of one line; and for a shell, every letter after one that is      *)
(* still there is there.                                                         *)
CatShows ==
  /\ Len(rows) = Lines + 1 /\ \A i \in DOMAIN rows : Len(rows[i]) <= Columns
  /\ InOrder(rows)
  /\ "bs" \notin ToSet(text) =>
       /\ \A i \in DOMAIN rows : \A j \in 1 .. Len(rows[i]) - 1 :
            Between(rows[i][j], rows[i][j + 1]) \subseteq {"bell"}
       /\ shell => \A p \in Shown(rows) : LettersFrom(p) \subseteq Shown(rows)
=============================================================================
