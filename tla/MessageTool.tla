----------------------------- MODULE MessageTool -----------------------------
(* g15message: a text wrapped into the rows of the display, and the loop that   *)
(* waits for an answer, kept in front when it was asked for.  Texts are words   *)
(* of so many letters, and a font's letters are all of one width.               *)
EXTENDS Integers, Sequences, FiniteSetsExt, SequencesExt

CONSTANTS Columns,    \* pixels in a row
          Fonts,      \* [0 .. largest -> [width, height]]: the default fonts
          Default,    \* the size without -s
          Lengths, MaxWords,   \* (bounds) words of a text
          MaxArgs,    \* (bound) options on the command line
          MaxTurns,   \* (bound) keys that cycle the screens
          MaxDelays   \* (bound) commands that the daemon does not take in time

VARIABLES pc, option, words,
          rows,      \* the rows drawn: first and last word of each
          front,     \* the daemon's screen in front, this one or the others
          retval, turns,
          command,   \* the byte on its way to the daemon, "foreground" or "switch"
          taken,     \* the command that the daemon has read and not yet obeyed
          answer,    \* the byte on its way back: the screen that was in front
          delays,
          late       \* history: the last question met an earlier one's answer

vars == <<pc, option, words, rows, front, retval, turns, command, taken, answer,
          delays, late>>
message == <<option, words, rows>>
wire == <<command, taken, answer, delays, late>>
None == "none"
Screen == "message"
Other(screen) == IF screen = Screen THEN "others" ELSE Screen

---------------------------------------------------------------------------
(* The command line: each option overrides what an earlier one said.          *)
Options == {"-t", "-y", "-o", "-f", "-d", "-s"}
NoOptions == [title |-> FALSE, wait |-> 0, delay |-> 5, force |-> FALSE, size |-> 0]

Given(o, arg) ==
  IF arg = "-t" THEN [o EXCEPT !.title = TRUE]
  ELSE IF arg = "-y" THEN [o EXCEPT !.wait = 1, !.delay = 0]
  ELSE IF arg = "-o" THEN [o EXCEPT !.wait = 2, !.delay = 0]
  ELSE IF arg = "-f" THEN [o EXCEPT !.force = TRUE]
  ELSE IF arg = "-d" THEN [o EXCEPT !.wait = 0, !.delay = 2]
  ELSE [o EXCEPT !.size = Default - 1]
Parsed(args) == LET o == FoldLeft(Given, NoOptions, args)
                IN  IF o.size = 0 THEN [o EXCEPT !.size = Default] ELSE o

---------------------------------------------------------------------------
(* The letters of the words from i to j and of one blank after each.          *)
Letters(text, i, j) == FoldLeft(+, 0, [n \in 1 .. j - i + 1 |-> text[i + n - 1] + 1])
TextWidth(text, font) == (Letters(text, 1, Len(text)) - 1) * Fonts[font].width

MaxLines(font, y) == (43 - y) \div Fonts[font].height

\* The size is brought down until the text would fit if rows could be filled.
Shrunk(text, size, y) ==
  Max({0} \union {f \in 0 .. size : TextWidth(text, f) <= Columns * MaxLines(f, y)})

\* A row takes words while they fit with a blank after them.  A first word that does
\* not fit stays in the row, and the next row begins with it again: the length that
\* is compared with 0 was decremented just before.
Fitting(text, i, font) == {j \in i .. Len(text) : Letters(text, i, j) * Fonts[font].width <= Columns}
RowEnd(text, i, font) == Max({i} \union Fitting(text, i, font))
\* Mutant: the word that did not fit is passed over.
NextRowAfterMiss(text, i, font) == RowEnd(text, i, font) + 2

NextRow(text, i, font) == IF Fitting(text, i, font) = {} THEN i ELSE RowEnd(text, i, font) + 1

render_text_area(text, size, y) ==
  LET font == Shrunk(text, size, y)
      start[n \in 1 .. MaxLines(font, y)] == IF n = 1 THEN 1 ELSE NextRow(text, start[n - 1], font)
      used == {n \in DOMAIN start : start[n] <= Len(text)}
  IN  [n \in 1 .. Cardinality(used) |-> [first |-> start[n], last |-> RowEnd(text, start[n], font)]]

Drawn(text, o) ==
  IF TextWidth(text, o.size) > Columns
  THEN render_text_area(text, o.size, IF o.title THEN 12 ELSE 0)
  ELSE <<[first |-> 1, last |-> Len(text)]>>

---------------------------------------------------------------------------
Init == /\ pc = "start" /\ option = NoOptions /\ words = <<>> /\ rows = <<>>
        /\ front = "others" /\ retval = 255 /\ turns = 0
        /\ command = None /\ taken = None /\ answer = None /\ delays = 0 /\ late = FALSE

\* A new screen is put in front (linked_lists.c).
Start ==
  /\ pc = "start"
  /\ \E args \in SeqOf(Options, MaxArgs), text \in SeqOf(Lengths, MaxWords) :
       /\ option' = Parsed(args) /\ words' = text
       /\ IF text = <<>> THEN pc' = "done" /\ UNCHANGED <<rows, front, retval>>
          ELSE /\ rows' = Drawn(text, Parsed(args))
               /\ front' = Screen /\ retval' = 0
               /\ pc' = IF Parsed(args).wait > 0 THEN "ask" ELSE "sleep"
  /\ UNCHANGED <<turns, wire>>

\* g15_send_cmd sends one urgent byte, and one that the daemon has not taken yet is
\* gone by it (logitoolsdl_net.c).
Send(c) ==
  /\ command' = c
  /\ delays' = delays + (IF command = None THEN 0 ELSE 1)
  /\ delays' <= MaxDelays

\* The round of the waiting loop: with -f, the daemon is asked and then told.
AskForeground ==
  /\ pc = "ask"
  /\ IF option.force
     THEN Send("foreground") /\ late' = (answer # None \/ taken = "foreground") /\ pc' = "await"
     ELSE pc' = "key" /\ UNCHANGED <<command, delays, late>>
  /\ UNCHANGED <<message, front, retval, turns, taken, answer>>

\* g15_recv_oob_answer takes the byte that is there, ...
GetAnswer ==
  /\ pc = "await" /\ answer # None
  /\ pc' = (IF answer = Screen THEN "key" ELSE "switch")
  /\ answer' = None
  /\ UNCHANGED <<message, front, retval, turns, command, taken, delays, late>>

\* ... and after 100 ms without one it makes 0 - 48 of it, which is not the 0 that
\* stands for another screen in front.
TimeOut ==
  /\ pc = "await" /\ answer = None /\ delays < MaxDelays
  /\ delays' = delays + 1
  /\ pc' = "key"
  /\ UNCHANGED <<message, front, retval, turns, command, taken, answer, late>>

SwitchPriorities ==
  /\ pc = "switch"
  /\ Send("switch")
  /\ pc' = "key"
  /\ UNCHANGED <<message, front, retval, turns, taken, answer, late>>

\* The daemon's thread for this client takes a command, ...
g15_recv ==
  /\ command # None /\ taken = None
  /\ taken' = command /\ command' = None
  /\ UNCHANGED <<pc, message, front, retval, turns, answer, delays, late>>

\* ... and looks up who is in front, or changes it, when it has the list's mutex.
process_client_cmds ==
  /\ taken # None
  /\ taken' = None
  /\ IF taken = "switch" THEN front' = Other(front) /\ UNCHANGED answer
                         ELSE answer' = front /\ UNCHANGED front
  /\ UNCHANGED <<pc, message, retval, turns, command, delays, late>>

\* A value with a second key in it is neither of the two.
Answer(key) ==
  /\ pc = "key" /\ front = Screen
  /\ IF key = "L5" \/ (key = "L4" /\ option.wait = 1)
     THEN retval' = (IF key = "L4" THEN 1 ELSE 0) /\ pc' = "sleep"
     ELSE pc' = "ask" /\ UNCHANGED retval
  /\ UNCHANGED <<message, front, turns, wire>>

NoKey ==
  /\ pc = "key"
  /\ pc' = "ask"
  /\ UNCHANGED <<message, front, retval, turns, wire>>

\* sleep(delay), and the screen goes with the connection.
Leave ==
  /\ pc = "sleep"
  /\ pc' = "done" /\ front' = "others" /\ command' = None /\ taken' = None /\ answer' = None
  /\ UNCHANGED <<message, retval, turns, delays, late>>

Cycle ==
  /\ pc \notin {"start", "done"} /\ turns < MaxTurns
  /\ front' = Other(front) /\ turns' = turns + 1
  /\ UNCHANGED <<pc, message, retval, wire>>

Round == AskForeground \/ GetAnswer \/ SwitchPriorities \/ NoKey \/ Leave
Daemon == g15_recv \/ process_client_cmds
Next == Start \/ Round \/ TimeOut \/ Daemon \/ Cycle
        \/ \E key \in {"L4", "L5", "both"} : Answer(key)

Spec == Init /\ [][Next]_vars /\ WF_vars(Round) /\ WF_vars(Daemon)

---------------------------------------------------------------------------
(* The rows read in their order are the text from its beginning: no word is    *)
(* passed over between two of them, only one that is too long for a row is     *)
(* drawn again in the next; and the text ends early only when the rows do.      *)
InOrder ==
  rows # <<>> =>
    /\ rows[1].first = 1
    /\ \A n \in 1 .. Len(rows) - 1 :
         \/ rows[n + 1].first = rows[n].last + 1
         \/ rows[n + 1] = rows[n] /\ rows[n].first = rows[n].last
    /\ \/ rows[Len(rows)].last = Len(words)
       \/ \E f \in DOMAIN Fonts : Len(rows) = MaxLines(f, IF option.title THEN 12 ELSE 0)

(* With -f, whatever the user cycles to and however that meets the program's    *)
(* look, its switch and a daemon that is slow to take them, the question comes  *)
(* back in front and stays, once the answers belong to the questions.           *)
Waiting == pc \in {"ask", "await", "switch", "key"} /\ option.force
KeptInFront == Waiting /\ ~late => front = Screen

(* Both, of the text and of the question. *)
MessageShown == []InOrder /\ <>[]KeptInFront
=============================================================================
