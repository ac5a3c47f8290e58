------------------------------- MODULE TailView -------------------------------
(* g15tailf: the last lines of a file that others write to, drawn again when    *)
(* its size has changed or a key is held, from a column that two keys move.     *)
EXTENDS Naturals, SequencesExt

CONSTANTS Rows,       \* lines on the panel
          MaxOffset,  \* 1024
          MaxEdits, MaxKeys   \* (bounds) changes to the file, and of the keys held

VARIABLES file,       \* its lines, numbered as they were ever written; Gone
          held,       \* the keys that are down
          queue,      \* their values that the daemon sent and nobody read
          keystate,   \* the program's, which nothing sets before the first recv()
          size, lastsize, hoffset, pc,
          buffer,     \* the lines read
          panel,      \* lines and offset of the frame sent last
          rewritten,  \* history: [now, size, last]: how often the file had begun again
          edits, keys

vars == <<file, held, queue, keystate, size, lastsize, hoffset, pc, buffer, panel, rewritten, edits, keys>>
world == <<file, held, queue, edits, keys>>
Gone == <<0>>
Values == {{}, {"L2"}, {"L3"}}

Init == /\ file = <<>> /\ held = {} /\ queue = <<>> /\ edits = 0 /\ keys = 0
        /\ keystate \in Values
        /\ size = 0 /\ lastsize = 0 /\ hoffset \in {0, 5} /\ pc = "look"
        /\ buffer = <<>> /\ panel = [lines |-> <<>>, offset |-> hoffset]
        /\ rewritten = [now |-> 0, size |-> 0, last |-> 0]

---------------------------------------------------------------------------
filesize == IF file = Gone THEN 0 ELSE Len(file)
LastLines(f) == SubSeq(f, IF Len(f) > Rows THEN Len(f) - Rows + 1 ELSE 1, Len(f))

Look ==
  /\ pc = "look"
  /\ size' = filesize /\ rewritten' = [rewritten EXCEPT !.size = rewritten.now]
  /\ pc' = "recv"
  /\ UNCHANGED <<world, keystate, lastsize, hoffset, buffer, panel>>

\* recv() leaves the value as it was when nothing came.
Recv ==
  /\ pc = "recv"
  /\ IF queue = <<>> THEN UNCHANGED <<keystate, queue>>
     ELSE keystate' = Head(queue) /\ queue' = Tail(queue)
  /\ pc' = IF size # lastsize \/ keystate' # {} THEN "read" ELSE "move"
  /\ UNCHANGED <<file, held, edits, keys, size, lastsize, hoffset, buffer, panel, rewritten>>

\* Of a file shorter than the panel the lines that were never read are cut, too.
tailf ==
  /\ pc = "read"
  /\ IF file = Gone THEN pc' = "exit" /\ UNCHANGED buffer
     ELSE \/ pc' = "send" /\ buffer' = LastLines(file)
          \/ Len(file) < Rows /\ pc' = "crashed" /\ UNCHANGED buffer
  /\ UNCHANGED <<world, keystate, size, lastsize, hoffset, panel, rewritten>>

\* Mutant: the size is looked up when the lines have been read.
NotedAfter == filesize

Noted == size

Send ==
  /\ pc = "send"
  /\ lastsize' = Noted
  /\ rewritten' = [rewritten EXCEPT !.last = rewritten.size]
  /\ panel' = [lines |-> buffer, offset |-> hoffset]
  /\ pc' = "move"
  /\ UNCHANGED <<world, keystate, size, hoffset, buffer>>

\* The offset moves after the frame was drawn with the old one.
Left(n) == IF n > 5 THEN n - 5 ELSE 0
Right(n) == IF n < MaxOffset THEN n + 5 ELSE n
Move ==
  /\ pc = "move"
  /\ hoffset' = LET n == IF "L2" \in keystate THEN Left(hoffset) ELSE hoffset
                IN  IF "L3" \in keystate THEN Right(n) ELSE n
  /\ pc' = "look"
  /\ UNCHANGED <<world, keystate, size, lastsize, buffer, panel, rewritten>>

---------------------------------------------------------------------------
\* Others append to the file, begin it again or take it away.
Edit ==
  /\ edits < MaxEdits /\ edits' = edits + 1
  /\ \/ file # Gone /\ file' = Append(file, edits') /\ UNCHANGED rewritten
     \/ file' = <<>> /\ rewritten' = [rewritten EXCEPT !.now = @ + 1]
     \/ file' = Gone /\ rewritten' = [rewritten EXCEPT !.now = @ + 1]
  /\ UNCHANGED <<held, queue, keystate, size, lastsize, hoffset, pc, buffer, panel, keys>>

Key ==
  /\ keys < MaxKeys /\ keys' = keys + 1
  /\ held' \in Values \ {held} /\ queue' = Append(queue, held')
  /\ UNCHANGED <<file, keystate, size, lastsize, hoffset, pc, buffer, panel, rewritten, edits>>

Round == Look \/ Recv \/ tailf \/ Send \/ Move
Next == Round \/ Edit \/ Key

Spec == Init /\ [][Next]_vars /\ WF_vars(Round)

---------------------------------------------------------------------------
(* When the file rests the panel has its end, unless the file was begun again   *)
(* and has grown to the size that was noted for the one before, or the memory   *)
(* of a line that was never read is not the program's to change.                *)
AtEnd == \/ pc \in {"exit", "crashed"}
         \/ file = Gone /\ lastsize = 0
         \/ file # Gone /\ panel.lines = LastLines(file)
         \/ filesize = lastsize /\ rewritten.last # rewritten.now

(* What is shown is never more than one step of the keys from the offset.       *)
OffsetNear == hoffset <= panel.offset + 5 /\ panel.offset <= hoffset + 5

TailCatchesUp == []OffsetNear /\ <>[]AtEnd
=============================================================================
