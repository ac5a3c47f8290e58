--------------------------- MODULE ComposerThreads ---------------------------
(***************************************************************************)
(* g15composer (Attic): every screen is a thread that reads commands from  *)
(* a FIFO of its own.  A command may open another screen or close its own; *)
(* the threads are kept in a list, so that closing the first screen, whose *)
(* thread main waits for, can close the others.  The list has a mutex,     *)
(* which its walk at the end does not take; what its items point to is     *)
(* freed by the threads themselves.  Drawing commands are left out.        *)
(***************************************************************************)
EXTENDS Integers, Sequences

CONSTANTS Screens,     \* screens the program ever has
          First,       \* the one it starts with
          Names,       \* file names of FIFOs
          Kept,        \* those under /var/run/
          Background,  \* option -b: the first screen has no display
          NULL

VARIABLES name,      \* name[s]: fifo_filename
          pc,        \* pc[s]: where s's thread is; its record is freed at "end"
          fifo,      \* fifo[s]: the FIFO that s waits for or has open (a thread that is told to leave
                     \* before it reads never closes it)
          made,      \* made[s]: the screen s has started and not yet added
          closing,   \* param->leaving: SC was read
          file,      \* file[n]: "absent", "file", or the FIFO, by the screen that made it
          items,     \* the list from first_thread on
          last,      \* last_thread
          leaving,   \* threads->leaving
          main,      \* main: where it is, at which item, and the next one;
                     \* the FIFO it has open for writing; found (history) is the list when
                     \* the walk began
          fault      \* freed memory was used

screen == <<name, pc, fifo, made, closing>>
vars == <<screen, file, items, last, leaving, main, fault>>

Listed == {items[i] : i \in DOMAIN items}
Readers(f) == {s \in Screens : fifo[s] = f /\ pc[s] # "closed"}
\* A writer opens the FIFO: the threads that wait in fopen go on.
Woken(f) == [s \in Screens |-> IF fifo[s] = f /\ pc[s] = "open" THEN "top" ELSE pc[s]]

Init ==
  /\ name \in {[s \in Screens |-> n] : n \in Names}
  /\ pc = [s \in Screens |-> IF s = First THEN "start" ELSE "none"]
  /\ fifo = [s \in Screens |-> NULL]
  /\ made = [s \in Screens |-> NULL] /\ closing = [s \in Screens |-> FALSE]
  /\ file = [n \in Names |-> "absent"]
  /\ items = <<>> /\ last = NULL /\ leaving = FALSE
  /\ main = [pc |-> "add", at |-> First, next |-> NULL, fd |-> NULL, found |-> {}, waits |-> FALSE]
  /\ fault = FALSE

Goto(s, to) == pc' = [pc EXCEPT ![s] = to]

---------------------------------------------------------------------------
\* threadEntry looks whether somebody reads the FIFO by opening it for writing, which
\* wakes who waits there, and makes one that is not there.  Where it is read the
\* thread frees its record and ends; it stays in the list if it was added.
Start(s) ==
  LET f == file[name[s]] IN
  /\ pc[s] = "start"
  /\ closing' = [closing EXCEPT ![s] = FALSE]
  /\ \/ f = "absent" /\ file' = [file EXCEPT ![name[s]] = s] /\ Goto(s, "made")
     \/ f \in Screens /\ Readers(f) = {} /\ Goto(s, "made") /\ UNCHANGED file
     \/ /\ f = "file" \/ (f \in Screens /\ Readers(f) # {})
        /\ pc' = [Woken(f) EXCEPT ![s] = "end"]
        /\ UNCHANGED file
  /\ UNCHANGED <<name, fifo, made, items, last, leaving, main, fault>>

\* fopen for reading: it waits for a writer, and fails where the file has gone.
Fopen(s, leaves) ==
  LET f == file[name[s]] IN
  /\ closing' = [closing EXCEPT ![s] = leaves \/ f = "absent"]
  /\ fifo' = [fifo EXCEPT ![s] = IF f \in Screens THEN f ELSE NULL]
  /\ Goto(s, IF f = "absent" THEN "unlink" ELSE IF f \in Screens /\ main.fd # f THEN "open" ELSE "top")

\* The new screen's first, behind its connection to g15daemon, which may have failed.
Open(s) ==
  /\ pc[s] = "made"
  /\ \E failed \in (IF s = First /\ Background THEN {FALSE} ELSE BOOLEAN) : Fopen(s, failed)
  /\ UNCHANGED <<name, made, file, items, last, leaving, main, fault>>

Top(s) ==
  /\ pc[s] = "top"
  /\ Goto(s, IF closing[s] \/ leaving THEN "unlink" ELSE "parse")
  /\ UNCHANGED <<name, fifo, made, closing, file, items, last, leaving, main, fault>>

\* What yyparse does behind a command: in the background it returns.
After(s) == IF s = First /\ Background THEN "closed" ELSE "parse"

\* Any of the screens that are left stands for the new one.
ScreenNew(s, n) ==
  LET t == CHOOSE left \in Screens : pc[left] = "none" IN
  /\ pc[s] = "parse" /\ \E left \in Screens : pc[left] = "none"
  /\ name' = [name EXCEPT ![t] = n]
  /\ pc' = [pc EXCEPT ![s] = "adding", ![t] = "start"]
  /\ made' = [made EXCEPT ![s] = t]
  /\ UNCHANGED <<fifo, closing, file, items, last, leaving, main, fault>>

\* The new item goes behind last_thread, which del_thread never sets back.
Added(t) ==
  /\ fault' = (pc[t] = "end" \/ (items # <<>> /\ last \notin Listed))
  /\ items' = IF fault' THEN items ELSE Append(items, t)
  /\ last' = t

add_thread(s) ==
  /\ pc[s] = "adding"
  /\ Added(made[s])
  /\ made' = [made EXCEPT ![s] = NULL] /\ Goto(s, After(s))
  /\ UNCHANGED <<name, fifo, closing, file, leaving, main>>

ScreenClose(s) ==
  /\ pc[s] = "parse"
  /\ closing' = [closing EXCEPT ![s] = TRUE]
  /\ Goto(s, After(s))
  /\ UNCHANGED <<name, fifo, made, file, items, last, leaving, main, fault>>

\* The stream ends when no process has the FIFO open for writing, and is closed.
Eof(s) ==
  /\ pc[s] = "parse" /\ (fifo[s] = NULL \/ main.fd # fifo[s])
  /\ Goto(s, "closed")
  /\ UNCHANGED <<name, fifo, made, closing, file, items, last, leaving, main, fault>>

Reopen(s) ==
  /\ pc[s] = "closed"
  /\ IF closing[s] \/ leaving
     THEN fifo' = [fifo EXCEPT ![s] = NULL] /\ Goto(s, "unlink") /\ UNCHANGED closing
     ELSE Fopen(s, FALSE)
  /\ UNCHANGED <<name, made, file, items, last, leaving, main, fault>>

\* Whoever else waits for the FIFO of this name waits for one without a name then.
Unlink(s) ==
  /\ pc[s] = "unlink"
  /\ file' = [file EXCEPT ![name[s]] = IF name[s] \in Kept THEN @ ELSE "absent"]
  /\ Goto(s, "del")
  /\ UNCHANGED <<name, fifo, made, closing, items, last, leaving, main, fault>>

\* The item behind the first is taken for the first: both leave the list.
Without(s) == IF Len(items) > 1 /\ items[2] = s THEN SubSeq(items, 3, Len(items))
              ELSE SelectSeq(items, LAMBDA t : t # s)

del_thread(s) ==
  /\ pc[s] = "del"
  /\ items' = Without(s)
  /\ Goto(s, "end")
  /\ UNCHANGED <<name, fifo, made, closing, file, last, leaving, main, fault>>

threadEntry(s) ==
  \/ Start(s) \/ Open(s) \/ Top(s) \/ add_thread(s) \/ Eof(s) \/ Reopen(s) \/ Unlink(s) \/ del_thread(s)

---------------------------------------------------------------------------
AddFirst ==
  /\ main.pc = "add"
  /\ Added(First)
  /\ main' = [main EXCEPT !.pc = "wait"]
  /\ UNCHANGED <<screen, file, leaving>>

\* The walk's beginning, and (history) what it has found.
Waits(s) == pc[s] = "open" /\ file[name[s]] = fifo[s]
AllWait == \A s \in Screens \ {First} : pc[s] \in {"none", "end"} \/ Waits(s)
WalkFrom(s) == [pc |-> "walk", at |-> s, next |-> NULL, fd |-> NULL, found |-> Listed, waits |-> AllWait]

\* Mutant: the other screens are not told.
FirstEndedQuietly ==
  /\ main.pc = "wait" /\ pc[First] = "end"
  /\ main' = WalkFrom(IF items = <<>> THEN NULL ELSE items[1])
  /\ UNCHANGED <<screen, file, items, last, leaving, fault>>

FirstEnded ==
  /\ main.pc = "wait" /\ pc[First] = "end"
  /\ leaving' = TRUE
  /\ main' = WalkFrom(IF items = <<>> THEN NULL ELSE items[1])
  /\ UNCHANGED <<screen, file, items, last, fault>>

NextOf(s) == LET after == {i \in 2 .. Len(items) : items[i - 1] = s}
             IN  IF after = {} THEN NULL ELSE items[CHOOSE i \in after : TRUE]

\* One screen of the walk: its FIFO is opened for writing, which waits for a reader;
\* where there is none of its name, a file is made.
Walk ==
  /\ main.pc = "walk" /\ main.at # NULL
  /\ IF main.at \notin Listed \/ pc[main.at] = "end"
     THEN fault' = TRUE /\ UNCHANGED <<pc, file, main>>
     ELSE /\ LET f == file[name[main.at]]
             IN  /\ file' = IF f \in Screens THEN file ELSE [file EXCEPT ![name[main.at]] = "file"]
                 /\ pc' = IF f \in Screens THEN Woken(f) ELSE pc
                 /\ main' = [main EXCEPT !.next = NextOf(main.at), !.fd = IF f \in Screens THEN f ELSE NULL,
                                         !.pc = IF f \in Screens /\ Readers(f) = {} THEN "blocked" ELSE "joins"]
          /\ UNCHANGED fault
  /\ UNCHANGED <<name, fifo, made, closing, items, last, leaving>>

Unblock ==
  /\ main.pc = "blocked" /\ Readers(main.fd) # {}
  /\ main' = [main EXCEPT !.pc = "joins"]
  /\ UNCHANGED <<screen, file, items, last, leaving, fault>>

\* The item is looked at again, for the thread to join.  The SC main has printed
\* stays in its buffer until the join returns.
Joins ==
  /\ main.pc = "joins"
  /\ IF main.at \in Listed THEN main' = [main EXCEPT !.pc = "joined"] /\ UNCHANGED fault
     ELSE fault' = TRUE /\ UNCHANGED main
  /\ UNCHANGED <<screen, file, items, last, leaving>>

Joined ==
  /\ main.pc = "joined" /\ pc[main.at] = "end"
  /\ main' = [main EXCEPT !.pc = "walk", !.at = main.next, !.fd = NULL]
  /\ UNCHANGED <<screen, file, items, last, leaving, fault>>

Return ==
  /\ main.pc = "walk" /\ main.at = NULL
  /\ main' = [main EXCEPT !.pc = "end"]
  /\ UNCHANGED <<screen, file, items, last, leaving, fault>>

Main == AddFirst \/ FirstEnded \/ Walk \/ Unblock \/ Joins \/ Joined \/ Return

---------------------------------------------------------------------------
\* A user writes to a FIFO.  (Bound: not any more when main is ending.)
Session(n) ==
  /\ ~leaving /\ file[n] \in Screens
  /\ \E s \in Readers(file[n]) : pc[s] = "open"
  /\ pc' = Woken(file[n])
  /\ UNCHANGED <<name, fifo, made, closing, file, items, last, leaving, main, fault>>

Next ==
  /\ ~fault
  /\ \/ \E s \in Screens : \/ threadEntry(s) \/ ScreenClose(s)
                           \/ \E n \in Names : ScreenNew(s, n)
     \/ Main
     \/ \E n \in Names : Session(n)

\* Threads and main go on, and a user's stream ends.  Nobody has to write one.
threadEntryFair(s) == ~fault /\ threadEntry(s)
MainFair == ~fault /\ Main
Fairness == (\A s \in Screens : WF_vars(threadEntryFair(s))) /\ WF_vars(MainFair)
Spec == Init /\ [][Next]_vars /\ Fairness

---------------------------------------------------------------------------
(* Closing the first screen closes the others the list has, when each waits for  *)
(* commands at that moment, on the FIFO that has its name: the program ends and   *)
(* leaves none of their FIFOs behind that is not under /var/run/, unless freed    *)
(* memory was used on the way.                                                    *)
AllClosed ==
  main.pc = "end" /\ \A s \in main.found : pc[s] = "end" /\ (file[name[s]] \in Screens => name[s] \in Kept)
Closed == main.waits => fault \/ AllClosed
ComposerEnds == <>[]Closed
=============================================================================
