------------------------------ MODULE ScriptTool ------------------------------
(***************************************************************************)
(* g15scriptool (Attic): g15new leaves a small daemon behind that reads    *)
(* command lines from a FIFO named after the script's process; g15print,   *)
(* g15flush and the others write one line each and go.  A figure is its    *)
(* number, the canvas the number of the figure drawn last.                 *)
(***************************************************************************)
EXTENDS Integers, Sequences

CONSTANTS MaxNew,      \* bound: microdaemons a script starts
          MaxCommands  \* bound: commands of a script

Daemons == 1 .. MaxNew
VARIABLES script,   \* the script: its commands so far and (history) what it has drawn and flushed
          fifo,     \* what the name stands for: 0 (nothing), a daemon's FIFO, or a plain file
          lines,    \* lines[d]: unread lines of the FIFO d has open
          garbage,  \* garbage[d]: a key's four bytes stand before the next line
          pc, canvas, screen_fd, leaving,   \* the daemons: screen_fd is 0, -1 or 1 (a socket)
          up,       \* g15daemon runs
          panel,    \* the picture it was sent last
          plain     \* (history) one g15new, no key asked for, no signal, g15daemon always there

tool == <<pc, canvas, screen_fd, leaving>>
vars == <<script, fifo, lines, garbage, tool, up, panel, plain>>

AFile == -1
Writes == {"draw", "clear", "flush", "inkey", "waitkey", "quit"}

Init ==
  /\ script = [pc |-> "run", count |-> 0, made |-> 0, figures |-> 0, drawn |-> 0, picture |-> 0]
  /\ fifo = 0 /\ lines = [d \in Daemons |-> <<>>] /\ garbage = [d \in Daemons |-> FALSE]
  /\ pc = [d \in Daemons |-> "none"]
  /\ canvas = [d \in Daemons |-> 0] /\ screen_fd = [d \in Daemons |-> 0] /\ leaving = [d \in Daemons |-> FALSE]
  /\ up \in BOOLEAN /\ panel = 0 /\ plain = up

---------------------------------------------------------------------------
\* The script's side.
\* g15new: whatever has the name makes room, an older daemon's FIFO too.  The
\* FIFO is open for reading and writing before the parent returns.
NewScreen ==
  /\ script.pc = "run" /\ script.made < MaxNew
  /\ script' = [script EXCEPT !.made = @ + 1]
  /\ fifo' = script.made + 1
  /\ pc' = [pc EXCEPT ![script.made + 1] = "read"]
  /\ plain' = (plain /\ script.made = 0 /\ script.count = 0)
  /\ UNCHANGED <<lines, garbage, canvas, screen_fd, leaving, up, panel>>

\* What a command does to the canvas, in the script's eyes.
Drawn(op) == IF op = "draw" THEN script.figures + 1 ELSE IF op = "clear" THEN 0 ELSE script.drawn

\* Any other command: one line into the FIFO; without one, a plain file is made.
\* Mutant: a FIFO, too, is emptied when it is opened for writing.
PutAlone(op) ==
  IF fifo \in Daemons THEN lines' = [lines EXCEPT ![fifo] = <<[op |-> op, n |-> Drawn(op)]>>] /\ UNCHANGED fifo
  ELSE fifo' = AFile /\ UNCHANGED lines

Put(op) ==
  IF fifo \in Daemons THEN lines' = [lines EXCEPT ![fifo] = Append(@, [op |-> op, n |-> Drawn(op)])] /\ UNCHANGED fifo
  ELSE fifo' = AFile /\ UNCHANGED lines

Command(op) ==
  /\ script.pc = "run" /\ script.count < MaxCommands
  /\ script' = [script EXCEPT !.count = @ + 1, !.drawn = Drawn(op),
                  !.figures = IF op = "draw" THEN @ + 1 ELSE @,
                  !.picture = IF op = "flush" THEN script.drawn ELSE @,
                  !.pc = IF op = "quit" THEN "end" ELSE @]
  /\ Put(op)
  /\ plain' = (plain /\ op \notin {"inkey", "waitkey"} /\ script.made = 1)
  /\ UNCHANGED <<garbage, tool, up, panel>>

---------------------------------------------------------------------------
\* The daemon: a line is read, and its command obeyed; one that begins with a key's
\* bytes is no command.  leaving is looked at only behind a line.
CanvasAfter(d, line) == IF line.op = "draw" THEN line.n ELSE IF line.op = "clear" THEN 0 ELSE canvas[d]

Obeyed(d, line) ==
  /\ canvas' = [canvas EXCEPT ![d] = CanvasAfter(d, line)]
  /\ screen_fd' = [screen_fd EXCEPT ![d] = IF line.op = "flush" /\ @ = 0 THEN (IF up THEN 1 ELSE -1) ELSE @]
  /\ panel' = IF line.op = "flush" /\ screen_fd'[d] = 1 /\ up THEN canvas[d] ELSE panel
  \* SIGPIPE from a g15daemon that has gone sets leaving as the other signals do
  /\ leaving' = [leaving EXCEPT ![d] = @ \/ line.op = "quit" \/ (line.op = "flush" /\ screen_fd'[d] = 1 /\ ~up)]
  /\ pc' = [pc EXCEPT ![d] = IF line.op \in {"inkey", "waitkey"} /\ screen_fd[d] # 0 THEN "key"
                             ELSE IF leaving'[d] THEN "unlink" ELSE "read"]

ReadLine(d) ==
  /\ pc[d] = "read" /\ lines[d] # <<>>
  /\ lines' = [lines EXCEPT ![d] = Tail(@)]
  /\ garbage' = [garbage EXCEPT ![d] = FALSE]
  /\ IF garbage[d] THEN pc' = [pc EXCEPT ![d] = IF leaving[d] THEN "unlink" ELSE "read"]
                        /\ UNCHANGED <<canvas, screen_fd, leaving, panel>>
     ELSE Obeyed(d, Head(lines[d]))
  /\ UNCHANGED <<script, fifo, up, plain>>

\* inkey and waitkey: the answer, a key or what a failed call returns, goes where the
\* commands come from, and is there, or lost, when the next line is read.
KeyComes(d) ==
  /\ pc[d] = "key"
  /\ \E there \in BOOLEAN : garbage' = [garbage EXCEPT ![d] = there]
  /\ pc' = [pc EXCEPT ![d] = IF leaving[d] THEN "unlink" ELSE "read"]
  /\ UNCHANGED <<script, fifo, lines, canvas, screen_fd, leaving, up, panel, plain>>

\* The name is unlinked, whoever's it is by now.
Unlink(d) ==
  /\ pc[d] = "unlink"
  /\ fifo' = 0
  /\ pc' = [pc EXCEPT ![d] = "end"]
  /\ UNCHANGED <<script, lines, garbage, canvas, screen_fd, leaving, up, panel, plain>>

g15scriptool_sighandler(d) ==
  /\ pc[d] \in {"read", "key"} /\ ~leaving[d]
  /\ leaving' = [leaving EXCEPT ![d] = TRUE] /\ plain' = FALSE
  /\ UNCHANGED <<script, fifo, lines, garbage, pc, canvas, screen_fd, up, panel>>

Microdaemon(d) == ReadLine(d) \/ Unlink(d)

G15daemonGoes ==
  /\ up /\ up' = FALSE /\ plain' = FALSE
  /\ UNCHANGED <<script, fifo, lines, garbage, tool, panel>>

Next ==
  \/ NewScreen \/ \E op \in Writes : Command(op)
  \/ \E d \in Daemons : Microdaemon(d) \/ KeyComes(d) \/ g15scriptool_sighandler(d)
  \/ G15daemonGoes

\* The daemon goes on reading; keys, signals and commands need not come.
Fairness == \A d \in Daemons : WF_vars(Microdaemon(d))
Spec == Init /\ [][Next]_vars /\ Fairness

---------------------------------------------------------------------------
(* A script that starts one screen, asks for no key and ends with g15quit gets   *)
(* every command obeyed: the picture of its last flush is sent, its daemon ends  *)
(* and the FIFO goes, however far the daemon was behind.                         *)
Served ==
  /\ pc[1] = "end" /\ fifo = 0
  /\ panel = script.picture

ScriptDone == script.pc = "end" /\ plain => Served
ScriptServed == <>[]ScriptDone
=============================================================================
