------------------------------ MODULE NetClient -------------------------------
(***************************************************************************)
(* The life of a connection, from both ends: the client library opens a    *)
(* screen, asks and closes; the net plugin accepts, greets, serves and     *)
(* cleans up, one thread for each connection; the kernel gives out and     *)
(* takes back descriptors; the keyboard thread writes keys to the          *)
(* connection of the screen in front and to the key handler's.             *)
(*                                                                         *)
(* Each client connects once.  Its frames are DrawLoop's, the list's order *)
(* and the screen in front LcdList's: here a screen is in the list or not, *)
(* and a key may go to any of them, since the keyboard thread writes some  *)
(* time after it read which one is in front.  A key for a screen that was  *)
(* freed is KeyPath's.  There are descriptors enough.                      *)
(***************************************************************************)
EXTENDS Integers, Sequences

CONSTANTS
  Clients,
  Fds,         (* the numbers of descriptors                               *)
  Nobody,      (* the owner of a free descriptor                           *)
  Askers,      (* the clients that ask questions, too                      *)
  Texters,     (* the clients that may ask for a text buffer               *)
  Flaky,       (* the clients whose readable socket may turn out empty     *)
  MaxUnread    (* a bound on the messages a client leaves unread           *)

ASSUME NetAssumption ==
  /\ Fds \subseteq Nat \ {0}
  /\ Nobody \notin Clients

NoFd == 0   \* remote_keyhandler_sock when nobody handles the keys
None == "none"

Requests == {"handler", "foreground", "contrast"}

VARIABLES
  prog,        (* where the client's program is in the library             *)
  awaits,      (* the request whose answer it waits for                    *)
  late,        (* one of its requests has timed out                        *)
  typed,       (* the buffer type on its way to the daemon                 *)
  link,        (* what became of its connection                            *)
  inband,      (* what the daemon sent and the client has not read         *)
  oobIn,       (* the command byte on its way to the daemon                *)
  oobOut,      (* the answer byte on its way back: the request it answers  *)
  thread,      (* where the daemon's thread of the connection is           *)
  fd,          (* client_sock of the thread                                *)
  again,       (* errno of the thread is EAGAIN                            *)
  table,       (* the owner of each descriptor                             *)
  nodes,       (* the clients whose screens are in the list                *)
  remote       (* remote_keyhandler_sock                                   *)

wire == <<link, inband, oobIn, oobOut>>
threads == <<thread, fd, again, table>>
library == <<prog, awaits, late, typed>>
vars == <<library, wire, threads, nodes, remote>>

-----------------------------------------------------------------------------

Programs == {"idle", "greet", "ready", "asking", "failed", "closed"}
Links == {"none", "backlog", "open", "fin", "rst", "down"}
\* The states in which the thread owns its descriptor, and the others.
Owning == {"hello", "type", "serve", "compare", "reset", "close"}
Threads == Owning \union {"none", "remove", "gone"}

TypeOK ==
  /\ prog \in [Clients -> Programs]
  /\ awaits \in [Clients -> Requests \union {None}]
  /\ late \in [Clients -> BOOLEAN]
  /\ typed \in [Clients -> {None, "graphic", "text"}]
  /\ link \in [Clients -> Links]
  /\ inband \in [Clients -> Seq({"helo", "key"})]
  /\ oobIn \in [Clients -> Requests \union {None}]
  /\ oobOut \in [Clients -> Requests \union {None}]
  /\ thread \in [Clients -> Threads]
  /\ fd \in [Clients -> Fds \union {NoFd}]
  /\ again \in [Clients -> BOOLEAN]
  /\ table \in [Fds -> Clients \union {Nobody}]
  /\ nodes \subseteq Clients
  /\ remote \in Fds \union {NoFd}

Init ==
  /\ prog = [c \in Clients |-> "idle"]
  /\ awaits = [c \in Clients |-> None]
  /\ late = [c \in Clients |-> FALSE]
  /\ typed = [c \in Clients |-> None]
  /\ link = [c \in Clients |-> "none"]
  /\ inband = [c \in Clients |-> <<>>]
  /\ oobIn = [c \in Clients |-> None] /\ oobOut = [c \in Clients |-> None]
  /\ thread = [c \in Clients |-> "none"]
  /\ fd = [c \in Clients |-> NoFd]
  /\ again = [c \in Clients |-> FALSE]
  /\ table = [f \in Fds |-> Nobody]
  /\ nodes = {}
  /\ remote = NoFd

-----------------------------------------------------------------------------
(* The client library, and the program that uses it. *)

Goes(c, step) == prog' = [prog EXCEPT ![c] = step]

\* new_g15_screen up to its connect.
Connect(c) ==
  /\ prog[c] = "idle"
  /\ Goes(c, "greet")
  /\ link' = [link EXCEPT ![c] = "backlog"]
  /\ UNCHANGED <<awaits, late, typed, inband, oobIn, oobOut, threads, nodes, remote>>

\* The first bytes must be the greeting; then the buffer type is sent.  After anything
\* else the call fails and leaves the connection open.
Greeted(c) ==
  /\ prog[c] = "greet" /\ inband[c] # <<>>
  /\ inband' = [inband EXCEPT ![c] = Tail(@)]
  /\ \/ /\ Head(inband[c]) = "helo"
        /\ Goes(c, "ready")
        /\ \E type \in IF c \in Texters THEN {"graphic", "text"} ELSE {"graphic"} :
              typed' = [typed EXCEPT ![c] = type]
     \/ /\ Head(inband[c]) # "helo"
        /\ Goes(c, "failed")
        /\ UNCHANGED typed
  /\ UNCHANGED <<awaits, late, link, oobIn, oobOut, threads, nodes, remote>>

\* Mutant: the library does not wait for the answer to a contrast command.
AwaitedForeground == {"foreground"}

\* The requests whose answer the library waits for.
Awaited == {"foreground", "contrast"}

\* g15_send_cmd.  A byte that the daemon has not read yet loses its place.
Ask(c, r) ==
  /\ prog[c] = "ready" /\ link[c] = "open"
  /\ r \in Awaited => c \in Askers
  /\ oobIn' = [oobIn EXCEPT ![c] = r]
  /\ IF r \in Awaited
     THEN Goes(c, "asking") /\ awaits' = [awaits EXCEPT ![c] = r]
     ELSE UNCHANGED <<prog, awaits>>
  /\ UNCHANGED <<late, typed, link, inband, oobOut, threads, nodes, remote>>

\* The call returns.
Asked(c) == Goes(c, "ready") /\ awaits' = [awaits EXCEPT ![c] = None]

\* g15_recv_oob_answer takes whatever byte is there ...
Answer(c) ==
  /\ prog[c] = "asking" /\ oobOut[c] # None
  /\ Asked(c)
  /\ oobOut' = [oobOut EXCEPT ![c] = None]
  /\ UNCHANGED <<late, typed, link, inband, oobIn, threads, nodes, remote>>

\* ... and after 100 ms takes none for an answer of 0.
Timeout(c) ==
  /\ prog[c] = "asking" /\ oobOut[c] = None
  /\ Asked(c)
  /\ late' = [late EXCEPT ![c] = TRUE]
  /\ UNCHANGED <<typed, wire, threads, nodes, remote>>

\* G15DAEMON_GET_KEYSTATE, or the program's own read.
ReadKey(c) ==
  /\ prog[c] = "ready" /\ inband[c] # <<>>
  /\ inband' = [inband EXCEPT ![c] = Tail(@)]
  /\ UNCHANGED <<library, link, oobIn, oobOut, threads, nodes, remote>>

\* The program closes its screen, or ends wherever it is.  What it has not read is lost
\* and makes it a reset; a connection that was not accepted yet waits as it is.
Close(c) ==
  /\ prog[c] \in {"greet", "ready", "asking", "failed"}
  /\ Goes(c, "closed")
  /\ awaits' = [awaits EXCEPT ![c] = None]
  /\ link' = [link EXCEPT ![c] = IF @ # "open" THEN @ ELSE IF inband[c] = <<>> THEN "fin" ELSE "rst"]
  /\ inband' = [inband EXCEPT ![c] = <<>>]
  /\ oobOut' = [oobOut EXCEPT ![c] = None]
  /\ late' = [late EXCEPT ![c] = FALSE]
  /\ UNCHANGED <<typed, oobIn, threads, nodes, remote>>

-----------------------------------------------------------------------------
(* Writing to a descriptor, whoever owns it now.  An end that was closed answers with a
   reset. *)

Receives(f, message) ==
  inband' = IF f \in Fds /\ table[f] # Nobody /\ link[table[f]] = "open"
            THEN [inband EXCEPT ![table[f]] = Append(@, message)] ELSE inband

Bounces(f) ==
  link' = IF f \in Fds /\ table[f] # Nobody /\ link[table[f]] = "fin"
          THEN [link EXCEPT ![table[f]] = "rst"] ELSE link

-----------------------------------------------------------------------------
(* The net plugin's own thread, which listens. *)

FirstStep == "hello"

\* g15_clientconnect: the lowest free descriptor, a new screen and its thread.  The
\* client may have gone while it waited.
Accept(c) ==
  /\ link[c] = "backlog"
  /\ \E f \in Fds :
       /\ table[f] = Nobody
       /\ \A g \in Fds : table[g] = Nobody => f <= g
       /\ fd' = [fd EXCEPT ![c] = f]
       /\ table' = [table EXCEPT ![f] = c]
  /\ link' = [link EXCEPT ![c] = IF prog[c] = "closed" THEN "fin" ELSE "open"]
  /\ nodes' = nodes \union {c}
  /\ thread' = [thread EXCEPT ![c] = FirstStep]
  /\ UNCHANGED <<library, inband, oobIn, oobOut, again, remote>>

-----------------------------------------------------------------------------
(* The thread of a client. *)

Step(c, step) == thread' = [thread EXCEPT ![c] = step]

Receiving(c) == thread[c] \in {"type", "serve"}

\* g15_send of the greeting.
SendHello(c) ==
  /\ thread[c] = "hello" /\ link[c] # "rst"
  /\ Receives(fd[c], "helo") /\ Bounces(fd[c])
  /\ Step(c, "type")
  /\ UNCHANGED <<library, oobIn, oobOut, fd, again, table, nodes, remote>>

HelloFails(c) ==
  /\ thread[c] = "hello" /\ link[c] = "rst"
  /\ Step(c, "compare")
  /\ UNCHANGED <<library, wire, fd, again, table, nodes, remote>>

\* Any type but text is served.
RecvType(c) ==
  /\ thread[c] = "type" /\ typed[c] # None /\ link[c] # "rst"
  /\ Step(c, IF typed[c] = "text" THEN "compare" ELSE "serve")
  /\ typed' = [typed EXCEPT ![c] = None]
  /\ UNCHANGED <<prog, awaits, late, wire, fd, again, table, nodes, remote>>

\* process_client_cmds.  The list's commands are LcdList's.
TakeCommand(c) ==
  /\ Receiving(c) /\ oobIn[c] # None /\ link[c] # "rst"
  /\ oobIn' = [oobIn EXCEPT ![c] = None]
  /\ \/ /\ oobIn[c] = "handler"
        /\ remote' = fd[c]
        /\ UNCHANGED <<oobOut, link>>
     \/ /\ oobIn[c] # "handler"
        /\ oobOut' = [oobOut EXCEPT ![c] = IF link[c] = "open" THEN oobIn[c] ELSE @]
        /\ Bounces(fd[c])
        /\ UNCHANGED remote
  /\ UNCHANGED <<library, inband, threads, nodes>>

\* poll finds data and recv none: errno is set and stays.
RecvAgain(c) ==
  /\ c \in Flaky
  /\ Receiving(c) /\ link[c] = "open" /\ ~again[c]
  /\ again' = [again EXCEPT ![c] = TRUE]
  /\ UNCHANGED <<library, wire, thread, fd, table, nodes, remote>>

\* Mutant: no data is taken for a reason to poll again.
EofIgnored(c) == FALSE

\* The client closed its end, and what it sent before was handled.
Eof(c) == link[c] = "fin" /\ oobIn[c] = None

\* The end of g15_recv.  A reset is believed unless errno is still EAGAIN.
RecvEnds(c) ==
  /\ Receiving(c)
  /\ Eof(c) \/ (link[c] = "rst" /\ ~again[c])
  /\ Step(c, "compare")
  /\ UNCHANGED <<library, wire, fd, again, table, nodes, remote>>

Handles(c) == remote = fd[c]

Compare(c) ==
  /\ thread[c] = "compare"
  /\ Step(c, IF Handles(c) THEN "reset" ELSE "close")
  /\ UNCHANGED <<library, wire, fd, again, table, nodes, remote>>

NoHandler == NoFd

Reset(c) ==
  /\ thread[c] = "reset"
  /\ remote' = NoHandler
  /\ Step(c, "close")
  /\ UNCHANGED <<library, wire, fd, again, table, nodes>>

\* Mutant: the descriptor is closed once more.
AfterCloseAgain == "close"

AfterClose == "remove"

CloseFd(c) ==
  /\ thread[c] = "close"
  /\ table' = [table EXCEPT ![fd[c]] = Nobody]
  /\ link' = [link EXCEPT ![c] = IF @ = "open" THEN "down" ELSE @]
  /\ oobIn' = [oobIn EXCEPT ![c] = None] /\ typed' = [typed EXCEPT ![c] = None]
  /\ Step(c, AfterClose)
  /\ UNCHANGED <<prog, awaits, late, inband, oobOut, fd, again, nodes, remote>>

\* g15daemon_lcdnode_remove.
Remove(c) ==
  /\ thread[c] = "remove"
  /\ nodes' = nodes \ {c}
  /\ fd' = [fd EXCEPT ![c] = NoFd] /\ again' = [again EXCEPT ![c] = FALSE]
  /\ Step(c, "gone")
  /\ UNCHANGED <<library, wire, table, remote>>

-----------------------------------------------------------------------------
(* The keyboard thread. *)

\* Bound: nobody is sent keys while a client leaves too many unread.
MayPress == \A c \in Clients : Len(inband[c]) < MaxUnread

\* server_events: by the connection's number, which the key handler's is compared with.
KeyToScreen(c) ==
  /\ MayPress /\ c \in nodes /\ remote # fd[c]
  /\ Receives(fd[c], "key") /\ Bounces(fd[c])
  /\ UNCHANGED <<library, oobIn, oobOut, threads, nodes, remote>>

KeyToHandler ==
  /\ MayPress /\ remote # NoFd
  /\ Receives(remote, "key") /\ Bounces(remote)
  /\ UNCHANGED <<library, oobIn, oobOut, threads, nodes, remote>>

-----------------------------------------------------------------------------

Library(c) == Greeted(c) \/ Answer(c) \/ Timeout(c)

Program(c) == Connect(c) \/ ReadKey(c) \/ Close(c) \/ \E r \in Requests : Ask(c, r)

NetThread == \E c \in Clients : Accept(c)

ClientThread(c) ==
  \/ SendHello(c) \/ HelloFails(c) \/ RecvType(c) \/ TakeCommand(c) \/ RecvEnds(c)
  \/ Compare(c) \/ Reset(c) \/ CloseFd(c) \/ Remove(c)

Keyboard == KeyToHandler \/ \E c \in Clients : KeyToScreen(c)

Next ==
  \/ \E c \in Clients : Library(c) \/ Program(c) \/ ClientThread(c) \/ RecvAgain(c)
  \/ NetThread \/ Keyboard

\* Calls of the library return when they can, and every thread of the plugin runs.
Fairness ==
  /\ WF_vars(NetThread)
  /\ \A c \in Clients : WF_vars(Greeted(c)) /\ WF_vars(ClientThread(c))

Spec == Init /\ [][Next]_vars /\ Fairness

-----------------------------------------------------------------------------
(* Properties. *)

\* Until it has closed it, a thread's descriptor is its own, whatever numbers the
\* kernel gives out meanwhile: no thread closes or writes another client's connection.
DescriptorsOwned == \A c \in Clients : thread[c] \in Owning => fd[c] \in Fds /\ table[fd[c]] = c

\* logitoolsd.h, lines 51-52: the key handler is a client whose thread will give the
\* keys back; its number never survives the connection and passes to the next client.
HandlerConnected ==
  remote # NoFd =>
    \E c \in Clients : fd[c] = remote /\ thread[c] \in {"type", "serve", "compare", "reset"}

\* As long as none of a client's requests has timed out, the byte that a request finds
\* is its own answer.
AnswersMatch ==
  \A c \in Clients :
    prog[c] = "asking" /\ ~late[c] /\ oobOut[c] # None => oobOut[c] = awaits[c]

\* What the plugin's threads rely on when they use a number: it is their client's.
NetSound == TypeOK /\ DescriptorsOwned /\ HandlerConnected

\* Opening a screen returns: the client is greeted or told that it failed.
OpenReturns == \A c \in Clients : prog[c] = "greet" ~> prog[c] # "greet"

\* The client is gone and the errno of its thread will not hide it.
Gone(c) == link[c] \in {"fin", "rst"} /\ ~again[c]

\* The thread, the descriptor, the role of key handler and the screen of a client that
\* left are given up.
GoneClientCleaned ==
  \A c \in Clients :
    Gone(c) ~> (thread[c] = "gone" /\ c \notin nodes /\ \A f \in Fds : table[f] # c)

\* Clients are served when they come and forgotten when they go (g15_plugin_net.c).
ClientsServed == OpenReturns /\ GoneClientCleaned

==============================================================================
