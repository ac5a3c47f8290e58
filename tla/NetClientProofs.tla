--------------------------- MODULE NetClientProofs ----------------------------
(***************************************************************************)
(* Proofs about NetClient for every set of clients and of descriptors.     *)
(***************************************************************************)
EXTENDS NetClient, SequenceTheorems, TLAPS

\* Only an accepted connection has a thread, or bytes on their way to the client.
Accepted ==
  \A c \in Clients :
    /\ prog[c] = "idle" => link[c] = "none"
    /\ link[c] \in {"none", "backlog"} => thread[c] = "none" /\ inband[c] = <<>>
    /\ prog[c] \in {"ready", "asking", "failed"} => link[c] \notin {"none", "backlog"}
    /\ prog[c] = "closed" => link[c] # "open"

\* While no request of a client timed out, a question is on its way or its answer is, for
\* the request under way and only while the library waits.
OneQuestion ==
  \A c \in Clients : ~late[c] /\ prog[c] # "closed" =>
    /\ oobOut[c] # None => prog[c] = "asking" /\ oobOut[c] = awaits[c]
    /\ oobIn[c] \in Awaited => prog[c] = "asking" /\ oobIn[c] = awaits[c] /\ oobOut[c] = None

USE NetAssumption
USE DEF library, wire, threads, vars, NoFd, None, Requests, Awaited

-----------------------------------------------------------------------------
(* Types. *)

LEMMA InitTypes == Init => TypeOK
<1> SUFFICES ASSUME Init PROVE TypeOK
  OBVIOUS
<1> USE DEF Init
<1>1. <<>> \in Seq({"helo", "key"})
  OBVIOUS
<1>2. inband \in [Clients -> Seq({"helo", "key"})]
  BY <1>1
<1>3. /\ prog \in [Clients -> Programs]
      /\ link \in [Clients -> Links]
      /\ thread \in [Clients -> Threads]
  BY DEF Programs, Links, Threads
<1>4. /\ awaits \in [Clients -> Requests \union {None}]
      /\ late \in [Clients -> BOOLEAN]
      /\ typed \in [Clients -> {None, "graphic", "text"}]
      /\ oobIn \in [Clients -> Requests \union {None}]
      /\ oobOut \in [Clients -> Requests \union {None}]
  OBVIOUS
<1>5. /\ fd \in [Clients -> Fds \union {NoFd}]
      /\ again \in [Clients -> BOOLEAN]
      /\ table \in [Fds -> Clients \union {Nobody}]
      /\ nodes \subseteq Clients
      /\ remote \in Fds \union {NoFd}
  OBVIOUS
<1>6. QED
  BY <1>2, <1>3, <1>4, <1>5 DEF TypeOK

\* A message appended to what a client has not read, and one taken from it.
LEMMA ReceivesTypes ==
  ASSUME TypeOK, NEW f, NEW message \in {"helo", "key"}, Receives(f, message)
  PROVE  inband' \in [Clients -> Seq({"helo", "key"})]
<1>1. CASE f \in Fds /\ table[f] # Nobody /\ link[table[f]] = "open"
  <2>1. table[f] \in Clients
    BY <1>1 DEF TypeOK
  <2>2. Append(inband[table[f]], message) \in Seq({"helo", "key"})
    BY <2>1, AppendProperties DEF TypeOK
  <2>3. inband' = [inband EXCEPT ![table[f]] = Append(inband[table[f]], message)]
    BY <1>1 DEF Receives
  <2>4. QED
    BY <2>1, <2>2, <2>3 DEF TypeOK
<1>2. CASE ~(f \in Fds /\ table[f] # Nobody /\ link[table[f]] = "open")
  BY <1>2 DEF Receives, TypeOK
<1>3. QED
  BY <1>1, <1>2

LEMMA BouncesTypes == ASSUME TypeOK, NEW f, Bounces(f) PROVE link' \in [Clients -> Links]
BY DEF Bounces, TypeOK, Links

LEMMA ProgramTypes ==
  ASSUME TypeOK, NEW c \in Clients, Library(c) \/ Program(c)
  PROVE  TypeOK'
<1> USE DEF TypeOK, Goes, Asked
<1>1. CASE Connect(c)
  BY <1>1 DEF Connect, Programs, Links
<1>2. CASE Greeted(c)
  <2>1. inband' \in [Clients -> Seq({"helo", "key"})]
    BY <1>2 DEF Greeted
  <2>2. prog' \in [Clients -> Programs]
    <3>1. \E p \in {"ready", "failed"} : prog' = [prog EXCEPT ![c] = p]
      <4>1. CASE Head(inband[c]) = "helo"
        BY <1>2, <4>1 DEF Greeted
      <4>2. CASE Head(inband[c]) # "helo"
        BY <1>2, <4>2 DEF Greeted
      <4>3. QED
        BY <4>1, <4>2
    <3>2. QED
      BY <3>1 DEF Programs
  <2>3. typed' \in [Clients -> {None, "graphic", "text"}]
    <3>1. CASE UNCHANGED typed
      BY <3>1
    <3>2. ASSUME NEW type \in {"graphic", "text"}, typed' = [typed EXCEPT ![c] = type]
          PROVE  typed' \in [Clients -> {None, "graphic", "text"}]
      BY <3>2
    <3>3. QED
      BY <1>2, <3>1, <3>2 DEF Greeted
  <2>4. QED
    BY <1>2, <2>1, <2>2, <2>3 DEF Greeted
<1>3. ASSUME NEW r \in Requests, Ask(c, r) PROVE TypeOK'
  BY <1>3 DEF Ask, Programs
<1>4. CASE Answer(c)
  BY <1>4 DEF Answer, Programs
<1>5. CASE Timeout(c)
  BY <1>5 DEF Timeout, Programs
<1>6. CASE ReadKey(c)
  <2>1. inband' \in [Clients -> Seq({"helo", "key"})]
    BY <1>6 DEF ReadKey
  <2>2. QED
    BY <1>6, <2>1 DEF ReadKey
<1>7. CASE Close(c)
  <2>1. link' \in [Clients -> Links] /\ prog' \in [Clients -> Programs]
    BY <1>7 DEF Close, Links, Programs
  <2>2. inband' \in [Clients -> Seq({"helo", "key"})]
    BY <1>7 DEF Close
  <2>3. QED
    BY <1>7, <2>1, <2>2 DEF Close
<1>8. QED
  BY <1>1, <1>2, <1>3, <1>4, <1>5, <1>6, <1>7 DEF Library, Program

LEMMA PluginTypes ==
  ASSUME TypeOK, NEW c \in Clients, Accept(c) \/ RecvAgain(c) \/ ClientThread(c)
  PROVE  TypeOK'
<1> USE DEF TypeOK, Step
<1>1. CASE Accept(c)
  BY <1>1 DEF Accept, FirstStep, Threads, Owning, Links
<1>2. CASE RecvAgain(c)
  BY <1>2 DEF RecvAgain
<1>3. CASE SendHello(c)
  <2>1. inband' \in [Clients -> Seq({"helo", "key"})] /\ link' \in [Clients -> Links]
    BY <1>3, ReceivesTypes, BouncesTypes DEF SendHello
  <2>2. QED
    BY <1>3, <2>1 DEF SendHello, Threads, Owning
<1>4. CASE HelloFails(c)
  BY <1>4 DEF HelloFails, Threads, Owning
<1>5. CASE RecvType(c)
  BY <1>5 DEF RecvType, Threads, Owning
<1>6. CASE TakeCommand(c)
  <2>1. link' \in [Clients -> Links]
    BY <1>6, BouncesTypes DEF TakeCommand
  <2>2. remote' \in Fds \union {NoFd}
    BY <1>6 DEF TakeCommand
  <2>3. oobIn' \in [Clients -> Requests \union {None}]
    BY <1>6 DEF TakeCommand
  <2>4. oobOut' \in [Clients -> Requests \union {None}]
    <3>1. oobIn[c] \in Requests \union {None} /\ oobOut[c] \in Requests \union {None}
      OBVIOUS
    <3>2. QED
      BY <1>6, <3>1 DEF TakeCommand
  <2>5. QED
    BY <1>6, <2>1, <2>2, <2>3, <2>4 DEF TakeCommand
<1>7. CASE RecvEnds(c)
  BY <1>7 DEF RecvEnds, Threads, Owning
<1>8. CASE Compare(c)
  BY <1>8 DEF Compare, Threads, Owning
<1>9. CASE Reset(c)
  BY <1>9 DEF Reset, NoHandler, Threads, Owning
<1>10. CASE CloseFd(c)
  BY <1>10 DEF CloseFd, AfterClose, Threads, Links
<1>11. CASE Remove(c)
  BY <1>11 DEF Remove, Threads
<1>12. QED
  BY <1>1, <1>2, <1>3, <1>4, <1>5, <1>6, <1>7, <1>8, <1>9, <1>10, <1>11 DEF ClientThread

LEMMA KeyboardTypes == ASSUME TypeOK, Keyboard PROVE TypeOK'
<1>1. CASE KeyToHandler
  <2>1. inband' \in [Clients -> Seq({"helo", "key"})] /\ link' \in [Clients -> Links]
    BY <1>1, ReceivesTypes, BouncesTypes DEF KeyToHandler
  <2>2. QED
    BY <1>1, <2>1 DEF KeyToHandler, TypeOK
<1>2. ASSUME NEW c \in Clients, KeyToScreen(c) PROVE TypeOK'
  <2>1. inband' \in [Clients -> Seq({"helo", "key"})] /\ link' \in [Clients -> Links]
    BY <1>2, ReceivesTypes, BouncesTypes DEF KeyToScreen
  <2>2. QED
    BY <1>2, <2>1 DEF KeyToScreen, TypeOK
<1>3. QED
  BY <1>1, <1>2 DEF Keyboard

LEMMA NextTypes == TypeOK /\ [Next]_vars => TypeOK'
<1> SUFFICES ASSUME TypeOK, [Next]_vars PROVE TypeOK'
  OBVIOUS
<1>1. CASE UNCHANGED vars
  BY <1>1 DEF TypeOK
<1>2. CASE Next
  BY <1>2, ProgramTypes, PluginTypes, KeyboardTypes DEF Next, NetThread
<1>3. QED
  BY <1>1, <1>2

\* Every variable keeps its type, for every set of clients and descriptors.
THEOREM NetTypes == Spec => []TypeOK
BY InitTypes, NextTypes, PTL DEF Spec

-----------------------------------------------------------------------------
(* Connections, threads and descriptors. *)

\* A write changes only ends that are connected.
LEMMA BouncesOnly ==
  ASSUME TypeOK, NEW f, Bounces(f), NEW c \in Clients
  PROVE  link'[c] = link[c] \/ (link[c] = "fin" /\ link'[c] = "rst")
BY DEF Bounces, TypeOK

LEMMA ReceivesOnly ==
  ASSUME TypeOK, NEW f, NEW message, Receives(f, message), NEW c \in Clients
  PROVE  inband'[c] = inband[c] \/ link[c] = "open"
BY DEF Receives, TypeOK

LEMMA ProgramAccepted ==
  ASSUME TypeOK, Accepted, NEW c \in Clients, Library(c) \/ Program(c)
  PROVE  Accepted'
<1> USE DEF TypeOK, Accepted, Goes, Asked
<1>1. CASE Connect(c)
  BY <1>1 DEF Connect
<1>2. CASE Greeted(c)
  <2>1. UNCHANGED <<link, thread>> /\ link[c] \notin {"none", "backlog"}
    BY <1>2 DEF Greeted
  <2>2. inband' = [inband EXCEPT ![c] = Tail(inband[c])]
    BY <1>2 DEF Greeted
  <2>3. \E p \in {"ready", "failed"} : prog' = [prog EXCEPT ![c] = p]
    <3>1. CASE Head(inband[c]) = "helo"
      BY <1>2, <3>1 DEF Greeted
    <3>2. CASE Head(inband[c]) # "helo"
      BY <1>2, <3>2 DEF Greeted
    <3>3. QED
      BY <3>1, <3>2
  <2>4. QED
    BY <2>1, <2>2, <2>3
<1>3. ASSUME NEW r \in Requests, Ask(c, r) PROVE Accepted'
  BY <1>3 DEF Ask
<1>4. CASE Answer(c)
  BY <1>4 DEF Answer
<1>5. CASE Timeout(c)
  BY <1>5 DEF Timeout
<1>6. CASE ReadKey(c)
  <2>1. UNCHANGED <<prog, link, thread>> /\ prog[c] = "ready"
    BY <1>6 DEF ReadKey
  <2>2. inband' = [inband EXCEPT ![c] = Tail(inband[c])]
    BY <1>6 DEF ReadKey
  <2>3. QED
    BY <2>1, <2>2
<1>7. CASE Close(c)
  BY <1>7 DEF Close
<1>8. QED
  BY <1>1, <1>2, <1>3, <1>4, <1>5, <1>6, <1>7 DEF Library, Program

LEMMA PluginAccepted ==
  ASSUME TypeOK, Accepted, NEW c \in Clients, Accept(c) \/ RecvAgain(c) \/ ClientThread(c)
  PROVE  Accepted'
<1> USE DEF TypeOK, Accepted, Step
<1>1. CASE Accept(c)
  BY <1>1 DEF Accept
<1>2. CASE RecvAgain(c)
  BY <1>2 DEF RecvAgain
<1>3. CASE SendHello(c)
  <2>1. \A d \in Clients : link'[d] = link[d] \/ (link[d] = "fin" /\ link'[d] = "rst")
    BY <1>3, BouncesOnly DEF SendHello
  <2>2. \A d \in Clients : inband'[d] = inband[d] \/ link[d] = "open"
    BY <1>3, ReceivesOnly DEF SendHello
  <2>3. QED
    BY <1>3, <2>1, <2>2 DEF SendHello
<1>4. CASE HelloFails(c)
  BY <1>4 DEF HelloFails
<1>5. CASE RecvType(c)
  BY <1>5 DEF RecvType
<1>6. CASE TakeCommand(c)
  <2>1. \A d \in Clients : link'[d] = link[d] \/ (link[d] = "fin" /\ link'[d] = "rst")
    BY <1>6, BouncesOnly DEF TakeCommand
  <2>2. UNCHANGED <<prog, inband, thread>>
    BY <1>6 DEF TakeCommand
  <2>3. QED
    BY <2>1, <2>2
<1>7. CASE RecvEnds(c)
  BY <1>7 DEF RecvEnds, Receiving
<1>8. CASE Compare(c)
  BY <1>8 DEF Compare
<1>9. CASE Reset(c)
  BY <1>9 DEF Reset
<1>10. CASE CloseFd(c)
  BY <1>10 DEF CloseFd
<1>11. CASE Remove(c)
  BY <1>11 DEF Remove
<1>12. QED
  BY <1>1, <1>2, <1>3, <1>4, <1>5, <1>6, <1>7, <1>8, <1>9, <1>10, <1>11 DEF ClientThread

LEMMA KeyboardAccepted == ASSUME TypeOK, Accepted, Keyboard PROVE Accepted'
<1>1. PICK f : Receives(f, "key") /\ Bounces(f)
  BY DEF Keyboard, KeyToHandler, KeyToScreen
<1>2. UNCHANGED <<prog, thread>>
  BY DEF Keyboard, KeyToHandler, KeyToScreen
<1>3. \A d \in Clients : link'[d] = link[d] \/ (link[d] = "fin" /\ link'[d] = "rst")
  BY <1>1, BouncesOnly
<1>4. \A d \in Clients : inband'[d] = inband[d] \/ link[d] = "open"
  BY <1>1, ReceivesOnly
<1>5. QED
  BY <1>2, <1>3, <1>4 DEF Accepted

LEMMA NextAccepted == TypeOK /\ Accepted /\ [Next]_vars => Accepted'
<1> SUFFICES ASSUME TypeOK, Accepted, [Next]_vars PROVE Accepted'
  OBVIOUS
<1>1. CASE UNCHANGED vars
  BY <1>1 DEF Accepted
<1>2. CASE Next
  BY <1>2, ProgramAccepted, PluginAccepted, KeyboardAccepted DEF Next, NetThread
<1>3. QED
  BY <1>1, <1>2

\* What the owner of a descriptor and the key handler depend on.
Holdings == DescriptorsOwned /\ HandlerConnected

\* Only the plugin's threads open, close and hand over descriptors.
LEMMA PluginHoldings ==
  ASSUME TypeOK, Accepted, Holdings, NEW c \in Clients, Accept(c) \/ ClientThread(c)
  PROVE  Holdings'
<1> USE DEF TypeOK, Holdings, DescriptorsOwned, HandlerConnected, Owning, Step
<1>1. CASE Accept(c)
  <2>1. thread[c] = "none" /\ UNCHANGED remote
    BY <1>1 DEF Accept, Accepted
  <2>2. PICK f \in Fds : /\ table[f] = Nobody
                         /\ fd' = [fd EXCEPT ![c] = f]
                         /\ table' = [table EXCEPT ![f] = c]
    BY <1>1 DEF Accept
  <2>3. thread' = [thread EXCEPT ![c] = "hello"]
    BY <1>1 DEF Accept, FirstStep
  <2>4. QED
    BY <2>1, <2>2, <2>3
<1>2. CASE SendHello(c)
  BY <1>2 DEF SendHello
<1>3. CASE HelloFails(c)
  BY <1>3 DEF HelloFails
<1>4. CASE RecvType(c)
  BY <1>4 DEF RecvType
<1>5. CASE TakeCommand(c)
  BY <1>5 DEF TakeCommand, Receiving
<1>6. CASE RecvEnds(c)
  BY <1>6 DEF RecvEnds, Receiving
<1>7. CASE Compare(c)
  BY <1>7 DEF Compare, Handles
<1>8. CASE Reset(c)
  BY <1>8 DEF Reset, NoHandler
<1>9. CASE CloseFd(c)
  <2>1. table' = [table EXCEPT ![fd[c]] = Nobody] /\ UNCHANGED <<fd, remote>>
    BY <1>9 DEF CloseFd
  <2>2. thread[c] = "close" /\ thread' = [thread EXCEPT ![c] = "remove"]
    BY <1>9 DEF CloseFd, AfterClose
  <2>3. \A d \in Clients \ {c} : thread[d] \in Owning => fd[d] # fd[c]
    BY <2>2
  <2>4. QED
    BY <2>1, <2>2, <2>3
<1>10. CASE Remove(c)
  BY <1>10 DEF Remove
<1>11. QED
  BY <1>1, <1>2, <1>3, <1>4, <1>5, <1>6, <1>7, <1>8, <1>9, <1>10 DEF ClientThread

LEMMA NextHoldings == TypeOK /\ Accepted /\ Holdings /\ [Next]_vars => Holdings'
<1> SUFFICES ASSUME TypeOK, Accepted, Holdings, [Next]_vars PROVE Holdings'
  OBVIOUS
<1>1. CASE UNCHANGED <<thread, fd, table, remote>>
  BY <1>1 DEF Holdings, DescriptorsOwned, HandlerConnected
<1>2. ASSUME NEW c \in Clients, Accept(c) \/ ClientThread(c) PROVE Holdings'
  BY <1>2, PluginHoldings
<1>3. ASSUME NEW c \in Clients, Library(c) \/ Program(c) \/ RecvAgain(c)
      PROVE  UNCHANGED <<thread, fd, table, remote>>
  BY <1>3 DEF Library, Program, RecvAgain, Connect, Greeted, Ask, Answer, Timeout, ReadKey, Close
<1>4. CASE Keyboard
  BY <1>1, <1>4 DEF Keyboard, KeyToHandler, KeyToScreen
<1>5. QED
  BY <1>1, <1>2, <1>3, <1>4 DEF Next, NetThread

LEMMA InitHoldings == Init => Accepted /\ Holdings
BY DEF Init, Accepted, Holdings, DescriptorsOwned, HandlerConnected, Owning

\* A thread works on its own connection until it has closed it, in whatever order clients
\* come and go and the numbers of descriptors are given out again.
THEOREM NetDescriptors == Spec => []DescriptorsOwned
<1>1. Holdings => DescriptorsOwned
  BY DEF Holdings
<1>2. QED
  BY <1>1, InitTypes, NextTypes, InitHoldings, NextAccepted, NextHoldings, PTL DEF Spec

\* The number of the key handler is that of a client whose thread has not given it back.
THEOREM NetHandler == Spec => []HandlerConnected
<1>1. Holdings => HandlerConnected
  BY DEF Holdings
<1>2. QED
  BY <1>1, InitTypes, NextTypes, InitHoldings, NextAccepted, NextHoldings, PTL DEF Spec

\* The numbers that threads and the key handler go by are those of their clients, for any
\* number of clients and descriptors.
THEOREM NetInvariant == Spec => []NetSound
<1>1. TypeOK /\ Holdings => NetSound
  BY DEF Holdings, NetSound
<1>2. QED
  BY <1>1, InitTypes, NextTypes, InitHoldings, NextAccepted, NextHoldings, PTL DEF Spec

-----------------------------------------------------------------------------
(* Questions and answers. *)

LEMMA LibraryQuestion ==
  ASSUME TypeOK, OneQuestion, NEW c \in Clients, Library(c) \/ Program(c)
  PROVE  OneQuestion'
<1> USE DEF TypeOK, OneQuestion, Goes, Asked
<1>1. CASE Connect(c)
  BY <1>1 DEF Connect
<1>2. CASE Greeted(c)
  <2>1. UNCHANGED <<awaits, late, oobIn, oobOut>> /\ prog[c] = "greet"
    BY <1>2 DEF Greeted
  <2>2. \A d \in Clients \ {c} : prog'[d] = prog[d]
    BY <1>2 DEF Greeted
  <2>3. QED
    BY <2>1, <2>2
<1>3. ASSUME NEW r \in Requests, Ask(c, r) PROVE OneQuestion'
  BY <1>3 DEF Ask
<1>4. CASE Answer(c)
  BY <1>4 DEF Answer
<1>5. CASE Timeout(c)
  BY <1>5 DEF Timeout
<1>6. CASE ReadKey(c)
  BY <1>6 DEF ReadKey
<1>7. CASE Close(c)
  BY <1>7 DEF Close
<1>8. QED
  BY <1>1, <1>2, <1>3, <1>4, <1>5, <1>6, <1>7 DEF Library, Program

\* The daemon answers a question once, and to nobody else.
LEMMA PluginQuestion ==
  ASSUME TypeOK, OneQuestion, NEW c \in Clients, TakeCommand(c) \/ CloseFd(c)
  PROVE  OneQuestion'
<1> USE DEF TypeOK, OneQuestion
<1>1. CASE TakeCommand(c)
  <2>1. UNCHANGED <<prog, awaits, late>> /\ oobIn' = [oobIn EXCEPT ![c] = None]
    BY <1>1 DEF TakeCommand
  <2>2. \/ oobIn[c] = "handler" /\ UNCHANGED oobOut
        \/ /\ oobIn[c] \in Awaited
           /\ oobOut' = [oobOut EXCEPT ![c] = IF link[c] = "open" THEN oobIn[c] ELSE @]
    BY <1>1 DEF TakeCommand
  <2>3. QED
    BY <2>1, <2>2
<1>2. CASE CloseFd(c)
  BY <1>2 DEF CloseFd
<1>3. QED
  BY <1>1, <1>2

LEMMA NextQuestion == TypeOK /\ OneQuestion /\ [Next]_vars => OneQuestion'
<1> SUFFICES ASSUME TypeOK, OneQuestion, [Next]_vars PROVE OneQuestion'
  OBVIOUS
<1>1. CASE UNCHANGED <<prog, awaits, late, oobIn, oobOut>>
  BY <1>1 DEF OneQuestion
<1>2. ASSUME NEW c \in Clients, ClientThread(c)
      PROVE  UNCHANGED <<prog, awaits, late, oobIn, oobOut>> \/ TakeCommand(c) \/ CloseFd(c)
  BY <1>2 DEF ClientThread, SendHello, HelloFails, RecvType, RecvEnds, Compare, Reset, Remove
<1>3. ASSUME NEW c \in Clients, Accept(c) \/ RecvAgain(c)
      PROVE  UNCHANGED <<prog, awaits, late, oobIn, oobOut>>
  BY <1>3 DEF Accept, RecvAgain
<1>4. CASE Keyboard
  BY <1>1, <1>4 DEF Keyboard, KeyToHandler, KeyToScreen
<1>5. ASSUME NEW c \in Clients, Library(c) \/ Program(c) PROVE OneQuestion'
  BY <1>5, LibraryQuestion
<1>6. QED
  BY <1>1, <1>2, <1>3, <1>4, <1>5, PluginQuestion DEF Next, NetThread

LEMMA InitQuestion == Init => OneQuestion
BY DEF Init, OneQuestion

\* A client that never lost patience gets its own answers, with any number of requests.
THEOREM NetAnswers == Spec => []AnswersMatch
<1>1. OneQuestion => AnswersMatch
  BY DEF OneQuestion, AnswersMatch
<1>2. QED
  BY <1>1, InitTypes, NextTypes, InitQuestion, NextQuestion, PTL DEF Spec

==============================================================================
