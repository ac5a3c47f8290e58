----------------------------- MODULE UsbLibProofs ------------------------------
(***************************************************************************)
(* Proofs about UsbLib for every set of keyboards and every bound.         *)
(***************************************************************************)
EXTENDS UsbLib, TLAPS

\* The places of each thread, and what the bounds and the end of the daemon rest on.
Placed ==
  /\ at["keyboard"] \in {"out", "read", "again", "clear", "gone", "retry", "open", "exit"}
  /\ at["draw"] \in {"out", "write", "chunks", "clear", "control", "exit"}
  /\ at["client"] \in {"out", "control"}
  /\ at["main"] \in {"out", "write", "chunks", "clear", "control", "closing", "exit"}
  /\ ~present => session < MaxPlugs
  /\ at["keyboard"] = "exit" => leaving
  /\ at["main"] # "out" => leaving

\* The handle is NULL only while the keyboard thread looks for a keyboard, or at the end.
HandleOpen ==
  handle = NoDevice => leaving \/ at["keyboard"] \in {"retry", "open"}

IInv == TypeOK /\ Placed /\ MutexesPaired /\ HandleOpen /\ NullOnlyUnlocked

USE UsbAssumption
USE DEF NoDevice, Nobody, Threads, Sessions, Places

-----------------------------------------------------------------------------
(* Types. *)

LEMMA InitInvariant == Init => IInv
<1> SUFFICES ASSUME Init PROVE IInv
  OBVIOUS
<1> USE DEF Init
<1>1. TypeOK
  <2>1. 1 \in Sessions /\ model \in [Sessions -> Models]
    OBVIOUS
  <2>2. model[1] \in Models
    BY <2>1
  <2>3. at \in [Threads -> Places]
    OBVIOUS
  <2>5. shared \in BOOLEAN
    <3>1. CASE model[1] \in Shared
      BY <3>1
    <3>2. CASE model[1] \notin Shared
      BY <3>2
    <3>3. QED
      BY <3>1, <3>2
  <2>6. /\ session \in Sessions /\ handle \in Sessions
        /\ failures \in 0..MaxFailures /\ sent \in 0..Chunks /\ draws \in 0..MaxDraws
    OBVIOUS
  <2>7. QED
    BY <2>1, <2>2, <2>3, <2>5, <2>6 DEF TypeOK
<1>2. Placed /\ MutexesPaired /\ HandleOpen /\ NullOnlyUnlocked
  BY DEF Placed, MutexesPaired, HandleOpen, NullOnlyUnlocked
<1>3. QED
  BY <1>1, <1>2 DEF IInv

LEMMA CallTypes ==
  ASSUME IInv, NEW t \in Threads, Call(t)
  PROVE  TypeOK'
<1> USE DEF IInv, TypeOK, Placed, MutexesPaired, Goes, Unlocks, Uses, Slows, Returns,
            AfterCall, bus, opened
<1>1. CASE Write(t)
  BY <1>1 DEF Write
<1>2. CASE WriteNothing(t)
  BY <1>2 DEF WriteNothing
<1>3. CASE WriteSlowly(t)
  BY <1>3 DEF WriteSlowly
<1>4. CASE Chunk(t)
  BY <1>4 DEF Chunk, LastChunk, AfterChunks
<1>5. CASE Clear(t)
  BY <1>5 DEF Clear
<1>6. CASE Control(t)
  BY <1>6 DEF Control
<1>7. QED
  BY <1>1, <1>2, <1>3, <1>4, <1>5, <1>6 DEF Call

LEMMA KeyboardTypes == ASSUME IInv, Keyboard PROVE TypeOK'
<1> USE DEF IInv, TypeOK, Goes, Unlocks, Uses, Slows, Returns, AfterCall, TriesAgain, bus, opened
<1>1. CASE BeginRead
  BY <1>1 DEF BeginRead
<1>2. CASE Read
  BY <1>2 DEF Read
<1>3. CASE Gone
  BY <1>3 DEF Gone
<1>4. CASE NothingNew
  BY <1>4 DEF NothingNew
<1>5. CASE Search
  <2>1. session \in Sessions /\ model[session] \in Models
    OBVIOUS
  <2>2. CASE present
    <3>1. handle' \in Sessions \union {NoDevice} /\ found' \in Models
      BY <1>5, <2>1, <2>2 DEF Search
    <3>2. at' = [at EXCEPT !["keyboard"] = "open"] /\ g15lib' = g15lib /\ changes' = FALSE
      BY <1>5, <2>2, Zenon DEF Search
    <3>3. QED
      BY <1>5, <2>2, <3>1, <3>2 DEF Search
  <2>3. CASE ~present
    BY <1>5, <2>3 DEF Search
  <2>4. QED
    BY <2>2, <2>3
<1>6. CASE Opened
  BY <1>6 DEF Opened
<1>7. CASE OpenFails
  <2>1. shared' \in BOOLEAN
    BY <1>7, Zenon DEF OpenFails
  <2>2. failures' \in 0..MaxFailures
    BY <1>7 DEF OpenFails
  <2>3. /\ at' \in [Threads -> Places]
        /\ g15lib' \in {"keyboard", "draw", Nobody}
    BY <1>7 DEF OpenFails
  <2>4. QED
    BY <1>7, <2>1, <2>2, <2>3 DEF OpenFails
<1>8. QED
  BY <1>1, <1>2, <1>3, <1>4, <1>5, <1>6, <1>7 DEF Keyboard

LEMMA OtherTypes ==
  ASSUME IInv, User \/ BeginDraw \/ BeginCommand \/ BeginBlank \/ Close \/ \E t \in Threads : Exit(t)
  PROVE  TypeOK'
<1> USE DEF IInv, TypeOK, Placed, Goes, bus, opened, calls
<1>1. CASE User
  <2>1. CASE Unplug
    BY <2>1 DEF Unplug
  <2>2. CASE Plug
    BY <2>2 DEF Plug
  <2>3. CASE Signal
    BY <2>3 DEF Signal
  <2>4. QED
    BY <1>1, <2>1, <2>2, <2>3 DEF User
<1>2. CASE BeginDraw
  BY <1>2 DEF BeginDraw
<1>3. CASE BeginCommand
  BY <1>3 DEF BeginCommand
<1>4. CASE BeginBlank
  BY <1>4 DEF BeginBlank
<1>5. CASE Close
  BY <1>5 DEF Close
<1>6. ASSUME NEW t \in Threads, Exit(t) PROVE TypeOK'
  BY <1>6 DEF Exit
<1>7. QED
  BY <1>1, <1>2, <1>3, <1>4, <1>5, <1>6

-----------------------------------------------------------------------------
(* The other parts of the invariant. *)

LEMMA CallKeeps ==
  ASSUME IInv, NEW t \in Threads, Call(t)
  PROVE  /\ Placed' /\ MutexesPaired' /\ HandleOpen' /\ NullOnlyUnlocked'
<1> USE DEF IInv, TypeOK, Placed, MutexesPaired, HandleOpen, NullOnlyUnlocked, Goes, Unlocks, Uses,
            Slows, Returns, AfterCall, bus, opened
<1>1. CASE Write(t)
  BY <1>1 DEF Write
<1>2. CASE WriteNothing(t)
  BY <1>2 DEF WriteNothing
<1>3. CASE WriteSlowly(t)
  BY <1>3 DEF WriteSlowly
<1>4. CASE Chunk(t)
  BY <1>4 DEF Chunk, LastChunk, AfterChunks
<1>5. CASE Clear(t)
  BY <1>5 DEF Clear
<1>6. CASE Control(t)
  BY <1>6 DEF Control
<1>7. QED
  BY <1>1, <1>2, <1>3, <1>4, <1>5, <1>6 DEF Call

LEMMA KeyboardKeeps ==
  ASSUME IInv, Keyboard
  PROVE  /\ Placed' /\ MutexesPaired' /\ HandleOpen' /\ NullOnlyUnlocked'
<1> USE DEF IInv, TypeOK, Placed, MutexesPaired, HandleOpen, NullOnlyUnlocked, Goes, Unlocks, Uses,
            Slows, Returns, AfterCall, TriesAgain, bus, opened
<1>1. CASE BeginRead
  BY <1>1 DEF BeginRead
<1>2. CASE Read
  BY <1>2 DEF Read
<1>3. CASE Gone
  BY <1>3 DEF Gone
<1>4. CASE NothingNew
  BY <1>4 DEF NothingNew
<1>5. CASE Search
  BY <1>5 DEF Search
<1>6. CASE Opened
  BY <1>6 DEF Opened
<1>7. CASE OpenFails
  BY <1>7 DEF OpenFails
<1>8. QED
  BY <1>1, <1>2, <1>3, <1>4, <1>5, <1>6, <1>7 DEF Keyboard

LEMMA OtherKeeps ==
  ASSUME IInv, User \/ BeginDraw \/ BeginCommand \/ BeginBlank \/ Close \/ \E t \in Threads : Exit(t)
  PROVE  /\ Placed' /\ MutexesPaired' /\ HandleOpen' /\ NullOnlyUnlocked'
<1> USE DEF IInv, TypeOK, Placed, MutexesPaired, HandleOpen, NullOnlyUnlocked, Goes, bus, opened,
            calls
<1>1. CASE User
  <2>1. CASE Unplug
    BY <2>1 DEF Unplug
  <2>2. CASE Plug
    BY <2>2 DEF Plug
  <2>3. CASE Signal
    BY <2>3 DEF Signal
  <2>4. QED
    BY <1>1, <2>1, <2>2, <2>3 DEF User
<1>2. CASE BeginDraw
  BY <1>2 DEF BeginDraw
<1>3. CASE BeginCommand
  BY <1>3 DEF BeginCommand
<1>4. CASE BeginBlank
  BY <1>4 DEF BeginBlank
<1>5. CASE Close
  BY <1>5 DEF Close
<1>6. ASSUME NEW t \in Threads, Exit(t) PROVE Placed' /\ MutexesPaired' /\ HandleOpen' /\ NullOnlyUnlocked'
  BY <1>6 DEF Exit
<1>7. QED
  BY <1>1, <1>2, <1>3, <1>4, <1>5, <1>6

LEMMA StutterKeeps == IInv /\ UNCHANGED vars => IInv'
BY DEF IInv, TypeOK, Placed, MutexesPaired, HandleOpen, NullOnlyUnlocked, vars, bus, opened, calls

LEMMA Inductive == IInv /\ [Next]_vars => IInv'
<1> SUFFICES ASSUME IInv, [Next]_vars PROVE IInv'
  OBVIOUS
<1>1. CASE UNCHANGED vars
  BY <1>1, StutterKeeps
<1>2. ASSUME NEW t \in Threads, Call(t) PROVE IInv'
  BY <1>2, CallTypes, CallKeeps DEF IInv
<1>3. CASE Keyboard
  BY <1>3, KeyboardTypes, KeyboardKeeps DEF IInv
<1>4. CASE User \/ BeginDraw \/ BeginCommand \/ BeginBlank \/ Close \/ \E t \in Threads : Exit(t)
  BY <1>4, OtherTypes, OtherKeeps DEF IInv
<1>5. QED
  BY <1>1, <1>2, <1>3, <1>4 DEF Next

LEMMA AlwaysInvariant == Spec => []IInv
BY InitInvariant, Inductive, PTL DEF Spec

-----------------------------------------------------------------------------
(* Theorems. *)

\* Whatever is plugged in and out and fails, every variable has its type: no slow write
\* sends more than its chunks.
THEOREM UsbTypes == Spec => []TypeOK
<1>1. IInv => TypeOK
  BY DEF IInv
<1>2. QED
  BY <1>1, AlwaysInvariant, PTL

\* g15lib_mutex and libusb_mutex are held by the thread whose call needs them: among the
\* ways out of a call only the failed chunk of a slow write leaves libusb_mutex locked.
THEOREM UsbMutexes == Spec => []MutexesPaired
<1>1. IInv => MutexesPaired
  BY DEF IInv
<1>2. QED
  BY <1>1, AlwaysInvariant, PTL

\* Until the daemon leaves, no thread that locks g15lib_mutex uses the NULL handle of a
\* keyboard that is away.
THEOREM UsbNull == Spec => []NullOnlyUnlocked
<1>1. IInv => NullOnlyUnlocked
  BY DEF IInv
<1>2. QED
  BY <1>1, AlwaysInvariant, PTL

\* Mutexes are paired and the NULL handle stays out of their reach, for any keyboards.
THEOREM UsbInvariant == Spec => []UsbSound
<1>1. IInv => UsbSound
  BY DEF IInv, UsbSound
<1>2. QED
  BY <1>1, AlwaysInvariant, PTL

=============================================================================
