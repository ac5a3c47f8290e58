-------------------------------- MODULE UsbLib ---------------------------------
(***************************************************************************)
(* The USB library and the threads that call it: the keyboard thread reads *)
(* keys and opens the keyboard again after it was unplugged, the draw      *)
(* thread writes the screen and sets lights, both under g15lib_mutex;      *)
(* client threads set lights without it; the main thread blanks the screen *)
(* when the other two have ended.                                          *)
(*                                                                         *)
(* A transfer takes libusb_mutex, uses the handle and gives the mutex      *)
(* back, which is one step, but for the slow write, which keeps the mutex  *)
(* over its chunks.  What is transferred is left out, and so are detaching *)
(* drivers and claiming interfaces.  Every plugging of a keyboard is a     *)
(* session; a handle is the session that it was opened in.                 *)
(***************************************************************************)
EXTENDS Naturals

CONSTANTS
  Models,      (* the kinds of keyboard                                    *)
  First,       (* the one at index 0 of g15_devices                        *)
  Shared,      (* those with G15_DEVICE_IS_SHARED                          *)
  G510s,       (* those with G15_DEVICE_G510                               *)
  G13s,        (* those with G15_DEVICE_G13                                *)
  Keypads,     (* those without a panel                                    *)
  Chunks,      (* the chunks of a slow write: 32 in the code               *)
  MaxPlugs,    (* a bound on the sessions                                  *)
  MaxFailures, (* a bound on failures to open a keyboard that is there     *)
  MaxDraws     (* a bound on the calls of the draw thread                  *)

ASSUME UsbAssumption ==
  /\ Models # {} /\ Keypads \subseteq Models
  /\ Chunks \in Nat \ {0} /\ MaxPlugs \in Nat \ {0}
  /\ MaxFailures \in Nat /\ MaxDraws \in Nat

NoDevice == 0     \* keyboard_device is NULL
Nobody == "nobody"
Threads == {"keyboard", "draw", "client", "main"}

VARIABLES
  session,     (* the last plugging ...                                    *)
  present,     (* ... and whether it lasts                                 *)
  model,       (* the kind of keyboard of each session                     *)
  changes,     (* usb_find_devices has something to report                 *)
  failures,    (* how often a keyboard that was there could not be opened  *)
  handle,      (* keyboard_device                                          *)
  found,       (* found_devicetype                                         *)
  shared,      (* shared_device                                            *)
  slow,        (* enospc_slowdown                                          *)
  g15lib,      (* who holds g15lib_mutex                                   *)
  libusb,      (* who holds libusb_mutex                                   *)
  at,          (* where each thread is                                     *)
  sent,        (* the chunks of the last slow write that were sent         *)
  draws,       (* the calls that the draw thread has made                  *)
  leaving,
  fault        (* the thread that used the handle NULL                     *)

bus == <<session, present, model, changes, failures>>
opened == <<handle, found, shared>>
calls == <<g15lib, libusb, at, sent, draws>>
vars == <<bus, opened, slow, calls, leaving, fault>>

-----------------------------------------------------------------------------

Sessions == 1..MaxPlugs

Places == {"out", "read", "again", "write", "chunks", "clear", "control", "closing",
           "gone", "retry", "open", "exit"}

TypeOK ==
  /\ session \in Sessions /\ present \in BOOLEAN /\ model \in [Sessions -> Models]
  /\ changes \in BOOLEAN /\ failures \in 0..MaxFailures
  /\ handle \in Sessions \union {NoDevice}
  /\ found \in Models /\ shared \in BOOLEAN
  /\ slow \in BOOLEAN
  /\ g15lib \in {"keyboard", "draw", Nobody} /\ libusb \in Threads \union {Nobody}
  /\ at \in [Threads -> Places] /\ sent \in 0..Chunks /\ draws \in 0..MaxDraws
  /\ leaving \in BOOLEAN /\ fault \in Threads \union {Nobody}

\* After initLibG15.
Init ==
  /\ session = 1 /\ present = TRUE /\ changes = FALSE /\ failures = 0
  /\ model \in [Sessions -> Models]
  /\ handle = 1 /\ found = model[1] /\ shared = (model[1] \in Shared)
  /\ slow = FALSE
  /\ g15lib = Nobody /\ libusb = Nobody
  /\ at = [t \in Threads |-> "out"] /\ sent = 0 /\ draws = 0
  /\ leaving = FALSE /\ fault = Nobody

\* The use of NULL ends the daemon.
Running == fault = Nobody

-----------------------------------------------------------------------------
(* The user. *)

Unplug ==
  /\ Running /\ present /\ session < MaxPlugs
  /\ present' = FALSE /\ changes' = TRUE
  /\ UNCHANGED <<session, model, failures, opened, slow, calls, leaving, fault>>

\* The keyboard, or another one.
Plug ==
  /\ Running /\ ~present
  /\ session' = session + 1 /\ present' = TRUE /\ changes' = TRUE
  /\ UNCHANGED <<model, failures, opened, slow, calls, leaving, fault>>

Signal ==
  /\ Running /\ ~leaving /\ leaving' = TRUE
  /\ UNCHANGED <<bus, opened, slow, calls, fault>>

-----------------------------------------------------------------------------
(* Calls and transfers. *)

Goes(t, place) == at' = [at EXCEPT ![t] = place]

Unlocks(t) == g15lib' = IF g15lib = t THEN Nobody ELSE g15lib

\* The main thread sets the lights after the screen, and closes after the lights.
AfterCall(t) ==
  IF t # "main" THEN "out" ELSE IF at[t] = "control" THEN "closing" ELSE "control"

\* The call of thread t returns.
Returns(t) == Goes(t, AfterCall(t)) /\ Unlocks(t)

\* libusb reads through its handle.
Uses(t) == fault' = IF handle = NoDevice THEN t ELSE fault

\* What a transfer comes to.
Results ==
  IF present /\ handle = session THEN {"done", "EPIPE", "ENOSPC", "other"} ELSE {"ENODEV"}

\* handle_usb_errors, but for EPIPE, which goes on with the call in Clear.
Slows(result) == slow' = (slow \/ result = "ENOSPC")

\* usb_clear_halt, under libusb_mutex.
Clear(t) ==
  /\ Running /\ at[t] = "clear" /\ libusb = Nobody
  /\ Uses(t)
  /\ Returns(t)
  /\ UNCHANGED <<bus, opened, slow, libusb, sent, draws, leaving>>

\* setLCDContrast, setLEDs, setLCDBrightness, setKBBrightness: they are for a device that
\* is not shared, but for the colour that setLEDs gives to a G510.
Control(t) ==
  /\ Running /\ at[t] = "control"
  /\ \/ shared /\ UNCHANGED fault
     \/ /\ ~shared \/ (found \in G510s /\ t # "main")
        /\ libusb = Nobody
        /\ Uses(t)
  /\ Returns(t)
  /\ UNCHANGED <<bus, opened, slow, libusb, sent, draws, leaving>>

\* writePixmapToLCD in one transfer.  A keyboard without a panel needs none.
Write(t) ==
  /\ Running /\ at[t] = "write" /\ ~slow /\ found \notin Keypads /\ libusb = Nobody
  /\ Uses(t)
  /\ \E result \in Results :
       /\ Slows(result)
       /\ IF result = "EPIPE" THEN Goes(t, "clear") /\ UNCHANGED g15lib ELSE Returns(t)
  /\ UNCHANGED <<bus, opened, libusb, sent, draws, leaving>>

WriteNothing(t) ==
  /\ Running /\ at[t] = "write" /\ found \in Keypads
  /\ Returns(t)
  /\ UNCHANGED <<bus, opened, slow, libusb, sent, draws, leaving, fault>>

\* In chunks.
WriteSlowly(t) ==
  /\ Running /\ at[t] = "write" /\ slow /\ found \notin Keypads /\ libusb = Nobody
  /\ libusb' = t /\ sent' = 0
  /\ Goes(t, "chunks")
  /\ UNCHANGED <<bus, opened, slow, g15lib, draws, leaving, fault>>

\* Mutant: the return after the last chunk misses the unlock, too.
AfterChunksKept(t) == t

\* Who has libusb_mutex when every chunk was sent.
AfterChunks(t) == Nobody

LastChunk == sent + 1 = Chunks

\* A chunk.  One that fails ends the call, and leaves the mutex as it is; after EPIPE it
\* is wanted once more.
Chunk(t) ==
  /\ Running /\ at[t] = "chunks"
  /\ Uses(t)
  /\ \/ /\ "done" \in Results
        /\ sent' = sent + 1
        /\ IF LastChunk
           THEN libusb' = AfterChunks(t) /\ Returns(t)
           ELSE UNCHANGED <<g15lib, libusb, at>>
        /\ UNCHANGED slow
     \/ \E result \in Results \ {"done"} :
          /\ Slows(result)
          /\ IF result = "EPIPE" THEN Goes(t, "clear") /\ UNCHANGED g15lib ELSE Returns(t)
          /\ UNCHANGED <<libusb, sent>>
  /\ UNCHANGED <<bus, opened, draws, leaving>>

-----------------------------------------------------------------------------
(* The keyboard thread. *)

\* uf_read_keypresses.  After G15_ERROR_TRY_AGAIN it is called again at once.
BeginRead ==
  /\ Running
  /\ at["keyboard"] = "again" \/ (at["keyboard"] = "out" /\ ~leaving)
  /\ g15lib = Nobody /\ g15lib' = "keyboard"
  /\ Goes("keyboard", "read")
  /\ UNCHANGED <<bus, opened, slow, libusb, sent, draws, leaving, fault>>

\* What getPressedKeys makes of a transfer: keys, or half of the packets that there are.
\* For a G13 it looks at the buffer also when nothing was read into it, and may find what
\* looks like keys there.
Readings ==
  Results \union (IF "done" \in Results THEN {"again"} ELSE {})
          \union (IF found \in G13s THEN {"done"} ELSE {})

\* Mutant: the wrong error is taken for the keyboard's absence.
AwayEpipe == "EPIPE"

Away == "ENODEV"

\* getPressedKeys, and what the thread does with its result.
Read ==
  /\ Running /\ at["keyboard"] = "read" /\ libusb = Nobody
  /\ Uses("keyboard")
  /\ \E result \in Readings :
       /\ Slows(result)
       /\ \/ result = "EPIPE" /\ Goes("keyboard", "clear") /\ UNCHANGED g15lib
          \/ result = Away /\ Goes("keyboard", "gone") /\ Unlocks("keyboard")
          \/ result = "again" /\ Goes("keyboard", "again") /\ Unlocks("keyboard")
          \/ result \notin {"EPIPE", Away, "again"} /\ Returns("keyboard")
  /\ UNCHANGED <<bus, opened, libusb, sent, draws, leaving>>

Gone ==
  /\ Running /\ at["keyboard"] = "gone"
  /\ g15lib = Nobody /\ g15lib' = "keyboard"
  /\ Goes("keyboard", "retry")
  /\ UNCHANGED <<bus, opened, slow, libusb, sent, draws, leaving, fault>>

\* Mutant: the thread gives up.
TriesAgainNever == Goes("keyboard", "exit") /\ Unlocks("keyboard")

\* The keyboard could not be opened: g15lib_mutex is kept over the sleep.
TriesAgain ==
  IF leaving THEN Returns("keyboard") ELSE Goes("keyboard", "retry") /\ UNCHANGED g15lib

\* re_initLibG15, when nothing was plugged in or out since the last time.
NothingNew ==
  /\ Running /\ at["keyboard"] = "retry" /\ ~changes /\ leaving
  /\ TriesAgain
  /\ UNCHANGED <<bus, opened, slow, libusb, sent, draws, leaving, fault>>

\* Otherwise keyboard_device goes through the devices of the list, to the one that is
\* there.
Search ==
  /\ Running /\ at["keyboard"] = "retry" /\ changes
  /\ changes' = FALSE
  /\ \/ /\ present
        /\ found' = model[session]
        /\ handle' = IF model[session] = First THEN handle ELSE NoDevice
        /\ Goes("keyboard", "open") /\ UNCHANGED g15lib
     \/ /\ ~present
        /\ handle' = NoDevice
        /\ TriesAgain
        /\ UNCHANGED found
  /\ UNCHANGED <<session, present, model, failures, shared, slow, libusb, sent, draws, leaving,
                 fault>>

\* findAndOpenDevice succeeds.
Opened ==
  /\ Running /\ at["keyboard"] = "open" /\ present /\ ~changes
  /\ handle' = session
  /\ shared' = (shared \/ found \in Shared)
  /\ Returns("keyboard")
  /\ UNCHANGED <<bus, found, slow, libusb, sent, draws, leaving, fault>>

\* Or it fails, before or after it looks whether the device is shared.
OpenFails ==
  /\ Running /\ at["keyboard"] = "open"
  /\ IF present /\ ~changes
     THEN failures < MaxFailures /\ failures' = failures + 1 ELSE UNCHANGED failures
  /\ handle' = NoDevice
  /\ shared' \in {shared, shared \/ found \in Shared}
  /\ TriesAgain
  /\ UNCHANGED <<session, present, model, changes, found, slow, libusb, sent, draws, leaving,
                 fault>>

-----------------------------------------------------------------------------
(* The other threads. *)

\* uf_write_buf_to_g15, or the lights of the draw thread.
BeginDraw ==
  /\ Running /\ at["draw"] = "out" /\ draws < MaxDraws /\ draws' = draws + 1
  /\ g15lib = Nobody /\ g15lib' = "draw"
  /\ \E place \in {"write", "control"} : Goes("draw", place)
  /\ UNCHANGED <<bus, opened, slow, libusb, sent, leaving, fault>>

\* process_client_cmds: setLEDs or setKBBrightness, without g15lib_mutex.
BeginCommand ==
  /\ Running /\ at["client"] = "out"
  /\ Goes("client", "control")
  /\ UNCHANGED <<bus, opened, slow, g15lib, libusb, sent, draws, leaving, fault>>

Exit(t) ==
  /\ Running /\ t \in {"keyboard", "draw"} /\ at[t] = "out" /\ leaving
  /\ Goes(t, "exit")
  /\ UNCHANGED <<bus, opened, slow, g15lib, libusb, sent, draws, leaving, fault>>

\* The main thread has joined the two.
BeginBlank ==
  /\ Running /\ at["main"] = "out" /\ at["keyboard"] = "exit" /\ at["draw"] = "exit"
  /\ Goes("main", "write")
  /\ UNCHANGED <<bus, opened, slow, g15lib, libusb, sent, draws, leaving, fault>>

\* exitLibG15.
Close ==
  /\ Running /\ at["main"] = "closing"
  /\ handle' = NoDevice
  /\ Goes("main", "exit")
  /\ UNCHANGED <<bus, found, shared, slow, g15lib, libusb, sent, draws, leaving, fault>>

-----------------------------------------------------------------------------

Call(t) == Write(t) \/ WriteNothing(t) \/ WriteSlowly(t) \/ Chunk(t) \/ Clear(t) \/ Control(t)

Keyboard == BeginRead \/ Read \/ Gone \/ NothingNew \/ Search \/ Opened \/ OpenFails

User == Unplug \/ Plug \/ Signal

Next ==
  \/ User \/ Keyboard \/ BeginDraw \/ BeginCommand \/ BeginBlank \/ Close
  \/ \E t \in Threads : Call(t) \/ Exit(t)

\* The keyboard thread polls for ever, and every call goes on when it can.
Fairness ==
  /\ WF_vars(Keyboard \/ Clear("keyboard"))
  /\ \A t \in Threads : WF_vars(Call(t))

Spec == Init /\ [][Next]_vars /\ Fairness

-----------------------------------------------------------------------------
(* Properties. *)

\* A slow write failed, and nobody will give libusb_mutex back.
Leaked == \E t \in Threads : libusb = t /\ at[t] # "chunks" /\ sent < Chunks

\* Each mutex is held by the thread that its calls need it held by, and a slow write that
\* sent all its chunks gave libusb_mutex back: only a failed chunk leaves it locked.
MutexesPaired ==
  /\ \A t \in Threads : at[t] = "chunks" => libusb = t
  /\ libusb # Nobody => slow /\ sent < Chunks
  /\ g15lib = "draw" <=> at["draw"] \in {"write", "chunks", "clear", "control"}
  /\ g15lib = "keyboard" <=> at["keyboard"] \in {"read", "clear", "retry", "open"}

\* While the daemon runs, what g15lib_mutex protects includes the handle: no thread that
\* takes it meets the NULL that keyboard_device is while the keyboard is away.
NullOnlyUnlocked == fault \in {"keyboard", "draw", "main"} => leaving

\* What a call relies on when it begins: its mutexes are free or another call's, and
\* with g15lib_mutex the handle is one.
UsbSound == TypeOK /\ MutexesPaired /\ NullOnlyUnlocked

\* Every call of the library returns, unless a slow write failed.
CallsReturn ==
  \A t \in Threads :
    at[t] \in {"read", "write", "chunks", "clear", "control"} ~>
      (at[t] \in {"out", "again", "gone", "closing", "exit"} \/ Leaked \/ fault # Nobody)

\* A handle whose keyboard is gone.
Stale == handle # NoDevice /\ ~(present /\ handle = session)

\* The keyboard thread notices that the keyboard is gone, and begins to look for it.
UnplugNoticed ==
  Stale ~> (~Stale \/ at["keyboard"] \in {"retry", "open", "exit"} \/ leaving \/ found \in G13s
            \/ Leaked \/ fault # Nobody)

\* A keyboard that is plugged in, the same one or another, is opened, unless an attempt
\* to open it failed: after that only another change on the bus makes the library look.
Reopened ==
  (present /\ handle # session) ~>
    (handle = session \/ ~present \/ leaving \/ failures > 0 \/ found \in G13s
     \/ Leaked \/ fault # Nobody)

==============================================================================
