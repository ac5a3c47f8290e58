------------------------------- MODULE DrawLoop -------------------------------
(***************************************************************************)
(* How an update of a screen reaches the panel: the client and plugin      *)
(* threads that fill LCD buffers, the condition variable and the counter   *)
(* that tell the draw thread (g15daemon_send_refresh and _wait_refresh),   *)
(* the draw thread, the keyboard thread's re-initialisation of a keyboard  *)
(* that was unplugged, and the shutdown that main waits for.               *)
(*                                                                         *)
(* refresh_pending is read and written by all of them without a lock, so   *)
(* its ++ and -- are a load and a store.  The mutex that wait_refresh      *)
(* waits with is its own local one and excludes nobody.                    *)
(*                                                                         *)
(* Screens stay open here; LcdList models how they come and go.  No client *)
(* is the remote key handler.                                              *)
(***************************************************************************)
EXTENDS Integers, FiniteSets

CONSTANTS
  Screens,    (* the open screens, each with a thread that draws into it   *)
  Plugins,    (* the screens of LCD plugins such as the clock, which copy  *)
              (* their buffer without lcdlist_mutex                        *)
  Wbmp,       (* the screens of clients that send WBMP images              *)
  MaxRequests, (* bound: frames and commands for one screen                *)
  MaxPlugs,   (* bound: how often the keyboard is unplugged or plugged in  *)
  NULL

ASSUME ScreensAssumption ==
  /\ Plugins \subseteq Screens /\ Wbmp \subseteq Screens \ Plugins
  /\ Screens # {}
  /\ MaxRequests \in Nat /\ MaxPlugs \in Nat
  /\ NULL \notin Screens
  /\ {"draw", "kbd"} \intersect (Screens \union {NULL}) = {}

VARIABLES
  current,        (* masterlist->current                                   *)
  frame,          (* the number of the frame in each screen's buffer       *)
  torn,           (* the screens whose buffer does not hold one whole frame *)
  cut,            (* the screens whose client's images no longer begin where one is read *)
  stateChanged,   (* the screens with lcd->state_changed = 1               *)
  panel,          (* what the LCD shows: screen, frame, whether it was torn *)
  led,            (* the screen whose mkey_state the M-key LEDs show       *)
  pending,        (* refresh_pending                                       *)
  lcdlist,        (* the owner of lcdlist_mutex, or NULL                   *)
  g15lib,         (* the owner of g15lib_mutex while it is held over several steps, or NULL *)
  draw,           (* the draw thread: program counter and loaded counter   *)
  thread,         (* each screen's thread: program counter and loaded counter *)
  kbd,            (* the keyboard thread: program counter and loaded counter *)
  plugged,        (* the keyboard is there                                 *)
  leaving,        (* the daemon was told to exit                           *)
  requests,       (* how many frames and commands each screen had          *)
  plugs           (* how often the keyboard was unplugged or plugged in    *)

buffers == <<frame, torn, cut>>
device == <<panel, led, plugged>>
locks == <<lcdlist, g15lib>>
events == <<requests, plugs>>
vars == <<current, buffers, stateChanged, device, pending, locks,
          draw, thread, kbd, leaving, events>>

-----------------------------------------------------------------------------

DrawPC == {"check", "enter", "wait", "dec", "decstore", "lock", "draw", "lights", "clear", "exit"}
ThreadPC == {"idle", "want", "copy", "bcast", "inc", "incstore"}
KbdPC == {"poll", "relock", "retry", "bcast", "inc", "incstore", "exit"}

TypeOK ==
  /\ current \in Screens
  /\ frame \in [Screens -> Nat]
  /\ torn \subseteq Screens /\ cut \subseteq Wbmp
  /\ stateChanged \subseteq Screens
  /\ panel \in [scr : Screens \union {NULL}, frm : Nat, torn : BOOLEAN]
  /\ led \in Screens \union {NULL}
  /\ pending \in Int
  /\ lcdlist \in Screens \union {"draw", NULL}
  /\ g15lib \in {"kbd", NULL}
  /\ draw \in [pc : DrawPC, tmp : Int]
  /\ thread \in [Screens -> [pc : ThreadPC, tmp : Int]]
  /\ kbd \in [pc : KbdPC, tmp : Int]
  /\ plugged \in BOOLEAN
  /\ leaving \in BOOLEAN
  /\ requests \in [Screens -> 0..MaxRequests]
  /\ plugs \in 0..MaxPlugs

Init ==
  /\ current \in Screens
  /\ frame = [s \in Screens |-> 0]
  /\ torn = {} /\ cut = {}
  /\ stateChanged = Screens
  /\ panel = [scr |-> NULL, frm |-> 0, torn |-> FALSE]
  /\ led = NULL
  /\ pending = 0
  /\ lcdlist = NULL
  /\ g15lib = NULL
  /\ draw = [pc |-> "check", tmp |-> 0]
  /\ thread = [s \in Screens |-> [pc |-> "idle", tmp |-> 0]]
  /\ kbd = [pc |-> "poll", tmp |-> 0]
  /\ plugged = TRUE
  /\ leaving = FALSE
  /\ requests = [s \in Screens |-> 0]
  /\ plugs = 0

Request(s) ==
  /\ requests[s] < MaxRequests
  /\ requests' = [requests EXCEPT ![s] = @ + 1]
  /\ UNCHANGED plugs

-----------------------------------------------------------------------------
(* The threads of the screens. *)

At(s, pc) == thread[s].pc = pc
Goto(s, pc) == thread' = [thread EXCEPT ![s].pc = pc]

\* The thread has a whole frame from its socket, or the plugin drew one.  Of a WBMP
\* image the part that came before the client's end or an error is enough.
FrameArrives(s) ==
  /\ At(s, "idle") /\ Request(s)
  /\ cut' \in {cut} \union {cut \union {w} : w \in Wbmp \intersect {s}}
  /\ Goto(s, "want")
  /\ UNCHANGED <<current, frame, torn, stateChanged, device, pending, locks, draw, kbd, leaving>>

\* Mutant: the frame is copied without lcdlist_mutex.
MayCopyUnlocked(s) == UNCHANGED lcdlist

\* A client's thread takes lcdlist_mutex for the copy, a plugin's does not.
MayCopy(s) ==
  IF s \in Plugins THEN UNCHANGED lcdlist ELSE lcdlist = NULL /\ lcdlist' = s

CopyBegins(s) ==
  /\ At(s, "want")
  /\ MayCopy(s)
  /\ torn' = torn \union {s}
  /\ Goto(s, "copy")
  /\ UNCHANGED <<current, frame, cut, stateChanged, device, pending, g15lib, draw, kbd, leaving, events>>

\* Mutant: the client's thread returns without unlocking.
ReleaseForgotten(s) == UNCHANGED lcdlist

Release(s) == lcdlist' = IF lcdlist = s THEN NULL ELSE lcdlist

\* The copy is complete, of a part of an image with what the buffer that was read into
\* held before; send_refresh does something only for the shown screen or for
\* one with state_changed.
CopyEnds(s) ==
  /\ At(s, "copy")
  /\ torn' = torn \ ({s} \ cut)
  /\ frame' = [frame EXCEPT ![s] = @ + 1]
  /\ IF s = current \/ s \in stateChanged
     THEN Goto(s, "bcast") /\ UNCHANGED lcdlist
     ELSE Goto(s, "idle") /\ Release(s)
  /\ UNCHANGED <<current, cut, stateChanged, device, pending, g15lib, draw, kbd, leaving, events>>

GiveBack(s) == Screens \ {s}

\* A priority request: to the front, or away from it to another screen.  The refresh
\* follows after the unlock.
ReqPriority(s) ==
  /\ At(s, "idle") /\ lcdlist = NULL /\ Request(s)
  /\ current' \in IF current # s THEN {s} ELSE GiveBack(s)
  /\ Goto(s, "bcast")
  /\ UNCHANGED <<buffers, stateChanged, device, pending, locks, draw, kbd, leaving>>

\* An MKEY_LIGHTS, backlight or contrast command: no lock, and no refresh.
SetLights(s) ==
  /\ At(s, "idle") /\ Request(s)
  /\ stateChanged' = stateChanged \union {s}
  /\ UNCHANGED <<current, buffers, device, pending, locks, draw, thread, kbd, leaving>>

\* pthread_cond_broadcast wakes the draw thread only when it is waiting already.
Wake == draw' = IF draw.pc = "wait" THEN [draw EXCEPT !.pc = "dec"] ELSE draw

Broadcast(s) ==
  /\ At(s, "bcast")
  /\ Wake
  /\ Goto(s, "inc")
  /\ UNCHANGED <<current, buffers, stateChanged, device, pending, locks, kbd, leaving, events>>

PendingLoad(s) ==
  /\ At(s, "inc")
  /\ thread' = [thread EXCEPT ![s] = [pc |-> "incstore", tmp |-> pending]]
  /\ UNCHANGED <<current, buffers, stateChanged, device, pending, locks, draw, kbd, leaving, events>>

PendingStore(s) ==
  /\ At(s, "incstore")
  /\ pending' = thread[s].tmp + 1
  /\ thread' = [thread EXCEPT ![s] = [pc |-> "idle", tmp |-> 0]]
  /\ Release(s)
  /\ UNCHANGED <<current, buffers, stateChanged, device, g15lib, draw, kbd, leaving, events>>

-----------------------------------------------------------------------------
(* The draw thread. *)

DrawAt(pc) == draw.pc = pc
DrawGoto(pc) == draw' = [draw EXCEPT !.pc = pc]

\* g15daemon_wait_refresh looks at the counter once.
CheckPending ==
  /\ DrawAt("check")
  /\ DrawGoto(IF pending < 1 THEN "enter" ELSE "dec")
  /\ UNCHANGED <<current, buffers, stateChanged, device, pending, locks, thread, kbd, leaving, events>>

\* Only from pthread_cond_timedwait on is a broadcast received.
EnterWait ==
  /\ DrawAt("enter")
  /\ DrawGoto("wait")
  /\ UNCHANGED <<current, buffers, stateChanged, device, pending, locks, thread, kbd, leaving, events>>

\* Mutant: after a timeout the wait is entered again even when leaving.
WaitTimeoutStubborn == "enter"

AfterTimeout == IF leaving THEN "dec" ELSE "enter"

\* After a second without a broadcast the wait starts again; the counter is not
\* looked at.
WaitTimeout ==
  /\ DrawAt("wait")
  /\ DrawGoto(AfterTimeout)
  /\ UNCHANGED <<current, buffers, stateChanged, device, pending, locks, thread, kbd, leaving, events>>

DecLoad ==
  /\ DrawAt("dec")
  /\ draw' = [pc |-> "decstore", tmp |-> pending]
  /\ UNCHANGED <<current, buffers, stateChanged, device, pending, locks, thread, kbd, leaving, events>>

DecStore ==
  /\ DrawAt("decstore")
  /\ pending' = draw.tmp - 1
  /\ draw' = [pc |-> "lock", tmp |-> 0]
  /\ UNCHANGED <<current, buffers, stateChanged, device, locks, thread, kbd, leaving, events>>

DrawLock ==
  /\ DrawAt("lock") /\ lcdlist = NULL
  /\ lcdlist' = "draw"
  /\ DrawGoto("draw")
  /\ UNCHANGED <<current, buffers, stateChanged, device, pending, g15lib, thread, kbd, leaving, events>>

\* uf_write_buf_to_g15 of the current screen, under g15lib_mutex as well.
DrawPanel ==
  /\ DrawAt("draw") /\ g15lib = NULL
  /\ panel' = IF plugged
              THEN [scr |-> current, frm |-> frame[current], torn |-> current \in torn]
              ELSE panel
  /\ DrawGoto("lights")
  /\ UNCHANGED <<current, buffers, stateChanged, led, plugged, pending, locks, thread, kbd, leaving, events>>

\* Mutant: the draw thread goes on without unlocking.
DrawUnlockForgotten ==
  /\ UNCHANGED lcdlist
  /\ DrawGoto(IF leaving THEN "exit" ELSE "check")

\* The loop of the thread ends once leaving is set.
DrawUnlock ==
  /\ lcdlist' = NULL
  /\ DrawGoto(IF leaving THEN "exit" ELSE "check")

\* A pass over a screen without state_changed leaves contrast and LEDs as they are.
DrawNoLights ==
  /\ DrawAt("lights") /\ current \notin stateChanged
  /\ DrawUnlock
  /\ UNCHANGED <<current, buffers, stateChanged, device, pending, g15lib, thread, kbd, leaving, events>>

DrawLights ==
  /\ DrawAt("lights") /\ current \in stateChanged /\ g15lib = NULL
  /\ led' = IF plugged THEN current ELSE led
  /\ DrawGoto("clear")
  /\ UNCHANGED <<current, buffers, stateChanged, panel, plugged, pending, locks, thread, kbd, leaving, events>>

\* state_changed is reset whatever was requested since the LEDs were set.
DrawClear ==
  /\ DrawAt("clear")
  /\ stateChanged' = stateChanged \ {current}
  /\ DrawUnlock
  /\ UNCHANGED <<current, buffers, device, pending, g15lib, thread, kbd, leaving, events>>

-----------------------------------------------------------------------------
(* The keyboard thread.  The keys it reads are modelled elsewhere. *)

KbdAt(pc) == kbd.pc = pc
KbdGoto(pc) == kbd' = [kbd EXCEPT !.pc = pc]
PollOrExit == IF leaving THEN "exit" ELSE "poll"

\* One read of the keyboard under g15lib_mutex; -ENODEV says that it is gone.
KbdPoll ==
  /\ KbdAt("poll") /\ g15lib = NULL
  /\ KbdGoto(IF plugged THEN PollOrExit ELSE "relock")
  /\ UNCHANGED <<current, buffers, stateChanged, device, pending, locks, draw, thread, leaving, events>>

\* g15lib_mutex is taken for as long as the keyboard stays away.
KbdRelock ==
  /\ KbdAt("relock") /\ g15lib = NULL
  /\ g15lib' = "kbd"
  /\ KbdGoto("retry")
  /\ UNCHANGED <<current, buffers, stateChanged, device, pending, lcdlist, draw, thread, leaving, events>>

\* Mutant: g15lib_mutex is kept when the wait is given up.
KbdGiveUpLocked == UNCHANGED g15lib

GiveUp == g15lib' = NULL

\* re_initLibG15 succeeds once the keyboard is back; leaving ends the wait.
KbdRetry ==
  /\ KbdAt("retry") /\ (plugged \/ leaving)
  /\ IF leaving
     THEN GiveUp /\ KbdGoto("exit") /\ UNCHANGED stateChanged
     ELSE /\ stateChanged' = stateChanged \union {current}
          /\ KbdGoto("bcast")
          /\ UNCHANGED g15lib
  /\ UNCHANGED <<current, buffers, device, pending, lcdlist, draw, thread, leaving, events>>

KbdBroadcast ==
  /\ KbdAt("bcast")
  /\ Wake
  /\ KbdGoto("inc")
  /\ UNCHANGED <<current, buffers, stateChanged, device, pending, locks, thread, leaving, events>>

KbdLoad ==
  /\ KbdAt("inc")
  /\ kbd' = [pc |-> "incstore", tmp |-> pending]
  /\ UNCHANGED <<current, buffers, stateChanged, device, pending, locks, draw, thread, leaving, events>>

KbdStore ==
  /\ KbdAt("incstore")
  /\ pending' = kbd.tmp + 1
  /\ g15lib' = NULL
  /\ kbd' = [pc |-> PollOrExit, tmp |-> 0]
  /\ UNCHANGED <<current, buffers, stateChanged, device, lcdlist, draw, thread, leaving, events>>

-----------------------------------------------------------------------------
(* The environment. *)

Plug ==
  /\ plugs < MaxPlugs
  /\ plugs' = plugs + 1
  /\ plugged' = ~plugged
  /\ UNCHANGED <<current, buffers, stateChanged, panel, led, pending, locks, draw, thread, kbd, leaving, requests>>

\* SIGINT, SIGTERM, SIGQUIT or SIGUSR1.
Signal ==
  /\ ~leaving
  /\ leaving' = TRUE
  /\ UNCHANGED <<current, buffers, stateChanged, device, pending, locks, draw, thread, kbd, events>>

-----------------------------------------------------------------------------

ThreadRuns(s) ==
  CopyBegins(s) \/ CopyEnds(s) \/ Broadcast(s) \/ PendingLoad(s) \/ PendingStore(s)

ClientRequest(s) ==
  FrameArrives(s) \/ ReqPriority(s) \/ SetLights(s)

DrawThread ==
  \/ CheckPending \/ EnterWait \/ WaitTimeout \/ DecLoad \/ DecStore
  \/ DrawLock \/ DrawPanel \/ DrawNoLights \/ DrawLights \/ DrawClear

KeyboardThread == KbdPoll \/ KbdRelock \/ KbdRetry \/ KbdBroadcast \/ KbdLoad \/ KbdStore

Next ==
  \/ \E s \in Screens : ThreadRuns(s) \/ ClientRequest(s)
  \/ DrawThread
  \/ KeyboardThread
  \/ Plug
  \/ Signal

\* A thread that can go on goes on.  Weak fairness is enough for the mutexes too: the
\* requests are bounded, so in the end each mutex stays free until its last waiter has
\* it.  Requests, unplugging and signals need never happen.
Fairness ==
  /\ \A s \in Screens : WF_vars(ThreadRuns(s))
  /\ WF_vars(DrawThread)
  /\ WF_vars(KeyboardThread)

Spec == Init /\ [][Next]_vars /\ Fairness

-----------------------------------------------------------------------------
(* Properties. *)

\* Who is inside its critical section holds the mutex, and who holds it will come to
\* its unlock: no path leaves with a lock or works without one, plugins excepted.
LocksHeld ==
  /\ \A s \in Screens \ Plugins : At(s, "copy") => lcdlist = s
  /\ \A s \in Screens : lcdlist = s => thread[s].pc \in {"copy", "bcast", "inc", "incstore"}
  /\ lcdlist = "draw" <=> draw.pc \in {"draw", "lights", "clear"}
  /\ g15lib = "kbd" <=> kbd.pc \in {"retry", "bcast", "inc", "incstore"}

\* A frame that a client sent is on the panel whole or not at all: the copy into the
\* buffer and the transfer to the keyboard exclude each other.  Only a WBMP image that
\* its client did not send to the end is shown all the same.
NetFrameWhole == panel.torn => panel.scr \in Plugins \union cut

\* What the threads rely on when they meet at the panel: each lock is its holder's, and
\* with it the frame it sends or copies.
DrawSound == TypeOK /\ LocksHeld /\ NetFrameWhole

\* Once the draw thread is past its wait, the panel comes to show what the buffer of the
\* current screen then holds, unless the keyboard is gone: no holder of either mutex
\* stops it for good.
AwakeDrawsNewest ==
  draw.pc \in {"dec", "decstore", "lock", "draw"} ~>
    ((panel.scr = current /\ panel.frm = frame[current]) \/ ~plugged)

\* A client that has a frame to deliver is not held up for ever, as long as the
\* keyboard stays: the two mutexes are always released.
ClientNotBlocked ==
  \A s \in Screens \ Plugins : <>[]plugged => (At(s, "want") ~> ~At(s, "want"))

\* Once told to leave, both threads that main joins end, with or without keyboard.
ShutdownCompletes == leaving ~> (draw.pc = "exit" /\ kbd.pc = "exit")

\* Line 235 of main.c: the draw thread is to "wait until a client has updated".  A frame
\* of the shown screen ends the wait and reaches the panel.
UpdateShown ==
  \A s \in Screens : \A k \in 1..MaxRequests :
    (current = s /\ frame[s] = k /\ thread[s].pc = "bcast") ~>
      ((panel.scr = s /\ panel.frm >= k) \/ current # s \/ ~plugged \/ leaving)

==============================================================================
