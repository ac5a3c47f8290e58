------------------------------- MODULE KeyPath --------------------------------
(***************************************************************************)
(* The way of a key from the keyboard to its receivers: the keyboard       *)
(* thread, the KEYPRESS case of g15daemon_send_event with its cycle key,   *)
(* the uinput plugin, the client on the panel and the remote key handler,  *)
(* while clients come, go, move to the front and take over the keys.       *)
(*                                                                         *)
(* The threads of the clients share current and remote_keyhandler_sock     *)
(* with the keyboard thread and no lock orders them here, so they act      *)
(* between any two steps of one event.  Time is told apart only as "half   *)
(* a second has passed since".  What the list of screens does with a       *)
(* request is LcdList's; here it leaves some open screen current.  An      *)
(* event whose screen is closed while it is under way uses freed memory:   *)
(* fault is set and nothing is said of what follows.                       *)
(*                                                                         *)
(* The uinput plugin is loaded; the screens of other plugins are left out. *)
(***************************************************************************)
EXTENDS Naturals

CONSTANTS
  Keys,       (* the bits of a key value                                   *)
  CycleKey,   (* cycle_key: L1, or MR                                      *)
  Mapped,     (* the keys g15_process_keys passes on                       *)
  Clients,
  TailScreen  (* the daemon's own screen, whose info is NULL               *)

ASSUME KeysAssumption ==
  /\ CycleKey \in Keys
  /\ Mapped \subseteq Keys
  /\ TailScreen \notin Clients

Screens == Clients \union {TailScreen}
NoHandler == TailScreen   \* remote_keyhandler_sock = 0

VARIABLES
  held,        (* the keys that are down                                   *)
  seen,        (* lastkeys of the keyboard thread                          *)
  lastkeys,    (* lastkeys of g15daemon_send_event                         *)
  event,       (* the event under way: step, value, the screen it is for,  *)
               (* and whether that screen has been freed since             *)
  clickOld,    (* half a second has passed since clicktime                 *)
  holdOld,     (* half a second has passed since the cycle key went down   *)
  open,        (* the clients that are connected                           *)
  current,     (* masterlist->current                                      *)
  remote,      (* the client whose socket is remote_keyhandler_sock        *)
  told,        (* the last key value sent to each client                   *)
  uinputLast,  (* lastkeys of the uinput plugin                            *)
  osDown,      (* the keys that are down for the operating system          *)
  behind,      (* who took the keys over between the press and the release *)
               (* of a replay, and was sent nothing since                  *)
  fault        (* freed memory or a NULL pointer was used                  *)

user == <<held>>
clock == <<clickOld, holdOld>>
clients == <<open, current, remote>>
sent == <<told, behind>>
os == <<uinputLast, osDown>>
vars == <<user, seen, lastkeys, event, clock, clients, sent, os, fault>>

-----------------------------------------------------------------------------

Steps == {"read", "dispatch", "os", "remote", "release"}

TypeOK ==
  /\ held \subseteq Keys
  /\ seen \subseteq Keys
  /\ lastkeys \subseteq Keys
  /\ event \in [step : Steps, value : SUBSET Keys, screen : Screens, freed : BOOLEAN]
  /\ clickOld \in BOOLEAN
  /\ holdOld \in BOOLEAN
  /\ open \subseteq Clients
  /\ current \in open \union {TailScreen}
  /\ remote \in open \union {NoHandler}
  /\ told \in [Clients -> SUBSET Keys]
  /\ behind \subseteq Clients
  /\ uinputLast \subseteq Keys
  /\ osDown \subseteq Mapped
  /\ fault \in BOOLEAN

NoEvent == [step |-> "read", value |-> {}, screen |-> TailScreen, freed |-> FALSE]

Init ==
  /\ held = {} /\ seen = {} /\ lastkeys = {}
  /\ event = NoEvent
  /\ clickOld = TRUE /\ holdOld = TRUE
  /\ open = {} /\ current = TailScreen /\ remote = NoHandler
  /\ told = [c \in Clients |-> {}] /\ behind = {}
  /\ uinputLast = {} /\ osDown = {}
  /\ fault = FALSE

Running == ~fault

-----------------------------------------------------------------------------
(* The user and time. *)

Press(k) ==
  /\ k \notin held
  /\ held' = held \union {k}
  /\ UNCHANGED <<seen, lastkeys, event, clock, clients, sent, os, fault>>

Unpress(k) ==
  /\ k \in held
  /\ held' = held \ {k}
  /\ UNCHANGED <<seen, lastkeys, event, clock, clients, sent, os, fault>>

HalfSecond ==
  /\ clickOld' = TRUE /\ holdOld' = TRUE
  /\ UNCHANGED <<user, seen, lastkeys, event, clients, sent, os, fault>>

-----------------------------------------------------------------------------
(* The clients' threads. *)

\* A new screen is current at once.
Connect(c) ==
  /\ Running /\ c \notin open
  /\ open' = open \union {c}
  /\ current' = c
  /\ UNCHANGED <<user, seen, lastkeys, event, clock, remote, sent, os, fault>>

\* What may be current once some of the screens are gone, or after a request.
Shown(left) == IF left = {} THEN {TailScreen} ELSE left \union {TailScreen}

HandlerAfter(c) == IF remote = c THEN NoHandler ELSE remote

\* The end of the client's thread: it gives up the keys and closes its screen.
Disconnect(c) ==
  /\ Running /\ c \in open
  /\ open' = open \ {c}
  /\ remote' = HandlerAfter(c)
  /\ current' \in IF current = c THEN Shown(open \ {c}) ELSE {current}
  /\ told' = [told EXCEPT ![c] = {}] /\ behind' = behind \ {c}
  /\ event' = [event EXCEPT !.freed = event.freed \/ event.screen = c]
  /\ UNCHANGED <<user, seen, lastkeys, clock, os, fault>>

\* CLIENT_CMD_KEY_HANDLER, whoever has the keys now.
TakeKeys(c) ==
  /\ Running /\ c \in open
  /\ remote' = c
  /\ behind' = IF event.step = "release" /\ event.screen = c /\ CycleKey \in told[c]
               THEN behind \union {c} ELSE behind
  /\ UNCHANGED <<user, seen, lastkeys, event, clock, open, current, told, os, fault>>

\* A priority request of some client.
Reorder ==
  /\ Running
  /\ current' \in Shown(open)
  /\ UNCHANGED <<user, seen, lastkeys, event, clock, open, remote, sent, os, fault>>

-----------------------------------------------------------------------------
(* The keyboard thread. *)

\* The state of the keys differs from the one handled last.
ReadKeys ==
  /\ Running /\ event.step = "read" /\ held # seen
  /\ event' = [step |-> "dispatch", value |-> held, screen |-> current, freed |-> FALSE]
  /\ UNCHANGED <<user, seen, lastkeys, clock, clients, sent, os, fault>>

\* The keyboard thread is done with the event.
Handled == event' = NoEvent /\ seen' = event.value

\* The next step of an event whose screen is still there.
At(step) == Running /\ event.step = step /\ ~event.freed

\* Every step of an event goes through the lcd that the event is for.
UseFreed ==
  /\ Running /\ event.step # "read" /\ event.freed
  /\ fault' = TRUE
  /\ UNCHANGED <<user, seen, lastkeys, event, clock, clients, sent, os>>

\* The two ways of the KEYPRESS case.
Dispatched == At("dispatch")

Plain(v) == CycleKey \notin v /\ CycleKey \notin lastkeys

\* The daemon's own screen has no handler: nobody gets the key, not even uinput.
DropOnTail ==
  /\ Dispatched /\ Plain(event.value) /\ event.screen = TailScreen
  /\ Handled
  /\ UNCHANGED <<user, lastkeys, clock, clients, sent, os, fault>>

\* Client c is sent a value, with which it has caught up.
Send(c, v) == told' = [told EXCEPT ![c] = v] /\ behind' = behind \ {c}

\* server_events: the screen's client gets the value, unless it is the key handler.
SendTo(c, v) == IF c # remote THEN Send(c, v) ELSE UNCHANGED sent

\* server_events of the client that was in front when the keys were read.
TellScreen ==
  /\ Dispatched /\ Plain(event.value) /\ event.screen # TailScreen
  /\ SendTo(event.screen, event.value)
  /\ event' = [event EXCEPT !.step = "os"]
  /\ UNCHANGED <<user, seen, lastkeys, clock, clients, os, fault>>

\* Mutant: the plugin does not keep the released keys' state.
RememberedForever(v) == uinputLast \union v

Remembered(v) == v

\* g15_process_keys: a key goes down or up when its bit differs from the last value.
Ups(v) == {k \in Mapped : k \notin v /\ k \in uinputLast}

Downs(v) == {k \in Mapped : k \in v /\ k \notin uinputLast}

\* The uinput plugin gets the keys unless a client handles them.
TellOs ==
  /\ At("os")
  /\ IF remote = NoHandler
     THEN /\ osDown' = (osDown \union Downs(event.value)) \ Ups(event.value)
          /\ uinputLast' = Remembered(event.value)
     ELSE UNCHANGED os
  /\ event' = [event EXCEPT !.step = "remote"]
  /\ UNCHANGED <<user, seen, lastkeys, clock, clients, sent, fault>>

\* Mutant: the remote handler is told only while it is in front.
RemoteGetsInFront == remote # NoHandler /\ remote = current

RemoteGets == remote # NoHandler

\* The remote handler gets the value, which is then the last one.  The backlight's levels
\* and the screen dump that some keys ask for are left out.
TellRemote ==
  /\ At("remote")
  /\ IF RemoteGets THEN Send(remote, event.value) ELSE UNCHANGED sent
  /\ lastkeys' = event.value
  /\ Handled
  /\ UNCHANGED <<user, clock, clients, os, fault>>

\* Mutant: only a press that follows a release of all keys starts the time.
ClickAfterOld == IF lastkeys = {} THEN FALSE ELSE clickOld

ClickAfter == FALSE

\* Every value with the cycle key starts the time of the click, not only its press.
CycleDown ==
  /\ Dispatched /\ CycleKey \in event.value
  /\ clickOld' = ClickAfter
  /\ holdOld' = (CycleKey \in lastkeys /\ holdOld)
  /\ lastkeys' = event.value
  /\ Handled
  /\ UNCHANGED <<user, clients, sent, os, fault>>

CycleUp == Dispatched /\ CycleKey \notin event.value /\ CycleKey \in lastkeys

\* A click: the screens cycle.
Click ==
  /\ CycleUp /\ ~clickOld
  /\ current' \in IF open = {} THEN {TailScreen} ELSE open
  /\ lastkeys' = event.value
  /\ Handled
  /\ UNCHANGED <<user, clock, open, remote, sent, os, fault>>

\* A long press: the screen in front is sent the press of the cycle key first, and the
\* key handler is looked at for it alone.
ReplayPress ==
  /\ CycleUp /\ clickOld /\ event.screen # TailScreen
  /\ SendTo(event.screen, event.value \union {CycleKey})
  /\ event' = [event EXCEPT !.step = "release"]
  /\ UNCHANGED <<user, seen, lastkeys, clock, clients, os, fault>>

\* The screen is not asked whether it has a handler, and the daemon's own has none.
ReplayOnTail ==
  /\ CycleUp /\ clickOld /\ event.screen = TailScreen
  /\ fault' = TRUE
  /\ UNCHANGED <<user, seen, lastkeys, event, clock, clients, sent, os>>

\* Mutant: the release is the value of the press again.
PressAgain(v) == v \union {CycleKey}

Released(v) == v \ {CycleKey}

\* The second call, with the release: the key handler may be another one by now.
ReplayRelease ==
  /\ At("release")
  /\ SendTo(event.screen, Released(event.value))
  /\ lastkeys' = event.value
  /\ Handled
  /\ UNCHANGED <<user, clock, clients, os, fault>>

-----------------------------------------------------------------------------

KeyboardThread ==
  \/ ReadKeys \/ UseFreed \/ DropOnTail \/ TellScreen \/ TellOs \/ TellRemote
  \/ CycleDown \/ Click \/ ReplayPress \/ ReplayOnTail \/ ReplayRelease

User == \E k \in Keys : Press(k) \/ Unpress(k)

ClientThreads == Reorder \/ \E c \in Clients : Connect(c) \/ Disconnect(c) \/ TakeKeys(c)

Next == User \/ HalfSecond \/ ClientThreads \/ KeyboardThread

\* The keyboard thread polls again and again and waits for nobody while it dispatches.
Fairness == WF_vars(KeyboardThread)

Spec == Init /\ [][Next]_vars /\ Fairness

-----------------------------------------------------------------------------
(* Properties. *)

\* What is down for the operating system is what the uinput plugin was told last: over
\* any sequence of values, each key's down is followed by its up before the next down.
EdgesExact == osDown = uinputLast \intersect Mapped

\* The operating system is never left with the cycle key down.  A client is so only while
\* the release of a replay to it is still to be sent, or when it took the keys over between
\* the press and the release: that client has to wait for its next value.
CycleKeyNotStuck ==
  /\ CycleKey \notin uinputLast
  /\ \A c \in Clients : CycleKey \in told[c] =>
       c \in behind \/ (event.step = "release" /\ event.screen = c)

\* What receivers rely on: downs and ups alternate, and the cycle key is the daemon's.
KeysSound == TypeOK /\ EdgesExact /\ CycleKeyNotStuck

\* The release of a cycle key that was held for less than half a second is never
\* replayed to the application.
ClickNotReplayed == [][ReplayPress => holdOld]_vars

\* A client is in front, and the cycle key and the key handler c are out of the way.
Calm(c) ==
  Running /\ remote = c /\ current # TailScreen /\ CycleKey \notin held \union lastkeys

\* The keyboard thread finds changed keys.
KeysChange == event.step = "dispatch"

\* Keys that the operating system missed or kept, because of the cycle key, a screen
\* without handler or a remote handler, are made good: once none of these is in the
\* way and the user goes on typing, its state agrees with the keyboard again.
OsCatchesUp ==
  (<>[]Calm(NoHandler) /\ []<>KeysChange) =>
     <>[](event.step = "read" => osDown = seen \intersect Mapped)

\* A client that keeps the keys is sent every value, in front or not, whatever was under
\* way when it took them.
HandlerIsTold ==
  \A c \in Clients : (<>[]Calm(c) /\ []<>KeysChange) =>
    <>[](event.step = "read" => told[c] = seen)

==============================================================================
