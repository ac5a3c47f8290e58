----------------------------- MODULE ScreenStack -----------------------------
(***************************************************************************)
(* What the screen list of logitoolsd promises to the user and to the      *)
(* clients, without pointers, locks or threads.                            *)
(*                                                                         *)
(* Screens are kept in the order in which they were opened, oldest first;  *)
(* the daemon's own screen is the oldest and never closes.  One of them    *)
(* is shown.  LcdList implements this module.                              *)
(***************************************************************************)
EXTENDS Integers, Sequences, SequencesExt

CONSTANTS
  Clients,   (* screens that clients and plugins open and close            *)
  Tail0      (* the daemon's own screen                                    *)

VARIABLES
  order,     (* the open screens, oldest first                             *)
  shown,     (* the screen on the panel                                    *)
  hidden,    (* screens whose client asked never to be user-selected       *)
  failed     (* the program used memory it had freed: nothing is promised  *)

vars == <<order, shown, hidden, failed>>

-----------------------------------------------------------------------------

Place(o, s) == CHOOSE i \in DOMAIN o : o[i] = s

\* The screen d steps below screen s, wrapping from the oldest to the newest.
Below(o, s, d) ==
  LET i == Place(o, s) - d IN o[IF i >= 1 THEN i ELSE i + Len(o)]

\* The user's key may stop on a client's screen that allows it, and on the
\* daemon's own screen only when there is no client at all.
MayStopOn(o, s) == s \notin hidden /\ (s = Tail0 => Len(o) = 1)

-----------------------------------------------------------------------------

Init ==
  /\ order = <<Tail0>>
  /\ shown = Tail0
  /\ hidden = {}
  /\ failed = FALSE

\* A new screen is the newest and is shown at once.
Open(n) ==
  /\ ~Contains(order, n)
  /\ order' = Append(order, n)
  /\ shown' = n
  /\ hidden' = hidden \ {n}
  /\ UNCHANGED failed

\* Closing the shown screen shows its next newer neighbour, or, when it was the
\* newest, its next older one; closing another screen changes nothing shown.
Close(n) ==
  /\ hidden' = hidden \ {n}
  /\ UNCHANGED failed
  /\ LET o == order
         i == Place(o, n)
     IN /\ Contains(o, n)
        /\ order' = RemoveAt(o, i)
        /\ shown' = IF shown # n THEN shown
                    ELSE IF i = Len(o) THEN o[i - 1]
                    ELSE o[i + 1]

NeverSelect(n) ==
  /\ Contains(order, n)
  /\ hidden' = hidden \union {n}
  /\ UNCHANGED <<order, shown, failed>>

\* A client toggles its screen to the front, or gives the front to another screen.
Toggle(n) ==
  /\ Contains(order, n)
  /\ \/ /\ shown # n
        /\ shown' = n
     \/ /\ shown = n
        /\ shown' \in ToSet(order) \ {n}
  /\ UNCHANGED <<order, hidden, failed>>

\* The user's key shows the nearest older screen it may stop on.
Cycle ==
  /\ UNCHANGED <<hidden, failed>>
  /\ LET o == order IN
     /\ order' = o
     /\ \E d \in 1..Len(o) :
          /\ shown' = Below(o, shown, d)
          /\ MayStopOn(o, shown')
          /\ \A e \in 1..(d - 1) : ~MayStopOn(o, Below(o, shown, e))

Broken == failed \/ failed'

Next ==
  \/ Broken
  \/ \E n \in Clients : Open(n) \/ Close(n) \/ NeverSelect(n) \/ Toggle(n)
  \/ Cycle

Spec == Init /\ [][Next]_vars

==============================================================================
