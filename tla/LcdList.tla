------------------------------- MODULE LcdList -------------------------------
(***************************************************************************)
(* The daemon's list of screens (logitoolsd/logitoolsd/linked_lists.c) and *)
(* the requests that move its "current" pointer (main.c), pointer by       *)
(* pointer: head, tail, current and the prev, next and last_priority links *)
(* of every node.                                                          *)
(*                                                                         *)
(* A node is named by its address, and malloc may return the address of a  *)
(* node that was freed.  Each critical section of lcdlist_mutex is one     *)
(* action; what a thread does after it unlocked is another action, so      *)
(* other threads' sections come between.  Only the keyboard thread keeps   *)
(* the mutex over several actions, while it cycles.                        *)
(*                                                                         *)
(* Reading through a pointer to a freed node is undefined: the model sets  *)
(* "fault" and says nothing of what follows.                               *)
(***************************************************************************)
EXTENDS Naturals, FiniteSets, Sequences, SequencesExt

CONSTANTS
  Clients,   (* the addresses malloc gives to the nodes of clients         *)
  Tail0,     (* the node that ll_lcdlist_init allocates, always the tail   *)
  NULL

ASSUME NodesAssumption ==
  /\ IsFiniteSet(Clients)
  /\ Tail0 \notin Clients
  /\ NULL \notin Clients \union {Tail0}

Screen == Clients \union {Tail0}

VARIABLES
  allocated,      (* the nodes that malloc handed out and free did not take back *)
  head,           (* masterlist->head, the newest node                     *)
  current,        (* masterlist->current, the node on the panel            *)
  prev,           (* node->prev, the next older node                       *)
  next,           (* node->next, the next newer node                       *)
  lastPriority,   (* node->last_priority                                   *)
  numclients,     (* masterlist->numclients                                *)
  neverSelect,    (* the nodes with lcd->never_select = 1                  *)
  usrForeground,  (* the nodes with lcd->usr_foreground = 1                *)
  kbd,            (* the keyboard thread: where it is, and a node pointer it holds *)
  fault           (* freed memory was used                                 *)

list == <<allocated, head, current, prev, next, lastPriority, numclients>>
vars == <<list, neverSelect, usrForeground, kbd, fault>>

-----------------------------------------------------------------------------

KbdPC == {"idle", "event", "skip", "selected"}

TypeOK ==
  /\ allocated \subseteq Screen
  /\ head \in Screen
  /\ current \in Screen
  /\ prev \in [Screen -> Screen \union {NULL}]
  /\ next \in [Screen -> Screen \union {NULL}]
  /\ lastPriority \in [Screen -> Screen \union {NULL}]
  /\ numclients \in Nat
  /\ neverSelect \subseteq Clients
  /\ usrForeground \subseteq Screen
  /\ kbd \in [pc : KbdPC, ptr : Screen \union {NULL}]
  /\ fault \in BOOLEAN

\* lcdlist_mutex is free: every other section of it is a single action.
Unlocked == kbd.pc # "skip"

Running == ~fault

-----------------------------------------------------------------------------

Init ==
  /\ allocated = {Tail0}
  /\ head = Tail0
  /\ current = Tail0
  /\ prev = [n \in Screen |-> IF n = Tail0 THEN Tail0 ELSE NULL]
  /\ next = [n \in Screen |-> IF n = Tail0 THEN Tail0 ELSE NULL]
  /\ lastPriority = [n \in Screen |-> NULL]
  /\ numclients = 0
  /\ neverSelect = {}
  /\ usrForeground = {}
  /\ kbd = [pc |-> "idle", ptr |-> NULL]
  /\ fault = FALSE

-----------------------------------------------------------------------------
(* The clients' threads: g15_clientconnect and the plugin loader add a node, *)
(* the client's own thread asks for priority and removes the node when the   *)
(* client is gone.                                                           *)

\* The new node is linked in above the head and shown.
LcdnodeAdd(n) ==
  /\ Running /\ Unlocked
  /\ n \notin allocated
  /\ allocated' = allocated \union {n}
  /\ prev' = [prev EXCEPT ![n] = head]
  /\ next' = [next EXCEPT ![n] = Tail0, ![head] = n]
  /\ lastPriority' = [lastPriority EXCEPT ![n] = NULL]
  /\ current' = n
  /\ head' = n
  /\ numclients' = numclients + 1
  /\ UNCHANGED <<neverSelect, usrForeground, kbd, fault>>

\* Mutant: the next newer node keeps its prev.
UnlinkOneWay(n) ==
  /\ numclients' = numclients - 1
  /\ IF head # n
     THEN /\ prev' = [prev EXCEPT ![n] = NULL]
          /\ next' = [next EXCEPT ![prev[n]] = next[n], ![n] = NULL]
          /\ UNCHANGED head
     ELSE /\ prev' = [prev EXCEPT ![n] = NULL]
          /\ next' = [next EXCEPT ![prev[n]] = Tail0, ![n] = NULL]
          /\ head' = prev[n]

\* The neighbours of the node are joined; a freed node's own links are forgotten.
Unlink(n) ==
  /\ numclients' = numclients - 1
  /\ IF head # n
     THEN /\ prev' = [prev EXCEPT ![next[n]] = prev[n], ![n] = NULL]
          /\ next' = [next EXCEPT ![prev[n]] = next[n], ![n] = NULL]
          /\ UNCHANGED head
     ELSE /\ prev' = [prev EXCEPT ![n] = NULL]
          /\ next' = [next EXCEPT ![prev[n]] = Tail0, ![n] = NULL]
          /\ head' = prev[n]

\* Mutant: the next older screen follows, wherever the closed one stood.
ShownAfterOlder(n) == IF current # n THEN current ELSE prev[n]

\* The node shown once n is gone.
ShownAfter(n) ==
  IF current # n THEN current ELSE IF n # head THEN next[n] ELSE prev[n]

\* The node is unlinked and freed.  The last_priority of other nodes is not looked at.
LcdnodeRemove(n) ==
  /\ Running /\ Unlocked
  /\ n \in allocated
  /\ allocated' = allocated \ {n}
  /\ Unlink(n)
  /\ current' = ShownAfter(n)
  /\ lastPriority' = [lastPriority EXCEPT ![n] = NULL]
  /\ neverSelect' = neverSelect \ {n}
  /\ usrForeground' = usrForeground \ {n}
  /\ fault' = (current' \notin allocated')
  /\ UNCHANGED kbd

NeverSelect(n) ==
  /\ Running /\ Unlocked
  /\ n \in allocated
  /\ neverSelect' = neverSelect \union {n}
  /\ UNCHANGED <<list, usrForeground, kbd, fault>>

\* Whom a client in front gives the panel back to: the screen it displaced, or the
\* next older one when it displaced none or the user selected it (linked_lists.c:142).
GiveBack(n) == IF lastPriority[n] \in {n, NULL} THEN prev[n] ELSE lastPriority[n]

\* G15_EVENT_REQ_PRIORITY: to the front, or back to the screen displaced before.
\* The refresh the thread sends after the unlock reads through current once more;
\* it changes nothing here and is taken together with the section.
ReqPriority(n) ==
  /\ Running /\ Unlocked
  /\ n \in allocated
  /\ \/ /\ current # n
        /\ lastPriority' = [lastPriority EXCEPT ![n] = current]
        /\ current' = n
     \/ /\ current = n
        /\ lastPriority' = [lastPriority EXCEPT ![n] = IF @ = n THEN n ELSE NULL]
        /\ current' = GiveBack(n)
  /\ fault' = (current' \notin allocated)
  /\ UNCHANGED <<allocated, head, prev, next, numclients, neverSelect, usrForeground, kbd>>

-----------------------------------------------------------------------------
(* The keyboard thread, from a released cycle key to the end of              *)
(* g15daemon_lcdnode_cycle.                                                  *)

\* Mutant: the wrap misses the head.
OlderBelowHead(n) == IF n = Tail0 THEN prev[head] ELSE prev[n]

\* The node the next older screen stands on; the oldest wraps to the newest.
Older(n) == IF n = Tail0 THEN head ELSE prev[n]

Selectable(n) == n \notin neverSelect /\ (n = Tail0 => numclients = 0)

\* masterlist->current->lcd is read without the mutex.
KeyEvent ==
  /\ Running
  /\ kbd.pc = "idle"
  /\ kbd' = [pc |-> "event", ptr |-> current]
  /\ UNCHANGED <<list, neverSelect, usrForeground, fault>>

\* The event's screen is used to find the list, and the mutex is taken.
CycleLock ==
  /\ Running
  /\ kbd.pc = "event"
  /\ kbd' = [pc |-> "skip", ptr |-> current]
  /\ fault' = (kbd.ptr \notin allocated)
  /\ UNCHANGED <<list, neverSelect, usrForeground>>

\* Mutant: a while loop, which ends before its first iteration.
FlagsAfterWalkWhile == usrForeground

\* The do loop goes once round the list and clears every usr_foreground.
FlagsAfterWalk == {}

\* One round of the loop at "skip": the walk round the list, then current moves on by
\* one.  The round that reaches a screen the user may select ends the section.
CycleRound ==
  /\ Running
  /\ kbd.pc = "skip"
  /\ IF current \in allocated
     THEN LET to == Older(current) IN
          /\ usrForeground' = FlagsAfterWalk
          /\ current' = to
          /\ IF Selectable(to)
             THEN /\ lastPriority' = [lastPriority EXCEPT ![to] = to]
                  /\ kbd' = [pc |-> "selected", ptr |-> NULL]
             ELSE UNCHANGED <<lastPriority, kbd>>
          /\ UNCHANGED fault
     ELSE /\ fault' = TRUE
          /\ UNCHANGED <<current, usrForeground, lastPriority, kbd>>
  /\ UNCHANGED <<allocated, head, prev, next, numclients, neverSelect>>

\* After the unlock, the node that is current by now gets usr_foreground = 1 and is
\* told that it is visible.
MarkSelected ==
  /\ Running
  /\ kbd.pc = "selected"
  /\ kbd' = [kbd EXCEPT !.pc = "idle"]
  /\ IF current \in allocated
     THEN usrForeground' = usrForeground \union {current} /\ UNCHANGED fault
     ELSE fault' = TRUE /\ UNCHANGED usrForeground
  /\ UNCHANGED <<list, neverSelect>>

-----------------------------------------------------------------------------

ClientStep(n) == LcdnodeAdd(n) \/ LcdnodeRemove(n) \/ NeverSelect(n) \/ ReqPriority(n)

Cycling == CycleLock \/ CycleRound \/ MarkSelected

KeyboardStep == KeyEvent \/ Cycling

Next ==
  \/ \E n \in Clients : ClientStep(n)
  \/ KeyboardStep

\* A cycle that has begun runs on: nothing in it waits for a client or a user.
Fairness == WF_vars(Cycling)

Spec == Init /\ [][Next]_vars /\ Fairness

-----------------------------------------------------------------------------
(* Properties. *)

\* The links of the open nodes agree with each other whatever the order in which
\* clients come, go and take priority: going down and then up (linked_lists.c:98
\* and 180-186) returns to the same node, the tail is the only end, and the head is
\* the only node whose next is the tail.
LinksConsistent ==
  /\ {Tail0, head} \subseteq allocated
  /\ prev[Tail0] = Tail0
  /\ next[head] = Tail0
  /\ \A n \in allocated \ {Tail0} : prev[n] \in allocated /\ next[prev[n]] = n
  /\ \A n \in allocated \ {head} :
       next[n] \in allocated \ {Tail0} /\ prev[next[n]] = n

\* numclients, which decides whether the cycle key may stop on the daemon's own
\* screen (linked_lists.c:138), is the number of nodes that clients have.
ClientCount == numclients = Cardinality(allocated \ {Tail0})

\* CLIENT_CMD_IS_USER_SELECTED answers yes to one client at most, and only to an
\* open one, although the flag is set outside the mutex (linked_lists.c:145) on whatever
\* node is current by then.
UserFlagUnique ==
  /\ usrForeground \subseteq allocated
  /\ \A m, n \in usrForeground : m = n

\* s lists the open nodes, oldest first, as following prev from the head meets them.
Stacks(s) ==
  /\ s[1] = Tail0 /\ s[numclients + 1] = head
  /\ \A i \in 1..numclients : prev[s[i + 1]] = s[i]
  /\ IsInjective(s)
  /\ ToSet(s) = allocated

Stack == CHOOSE s \in [1..numclients + 1 -> allocated] : Stacks(s)

\* Every walk over the list (the cycle key's loop, lines 120-130) meets every open
\* node exactly once and ends at the tail: no client that comes or goes makes
\* another client's screen unreachable or the walk endless.
RingIntact ==
  \E s \in [1..numclients + 1 -> allocated] :
    /\ Stacks(s)
    /\ \A i \in 1..numclients : next[s[i]] = s[i + 1]
    /\ next[head] = Tail0

\* The panel as the draw thread sees it, under lcdlist_mutex.
Shown == IF kbd.pc = "skip" THEN kbd.ptr ELSE current

Screens == INSTANCE ScreenStack WITH
  order <- Stack,
  shown <- Shown,
  hidden <- neverSelect,
  failed <- fault \/ Shown \notin allocated

\* The pointer structure behaves as the ordered stack of screens that the manual
\* describes: opening shows, closing shows a neighbour, a priority request toggles
\* and the cycle key takes the nearest older screen it may stop on.
ImplementsScreenStack == Screens!Spec

-----------------------------------------------------------------------------
(* What else the sections of the mutex rely on.                              *)

\* No node has the flag when the keyboard thread is about to give it to one.
FlagsClear == kbd.pc = "selected" => usrForeground = {}

\* The mark of a client that is gone does not wait for the next one at its address.
HiddenOpen == neverSelect \subseteq allocated

\* While the cycle key skips, current has come down from the shown screen over
\* screens the user may not select, unless the shown one was freed before.
SkipsHidden ==
  kbd.pc = "skip" /\ kbd.ptr \in allocated =>
    \E d \in 0..numclients :
      /\ current = Screens!Below(Stack, kbd.ptr, d)
      /\ \A e \in 1..d : ~Selectable(Screens!Below(Stack, kbd.ptr, e))

\* What every client relies on when it finds the list: links, count and flags agree,
\* whichever functions of linked_lists.c and main.c ran before, in whatever order,
\* and the screens that a cycle skipped were none the user may select.
ListSound ==
  /\ TypeOK /\ LinksConsistent /\ ClientCount
  /\ UserFlagUnique /\ FlagsClear /\ HiddenOpen
  /\ SkipsHidden

==============================================================================
