------------------------------ MODULE MCKeyboard ------------------------------
(***************************************************************************)
(* Model checking of the keyboard thread: what becomes of its events       *)
(* (KeyPath), and how the cycle key's walk gets around the list (LcdList). *)
(* The two meet in no variable; `part` says which of them a behaviour is   *)
(* about, and the other one stays as it begins.                            *)
(***************************************************************************)
EXTENDS KeyPath

CONSTANTS ListClients, ListTail, NULL   \* Clients, Tail0 and NULL of the list

VARIABLES part,   \* "events" or "list"
          s1, s2, s3, s4, s5, s6, s7, s8, s9, s10, s11   \* the list, as LcdList declares it

List == INSTANCE MCLcdList WITH
  allocated <- s1, head <- s2, current <- s3, prev <- s4, next <- s5, lastPriority <- s6,
  numclients <- s7, neverSelect <- s8, usrForeground <- s9, kbd <- s10, fault <- s11,
  Clients <- ListClients, Tail0 <- ListTail

thelist == <<s1, s2, s3, s4, s5, s6, s7, s8, s9, s10, s11>>
listvars == List!vars
KeyboardInit == part \in {"events", "list"} /\ Init /\ List!Init
KeyboardNext ==
  /\ UNCHANGED part
  /\ \/ part = "events" /\ Next /\ UNCHANGED thelist
     \/ part = "list" /\ List!Next /\ UNCHANGED vars

\* The fairness of each part, as its own specification has it.
KeyboardSpec ==
  /\ KeyboardInit /\ [][KeyboardNext]_<<part, vars, thelist>>
  /\ WF_vars(part = "events" /\ KeyboardThread) /\ WF_listvars(part = "list" /\ List!Cycling)

(* The cycle key's walk ends, and gets to every screen that may be selected    *)
(* (MCLcdList).                                                                *)
CycleServes == List!CycleServes
===============================================================================
