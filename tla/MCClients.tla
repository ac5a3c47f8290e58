------------------------------- MODULE MCClients -------------------------------
(***************************************************************************)
(* Model checking, for what comes about in the end, of clients that ask    *)
(* the daemon or are asked by a signal: the macro client, whose variables  *)
(* are MacroClient's own, and three programs of Attic, which meet in no    *)
(* variable. `part` says which of them a behaviour is about, s1 to s17 are *)
(* the state of a program in the order in which its module declares it.    *)
(***************************************************************************)
EXTENDS MacroClient

CONSTANTS MaxKeysStats, MaxChanges, MaxTurns, MaxDelays   \* bounds of the programs

VARIABLES part,   \* whose behaviour it is
          s1, s2, s3, s4, s5, s6, s7, s8, s9, s10, s11, s12, s13, s14, s15, s16, s17

\* The variables that a part does not need.
from13 == <<s13, s14, s15, s16, s17>>
from1 == <<s1, s2, s3, s4, s5, s6, s7, s8, s9, s10, s11, s12, from13>>

None == "none"
None13 == s13 = None /\ s14 = None /\ s15 = None /\ s16 = None /\ s17 = None
None1 == s1 = None /\ s2 = None /\ s3 = None /\ s4 = None /\ s5 = None /\ s6 = None /\
         s7 = None /\ s8 = None /\ s9 = None /\ s10 = None /\ s11 = None /\ s12 = None /\ None13

\* The list of configurations: one that has a name, and a blank line.
LinesWithBlank == <<"name", "blank">>

---------------------------------------------------------------------------
Stats == INSTANCE StatsScreens WITH
  cycle <- s1, have <- s2, present <- s3, have_freq <- s4, mode <- s5, submode <- s6,
  timer <- s7, info <- s8, m <- s9, shown <- s10, k <- s11, keys <- s12,
  Machines <- {{2, 6}, {7, 8}, {2, 5, 6, 7, 8}}, MaxKeys <- MaxKeysStats

\* Letters of 2 to 4 pixels on rows of 20, of which two, five or seven fit on the display.
Message == INSTANCE MessageTool WITH
  pc <- s1, option <- s2, words <- s3, rows <- s4, front <- s5, retval <- s6, turns <- s7,
  command <- s8, taken <- s9, answer <- s10, delays <- s11, late <- s12,
  Columns <- 20, Fonts <- [f \in 0 .. 2 |-> [width |-> f + 2, height |-> <<6, 8, 15>>[f + 1]]],
  Default <- 2, Lengths <- {1, 3, 12}, MaxWords <- 4, MaxArgs <- 2

Dpms == INSTANCE DpmsMonitor WITH
  pc <- s1, bright <- s2, power <- s3, front <- s4, backlight <- s5, fg_check <- s6,
  lights <- s7, todo <- s8, command <- s9, answer <- s10, taken <- s11, changes <- s12,
  turns <- s13, delays <- s14, missed <- s15, lost <- s16, late <- s17

---------------------------------------------------------------------------
\* The macro client has not started while a behaviour is about another program.
Untouched == file[1].version = 1
ClientsInit ==
  /\ Init
  /\ \/ part = "macro" /\ None1
     \/ part = "stats" /\ Untouched /\ Stats!Init /\ None13
     \/ part = "message" /\ Untouched /\ Message!Init /\ None13
     \/ part = "dpms" /\ Untouched /\ Dpms!Init

ClientsNext ==
  /\ UNCHANGED part
  /\ \/ part = "macro" /\ Next /\ UNCHANGED from1
     \/ /\ UNCHANGED vars
        /\ \/ part = "stats" /\ Stats!Next /\ UNCHANGED from13
           \/ part = "message" /\ Message!Next /\ UNCHANGED from13
           \/ part = "dpms" /\ Dpms!Next

clientsvars == <<part, from1, vars>>
statsvars == Stats!vars
messagevars == Message!vars
dpmsvars == Dpms!vars

\* The fairness of each part, as its own specification has it.
PartsFair ==
  /\ WF_vars(part = "macro" /\ ~fault /\ (LStep \/ XStep \/ MainStep) /\ LatchMixed)
  /\ WF_statsvars(part = "stats" /\ Stats!Main)
  /\ WF_statsvars(part = "stats" /\ Stats!NoInterface)
  /\ WF_statsvars(part = "stats" /\ Stats!KeyMoves)
  /\ WF_messagevars(part = "message" /\ Message!Round)
  /\ WF_messagevars(part = "message" /\ Message!Daemon)
  /\ WF_dpmsvars(part = "dpms" /\ Dpms!Round)
  /\ WF_dpmsvars(part = "dpms" /\ Dpms!Daemon)

ClientsSpec == ClientsInit /\ [][ClientsNext]_clientsvars /\ PartsFair

---------------------------------------------------------------------------
(* The panel settles on a screen that has something to show (StatsScreens). *)
PanelSettles == <>[](part = "stats" => Stats!ShowsCycle)

(* The text is drawn in order, and the question comes back in front (MessageTool). *)
MessageShown == /\ [](part = "message" => Message!InOrder)
                /\ <>[](part = "message" => Message!KeptInFront)

(* The panel is dark and lit with the monitor (DpmsMonitor). *)
PanelFollowsPower == <>[](part = "dpms" => Dpms!PanelAsPower)
================================================================================
