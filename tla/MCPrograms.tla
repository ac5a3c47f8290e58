------------------------------ MODULE MCPrograms ------------------------------
(***************************************************************************)
(* Model checking of the threads of the plugins, and, for what comes about *)
(* in the end, of the programs of Attic, which meet in no variable. `part` *)
(* says which of them a behaviour is about: the threads' variables are     *)
(* PluginThread's own, s1 to s25 are the state of a program in the order   *)
(* in which its module declares it.                                        *)
(***************************************************************************)
EXTENDS PluginThread, Naturals

VARIABLES part,   \* whose behaviour it is
          s1, s2, s3, s4, s5, s6, s7, s8, s9, s10, s11, s12, s13, s14, s15, s16,
          s17, s18, s19, s20, s21, s22, s23, s24, s25

\* The variables that a part does not need.
from14 == <<s14, s15, s16, s17, s18, s19, s20, s21, s22, s23, s24, s25>>
from12 == <<s12, s13, from14>>
from1 == <<s1, s2, s3, s4, s5, s6, s7, s8, s9, s10, s11, from12>>

None == "none"
None14 == s14 = None /\ s15 = None /\ s16 = None /\ s17 = None /\ s18 = None /\ s19 = None /\
         s20 = None /\ s21 = None /\ s22 = None /\ s23 = None /\ s24 = None /\ s25 = None
None12 == s12 = None /\ s13 = None /\ None14
None1 == s1 = None /\ s2 = None /\ s3 = None /\ s4 = None /\ s5 = None /\ s6 = None /\
         s7 = None /\ s8 = None /\ s9 = None /\ s10 = None /\ s11 = None /\ None12

---------------------------------------------------------------------------
\* Four of the list's key and stop, or two of any.
MpdKeys == {"L2", "L3", "L4", "L5", "play", "stop", "skip", "volume", "mute", "front", "restart"}
Mpd == INSTANCE MpdRemote WITH
  server <- s1, track_info <- s2, playing <- s3, paused <- s4, playlist_mode <- s5,
  own_keyboard <- s6, playlist_selection <- s7, item_selected <- s8, current <- s9,
  menulevel <- s10, volume_adjust <- s11, mute <- s12, muted_volume <- s13,
  fg <- s14, current_fg_check <- s15, last_fg_check <- s16, daemon_mutex <- s17,
  link <- s18, l <- s19, e <- s20, d <- s21, m <- s22, panel <- s23, entered <- s24,
  keys <- s25, Songs <- 3, Volumes <- {5}, Quickscroll <- TRUE, MaxKeys <- 4,
  Weight <- [key \in MpdKeys |-> IF key \in {"L3", "stop"} THEN 1 ELSE 2]

Composer == INSTANCE ComposerThreads WITH
  name <- s1, pc <- s2, fifo <- s3, made <- s4, closing <- s5, file <- s6, items <- s7,
  last <- s8, leaving <- s9, main <- s10, fault <- s11, Screens <- {"a", "b", "c"},
  First <- "a", Names <- {"n1", "n2"}, Kept <- {"n2"}, Background <- FALSE, NULL <- "NULL"

Tool == INSTANCE ScriptTool WITH
  script <- s1, fifo <- s2, lines <- s3, garbage <- s4, pc <- s5, canvas <- s6,
  screen_fd <- s7, leaving <- s8, up <- s9, panel <- s10, plain <- s11,
  MaxNew <- 2, MaxCommands <- 3

View == INSTANCE TailView WITH
  file <- s1, held <- s2, queue <- s3, keystate <- s4, size <- s5, lastsize <- s6,
  hoffset <- s7, pc <- s8, buffer <- s9, panel <- s10, rewritten <- s11,
  edits <- s12, keys <- s13, Rows <- 1, MaxOffset <- 10, MaxEdits <- 3, MaxKeys <- 1

---------------------------------------------------------------------------
\* The threads have not started while a behaviour is about another part.
PartsInit ==
  /\ Init
  /\ \/ part = "threads" /\ None1
     \/ part = "mpd" /\ Mpd!Init
     \/ part = "composer" /\ Composer!Init /\ s1["a"] = "n1" /\ None12   \* (bound)
     \/ part = "tool" /\ Tool!Init /\ None12
     \/ part = "tail" /\ View!Init /\ None14

PartsNext ==
  /\ UNCHANGED part
  /\ \/ part = "threads" /\ Next /\ UNCHANGED from1
     \/ /\ UNCHANGED vars
        /\ \/ part = "mpd" /\ Mpd!Next
           \/ part = "composer" /\ Composer!Next /\ UNCHANGED from12
           \/ part = "tool" /\ Tool!Next /\ UNCHANGED from12
           \/ part = "tail" /\ View!Next /\ UNCHANGED from14

partsvars == <<part, from1, vars>>
mpdvars == Mpd!vars
composervars == Composer!vars
toolvars == Tool!vars
tailvars == View!vars

\* The fairness of each part, as its own specification has it.
Fairness ==
  /\ WF_mpdvars(part = "mpd" /\ Mpd!LookAtFront) /\ SF_mpdvars(part = "mpd" /\ Mpd!LockSocket)
  /\ WF_mpdvars(part = "mpd" /\ Mpd!NoKey) /\ WF_mpdvars(part = "mpd" /\ Mpd!SetVolume)
  /\ WF_mpdvars(part = "mpd" /\ Mpd!Played) /\ WF_mpdvars(part = "mpd" /\ Mpd!Main)
  /\ SF_mpdvars(part = "mpd" /\ Mpd!Applying) /\ WF_mpdvars(part = "mpd" /\ Mpd!Drawing)
  /\ SF_mpdvars(part = "mpd" /\ Mpd!SendFrame) /\ WF_mpdvars(part = "mpd" /\ Mpd!Reconnect)
  /\ \A s \in {"a", "b", "c"} : WF_composervars(part = "composer" /\ Composer!threadEntryFair(s))
  /\ WF_composervars(part = "composer" /\ Composer!MainFair)
  /\ \A i \in 1 .. 2 : WF_toolvars(part = "tool" /\ Tool!Microdaemon(i))
  /\ WF_tailvars(part = "tail" /\ View!Round)

PartsSpec == PartsInit /\ [][PartsNext]_partsvars /\ Fairness

---------------------------------------------------------------------------
(* The remote, its panel and the player come to agree (MpdRemote). *)
RemoteSettles == <>[](part = "mpd" => Mpd!Settled)

(* Closing the first screen ends the program and its FIFOs (ComposerThreads). *)
ComposerEnds == <>[](part = "composer" => Composer!Closed)

(* A script's commands are all obeyed (ScriptTool). *)
ScriptServed == <>[](part = "tool" => Tool!ScriptDone)

(* The end of the file comes to be shown, near the column asked for (TailView). *)
TailCatchesUp == /\ [](part = "tail" => View!OffsetNear)
                 /\ <>[](part = "tail" => View!AtEnd)
=============================================================================
