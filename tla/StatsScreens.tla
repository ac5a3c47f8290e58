---------------------------- MODULE StatsScreens ----------------------------
(***************************************************************************)
(* g15stats (Attic): nine screens of statistics, of which some need a      *)
(* network interface, a battery or sensors.  Its key thread moves `cycle`  *)
(* without a lock while the main thread reads it several times on its way  *)
(* through one pass, and moves it itself when the screen turns out to have *)
(* nothing to show.  Both skip the screens that are switched off.          *)
(***************************************************************************)
EXTENDS Integers, FiniteSetsExt

CONSTANTS Machines,   \* the sets of optional screens, and FREQ, for which a machine has something
          MaxKeys     \* bound: keys pressed

\* The screens, in their order.
SUMMARY == 0  CPU == 1  FREQ == 2  MEM == 3  SWAP == 4
NET == 5  BAT == 6  TEMP == 7  FAN == 8  NET2 == 9
MAX_SCREENS == 8
Optional == NET .. FAN           \* the screens that need something

VARIABLES cycle,      \* the screen wanted, shared by the threads
          have,       \* have_nic, have_bat, have_temp, have_fan: screens switched on
          present,    \* the environment: what is really there
          have_freq,  \* 2, 1: files still to be tried for the frequency; 0: none
          mode,       \* alternative drawing, of the screens that have one
          submode,    \* 0: the info row rotates
          timer,      \* info_cycle_timer, in units of PAUSE; all that are too large are one
          info,       \* info_cycle
          m,          \* the main thread: where it is, and its cycle_old
          shown,      \* the screen sent last
          k,          \* the key thread: where it is
          keys        \* keys pressed so far

vars == <<cycle, have, present, have_freq, mode, submode, timer, info, m, shown, k, keys>>
shared == <<have, present, have_freq, mode, submode, timer, info, shown, keys>>

---------------------------------------------------------------------------
\* The network screen is asked for on the command line; its thread switches it off
\* when there is no such interface.
Init ==
  /\ cycle = SUMMARY /\ have \in {{BAT, TEMP, FAN}, Optional}
  /\ present \in Machines
  /\ have_freq = 2
  /\ mode = [s \in {SUMMARY, CPU, FREQ} |-> 0]
  /\ submode = 1 /\ timer = 0 /\ info = SUMMARY
  /\ m = [pc |-> "pass", old |-> SUMMARY] /\ shown = SUMMARY
  /\ k = [pc |-> "recv"] /\ keys = 0

---------------------------------------------------------------------------
\* calc_info_cycle: the row's subject when it rotates.  A subject that is switched
\* off is passed over, and the timer with it.
Subject(t) ==
  LET on(s) == CASE s = FREQ -> have_freq > 0
                 [] s \in Optional -> s \in have
                 [] s = NET2 -> NET \in have
                 [] OTHER -> TRUE
      \* without the frequency the row shows the memory, whose turn comes next
      from == {s \in t .. NET2 : on(s)}
  IN  IF t > NET2 \/ from = {} THEN [info |-> SUMMARY, timer |-> 0]
      ELSE LET s == CHOOSE q \in from : \A r \in from : q <= r IN [info |-> s, timer |-> s]

\* Every pass counts, and some of them complete a unit.
calc_info_cycle ==
  \E t \in {timer, Min({timer + 1, NET2 + 1})} :
    IF submode # 0 THEN info' = cycle /\ timer' = t
    ELSE info' = Subject(t).info /\ timer' = Subject(t).timer

\* One pass begins: the info row, then the first look at cycle.
Pass ==
  /\ m.pc = "pass"
  /\ calc_info_cycle
  /\ m' = [m EXCEPT !.pc = "outer"]
  /\ UNCHANGED <<cycle, have, present, have_freq, mode, submode, shown, k, keys>>

\* get_cpu_freq_cur: the first core's file cannot be read, another is tried next
\* time, and in the end none.
FreqAfterDraw == IF have_freq > 0 /\ FREQ \notin present THEN have_freq - 1 ELSE have_freq

\* The screens that are always there.  (They look at cycle again while they draw: a
\* key in between mixes two screens in one frame, which the next frame repairs.)
DrawPlain ==
  /\ m.pc = "outer" /\ cycle \in SUMMARY .. SWAP
  /\ have_freq' = IF cycle \in {SUMMARY, FREQ} THEN FreqAfterDraw ELSE have_freq
  /\ shown' = cycle
  /\ m' = [m EXCEPT !.pc = "send"]
  /\ UNCHANGED <<cycle, have, present, mode, submode, timer, info, k, keys>>

\* Something the switch does not know: the summary, and back to it.
DrawDefault ==
  /\ \/ m.pc = "outer" /\ cycle \notin SUMMARY .. FAN
     \/ m.pc = "default"
  /\ have_freq' = FreqAfterDraw
  /\ cycle' = SUMMARY /\ info' = SUMMARY /\ shown' = SUMMARY
  /\ m' = [m EXCEPT !.pc = "send"]
  /\ UNCHANGED <<have, present, mode, submode, timer, k, keys>>

\* The optional screens: in which direction the user came, then, with another look
\* at cycle, the screen to begin with.
Direction ==
  /\ m.pc = "outer" /\ cycle \in Optional
  /\ m' = [m EXCEPT !.pc = IF m.old # cycle /\ ((m.old = 0) # (m.old < cycle)) THEN "down" ELSE "up"]
  /\ UNCHANGED <<cycle, shared, k>>

Enter ==
  /\ m.pc \in {"up", "down"}
  /\ m' = IF cycle \in Optional \/ (m.pc = "down" /\ cycle = SWAP)
          THEN [pc |-> IF m.pc = "up" THEN "try_up" ELSE "try_down", old |-> m.old, at |-> cycle]
          ELSE [m EXCEPT !.pc = "check"]
  /\ UNCHANGED <<cycle, shared, k>>

\* Drawing looks for the battery or the sensors, and switches the screen off when
\* there are none.  (How the sensors are looked for is left out.)
\* Mutant: the screen stays on.
HaveAfterDrawKept(s) == have

HaveAfterDraw(s) == IF s \in present \/ s = NET THEN have ELSE have \ {s}

\* One case of the inner switch: draw and leave, or fall through to the next with
\* cycle one further.
TryUp ==
  /\ m.pc = "try_up"
  /\ IF m.at \in have /\ m.at \in HaveAfterDraw(m.at)
     THEN shown' = m.at /\ m' = [pc |-> "check", old |-> m.old] /\ UNCHANGED <<cycle, have, info>>
     ELSE /\ have' = IF m.at \in have THEN HaveAfterDraw(m.at) ELSE have
          /\ cycle' = cycle + 1 /\ info' = cycle'
          /\ m' = IF m.at < FAN THEN [m EXCEPT !.at = m.at + 1]
                  ELSE [pc |-> "check", old |-> m.old]
          /\ UNCHANGED shown
  /\ UNCHANGED <<present, have_freq, mode, submode, timer, k, keys>>

TryDown ==
  /\ m.pc = "try_down"
  /\ IF m.at = SWAP \/ (m.at \in have /\ m.at \in HaveAfterDraw(m.at))
     THEN shown' = m.at /\ m' = [pc |-> "check", old |-> m.old] /\ UNCHANGED <<cycle, have, info>>
     ELSE /\ have' = IF m.at \in have THEN HaveAfterDraw(m.at) ELSE have
          /\ cycle' = cycle - 1 /\ info' = cycle'
          /\ m' = [m EXCEPT !.at = m.at - 1]
          /\ UNCHANGED shown
  /\ UNCHANGED <<present, have_freq, mode, submode, timer, k, keys>>

\* Behind the optional screens cycle is looked at once more.
Check ==
  /\ m.pc = "check"
  /\ m' = [m EXCEPT !.pc = IF cycle <= MAX_SCREENS THEN "send" ELSE "default"]
  /\ UNCHANGED <<cycle, shared, k>>

\* print_info_label draws the row, for which a screen that is not the one shown may
\* be probed as well; the canvas is sent, and the thread waits for at most a second
\* or for a key.
Send ==
  /\ m.pc = "send"
  /\ have' = IF info \in {BAT, TEMP, FAN} /\ cycle # info /\ info \in have THEN HaveAfterDraw(info) ELSE have
  /\ have_freq' = IF info = FREQ THEN FreqAfterDraw ELSE have_freq
  /\ m' = [pc |-> "wait", old |-> cycle]
  /\ UNCHANGED <<cycle, present, mode, submode, timer, info, shown, k, keys>>

g15stats_wait ==
  /\ m.pc = "wait"
  /\ m' = [m EXCEPT !.pc = "pass"]
  /\ UNCHANGED <<cycle, shared, k>>

Main == Pass \/ DrawPlain \/ DrawDefault \/ Direction \/ Enter \/ TryUp \/ TryDown \/ Check \/ Send \/ g15stats_wait

---------------------------------------------------------------------------
\* A key arrives and moves cycle, out of its range perhaps.
PressUpDown ==
  /\ k.pc = "recv" /\ keys < MaxKeys
  /\ keys' = keys + 1
  /\ \E step \in {-1, 1} :
       /\ cycle' = cycle + step
       /\ k' = [pc |-> IF step = 1 THEN "range_up" ELSE "range_down"]
  /\ UNCHANGED <<have, present, have_freq, mode, submode, timer, info, m, shown>>

\* The other keys.  (The sensor screens' mode is the next sensor, the network's its
\* scale; mode[8] of the fan screen lies behind the array's end.)
PressMode ==
  /\ k.pc = "recv" /\ keys < MaxKeys
  /\ keys' = keys + 1
  /\ mode' = IF cycle \in DOMAIN mode THEN [mode EXCEPT ![cycle] = 1 - mode[cycle]] ELSE mode
  /\ UNCHANGED <<cycle, have, present, have_freq, submode, timer, info, m, shown, k>>

PressSubmode ==
  /\ k.pc = "recv" /\ keys < MaxKeys
  /\ keys' = keys + 1
  /\ submode' = 1 - submode
  /\ UNCHANGED <<cycle, have, present, have_freq, mode, timer, info, m, shown, k>>

\* Back into the range, and the case to begin with.
RangeUp ==
  /\ k.pc = "range_up"
  /\ cycle' = IF cycle > MAX_SCREENS THEN 0 ELSE cycle
  /\ k' = IF cycle' \in Optional THEN [pc |-> "skip_up", at |-> cycle'] ELSE [pc |-> "timer"]
  /\ UNCHANGED <<m, shared>>

RangeDown ==
  /\ k.pc = "range_down"
  /\ cycle' = IF cycle < 0 THEN MAX_SCREENS ELSE cycle
  /\ k' = IF cycle' \in Optional THEN [pc |-> "skip_down", at |-> cycle'] ELSE [pc |-> "timer"]
  /\ UNCHANGED <<m, shared>>

\* The key thread's own way past the screens that are off; behind the last one it
\* begins again with the first.
SkipUp ==
  /\ k.pc = "skip_up"
  /\ IF k.at \in have THEN k' = [pc |-> "timer"] /\ UNCHANGED cycle
     ELSE IF k.at < FAN THEN k' = [k EXCEPT !.at = k.at + 1] /\ cycle' = cycle + 1
     ELSE k' = [pc |-> "timer"] /\ cycle' = 0
  /\ UNCHANGED <<m, shared>>

SkipDown ==
  /\ k.pc = "skip_down"
  /\ IF k.at \in have THEN k' = [pc |-> "timer"] /\ UNCHANGED cycle
     ELSE /\ cycle' = cycle - 1
          /\ k' = IF k.at > NET THEN [k EXCEPT !.at = k.at - 1] ELSE [pc |-> "timer"]
  /\ UNCHANGED <<m, shared>>

\* The row begins with the screen; cycle is looked at a last time; the main thread
\* is woken.
KeyDone ==
  /\ k.pc = "timer"
  /\ timer' = cycle
  /\ cycle' = IF cycle > MAX_SCREENS THEN 0 ELSE cycle
  /\ k' = [pc |-> "recv"]
  /\ m' = IF m.pc = "wait" THEN [m EXCEPT !.pc = "pass"] ELSE m
  /\ UNCHANGED <<have, present, have_freq, mode, submode, info, shown, keys>>

KeyMoves == RangeUp \/ RangeDown \/ SkipUp \/ SkipDown \/ KeyDone
keyboard_watch == PressUpDown \/ PressMode \/ PressSubmode \/ KeyMoves

\* network_watch finds no interface of the name and switches the screen off.
NoInterface ==
  /\ NET \in have /\ NET \notin present
  /\ have' = have \ {NET}
  /\ UNCHANGED <<cycle, present, have_freq, mode, submode, timer, info, m, shown, k, keys>>

Next == Main \/ keyboard_watch \/ NoInterface

\* Both threads go on: the main thread's wait ends after a second at the latest, and
\* the key thread, once it has a key, calls nothing that blocks.
Spec == Init /\ [][Next]_vars /\ WF_vars(Main) /\ WF_vars(NoInterface)
        /\ WF_vars(KeyMoves)

---------------------------------------------------------------------------
(* When no more keys come, the panel settles on the screen cycle names, and it *)
(* is one that has something to show: whatever the two threads did to cycle     *)
(* between each other's looks at it.                                            *)
ShowsCycle == m.pc = "wait" => shown = cycle /\ (cycle \in Optional => cycle \in present)
PanelSettles == <>[]ShowsCycle
=============================================================================
