----------------------------- MODULE DpmsMonitor -----------------------------
(* g15dpms-monitor: once a second it reads the power of the monitor; when that *)
(* goes down it puts its own dark screen in front, and when it comes back it   *)
(* lights that screen up and then gives the panel back to the others.          *)
EXTENDS Naturals, Sequences

CONSTANTS MaxChanges,   \* (bound) the monitor goes off or on
          MaxTurns,     \* (bound) keys that cycle the screens
          MaxDelays     \* (bound) commands that the daemon does not take in time

VARIABLES pc, bright,
          power, front,    \* of the monitor; of the daemon: this screen or the others
          backlight,       \* this screen's (the keyboard's own follows the screen shown)
          fg_check, lights,
          todo,            \* the commands of this round that are still to be sent
          command, answer, \* the byte on its way to the daemon and the one on its way back
          taken,           \* the command that the daemon has read and not yet obeyed
          changes, turns, delays,
          missed,          \* history: after the switch to dark another screen was in front
          lost,            \* history: of the last change's commands one was not taken
          late             \* history: the last question met an earlier one's answer

vars == <<pc, bright, power, front, backlight, fg_check, lights, todo, command, answer, taken,
          changes, turns, delays, missed, lost, late>>
world == <<power, changes, turns>>
wire == <<command, answer, taken, delays, late>>
None == "none"
Screen == "monitor"
Other(screen) == IF screen = Screen THEN "others" ELSE Screen

Init == /\ pc = "connect" /\ bright \in BOOLEAN
        /\ power \in {"on", "standby", "off"} /\ front = "others"
        /\ backlight = "medium"
        /\ fg_check = FALSE /\ lights = TRUE /\ todo = <<>>
        /\ command = None /\ answer = None /\ taken = None
        /\ changes = 0 /\ turns = 0 /\ delays = 0
        /\ missed = FALSE /\ lost = FALSE /\ late = FALSE

\* A new screen is put in front; without a daemon the attempt is repeated.
Connect ==
  /\ pc = "connect"
  /\ front' = Screen /\ pc' = "look"
  /\ UNCHANGED <<world, wire, bright, backlight, fg_check, lights, todo, missed, lost>>

\* g15_send_cmd sends one urgent byte, and one that the daemon has not taken yet is
\* gone by it (logitoolsdl_net.c).  A question that finds an answer gets that one.
Asks(c) == c \notin {"switch", "keyboard", None}
Send(c) ==
  /\ command' = c
  /\ delays' = delays + (IF command = None THEN 0 ELSE 1)
  /\ delays' <= MaxDelays
  /\ late' = (IF Asks(c) THEN answer # None \/ Asks(taken) ELSE late)

LookForeground ==
  /\ pc = "look"
  /\ Send("foreground") /\ pc' = "await"
  /\ UNCHANGED <<world, bright, front, backlight, fg_check, lights, todo, answer, taken, missed, lost>>

\* Only the answer to that question can be taken for a screen in front.
GetAnswer ==
  /\ pc \in {"await", "level"} /\ answer # None
  /\ answer' = None
  /\ IF pc = "await" THEN fg_check' = (answer = Screen) /\ pc' = "power"
                     ELSE pc' = "send" /\ UNCHANGED fg_check
  /\ UNCHANGED <<world, bright, front, backlight, lights, todo, command, taken, delays, missed, lost, late>>

\* After 100 ms without an answer the program goes on with a zero.
TimeOut ==
  /\ pc \in {"await", "level"} /\ answer = None /\ delays < MaxDelays
  /\ delays' = delays + 1
  /\ IF pc = "await" THEN fg_check' = FALSE /\ pc' = "power"
                     ELSE pc' = "send" /\ UNCHANGED fg_check
  /\ UNCHANGED <<world, bright, front, backlight, lights, todo, command, answer, taken, missed, lost, late>>

\* Mutant: a monitor in standby counts as one that is on.
WantedInStandby == power # "off"

Wanted == power = "on"

\* toggle_g15lights: down, the request does not ask who is in front; up, to the middle,
\* and with --bright further.
toggle_g15lights(on) ==
  IF ~on THEN <<"switch", "dark", "keyboard">>
  ELSE <<"medium", "keyboard">> \o (IF bright THEN <<"bright", "keyboard">> ELSE <<>>)

\* The lights that are wanted; a change of them also starts the user's command.  With
\* the monitor on and nothing changed the screen has no business in front.
DPMSInfo ==
  /\ pc = "power"
  /\ lights' = Wanted
  /\ todo' = (IF lights' # lights THEN toggle_g15lights(lights')
              ELSE IF fg_check /\ lights THEN <<"switch">> ELSE <<>>)
  /\ lost' = (lost /\ lights' = lights)
  /\ pc' = "send"
  /\ UNCHANGED <<world, wire, bright, front, backlight, fg_check, missed>>

SendNext ==
  /\ pc = "send"
  /\ IF todo = <<>> THEN pc' = "sleep" /\ UNCHANGED <<wire, todo, lost>>
     ELSE /\ Send(Head(todo)) /\ UNCHANGED <<answer, taken>>
          /\ todo' = Tail(todo)
          /\ lost' = (lost \/ command \in {"switch", "dark", "medium", "bright"})
          /\ pc' = IF Asks(Head(todo)) THEN "level" ELSE "send"
  /\ UNCHANGED <<world, bright, front, backlight, fg_check, lights, missed>>

Wake ==
  /\ pc = "sleep"
  /\ pc' = "look"
  /\ UNCHANGED <<world, wire, bright, front, backlight, fg_check, lights, todo, missed, lost>>

\* The daemon's thread for this client takes a command, and obeys it when it can; the
\* answer to a level is the one before.
g15_recv ==
  /\ command # None /\ taken = None
  /\ taken' = command /\ command' = None
  /\ UNCHANGED <<world, pc, bright, front, backlight, fg_check, lights, todo, answer, delays, missed, lost, late>>

process_client_cmds ==
  /\ taken # None
  /\ taken' = None
  /\ front' = (IF taken = "switch" THEN Other(front) ELSE front)
  /\ missed' = (IF taken = "switch" /\ ~lights THEN front = Screen ELSE missed)
  /\ answer' = (IF taken = "foreground" THEN front
                ELSE IF Asks(taken) THEN backlight ELSE answer)
  /\ backlight' = (IF Asks(taken) /\ taken # "foreground" THEN taken ELSE backlight)
  /\ UNCHANGED <<world, pc, bright, fg_check, lights, todo, command, delays, lost, late>>

Power ==
  /\ changes < MaxChanges
  /\ power' \in {"on", "standby", "off"} \ {power} /\ changes' = changes + 1
  /\ UNCHANGED <<pc, wire, bright, front, backlight, fg_check, lights, todo, turns, missed, lost>>

Cycle ==
  /\ turns < MaxTurns /\ pc # "connect"
  /\ front' = Other(front) /\ turns' = turns + 1 /\ missed' = TRUE
  /\ UNCHANGED <<pc, wire, bright, power, backlight, fg_check, lights, todo, changes, lost>>

Round == Connect \/ LookForeground \/ GetAnswer \/ DPMSInfo \/ SendNext \/ Wake
Daemon == g15_recv \/ process_client_cmds
Next == Round \/ TimeOut \/ Daemon \/ Power \/ Cycle

Spec == Init /\ [][Next]_vars /\ WF_vars(Round) /\ WF_vars(Daemon)

---------------------------------------------------------------------------
(* While the monitor is on, the panel is lit and ends up with the others.  When *)
(* it is off, the panel is dark, unless the user has cycled since it went dark, *)
(* or this screen was in front already, so that the switch took it away.  A     *)
(* daemon that was slow may have lost a command of the change; or the answers   *)
(* are one behind, and the screen is switched away and back for ever.           *)
PanelAsPower ==
  /\ lost \/ (power = "on") = (backlight # "dark")
  /\ IF power = "on" THEN front = "others" \/ late
     ELSE front = Screen \/ missed \/ lost

PanelFollowsPower == <>[]PanelAsPower
=============================================================================
