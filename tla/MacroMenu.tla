----------------------------- MODULE MacroMenu -----------------------------
(* The macro client's screen, logitools-macro.c: mainLoop redraws the menu     *)
(* when what it was drawn for has changed, while the keys' thread moves the    *)
(* selection, switches the configuration and draws messages about recordings   *)
(* on the same canvas. What is recorded and saved is in MacroClient.           *)
EXTENDS Integers

CONSTANTS numConfigs,   \* the last configuration's number
          MaxKeys       \* bound: keys

VARIABLES gui_selectConfig, gui_oldConfig, currConfig,
          recording, was_recording, display_timeout,   \* the last: TRUE until it is over
          canvas, screen,    \* what is drawn, and what was sent
          pc, full,          \* mainLoop: place, and whether all is redrawn
          switching,         \* the keys' thread is about to set gui_oldConfig
          seen, missed, keys \* mainLoop has seen the recording; a change escaped it; bound

vars == <<gui_selectConfig, gui_oldConfig, currConfig, recording, was_recording, display_timeout,
          canvas, screen, pc, full, switching, seen, missed, keys>>

Redraw == numConfigs + 1                 \* MAX_CONFIGS+1, which is no configuration
Menu(c, s) == [what |-> "menu", current |-> c, selected |-> s]
Message(s) == [what |-> "message", current |-> 0, selected |-> s]

Init == /\ gui_selectConfig = 0 /\ gui_oldConfig = Redraw /\ currConfig = 0
        /\ recording = FALSE /\ was_recording = TRUE /\ display_timeout = TRUE
        /\ canvas = Message(0) /\ screen = canvas
        /\ pc = "look" /\ full = FALSE /\ switching = FALSE
        /\ seen = FALSE /\ missed = FALSE /\ keys = 0

drawing == <<canvas, screen>>
marks == <<gui_selectConfig, gui_oldConfig, currConfig>>
history == <<seen, missed, keys>>

-----------------------------------------------------------------------------
(* mainLoop.                                                                   *)
\* Mutant: after a recording only the selection is drawn.
FullAfterSwitch == gui_oldConfig = Redraw
Full == was_recording \/ gui_oldConfig = Redraw

LookAtRecording ==
  /\ pc = "look" /\ recording /\ ~(was_recording /\ display_timeout /\ seen)
  /\ was_recording' = TRUE /\ display_timeout' = TRUE /\ seen' = TRUE
  /\ UNCHANGED <<marks, recording, drawing, pc, full, switching, missed, keys>>

TimeoutEnds ==
  /\ pc = "look" /\ display_timeout /\ ~recording
  /\ display_timeout' = FALSE
  /\ UNCHANGED <<marks, recording, was_recording, drawing, pc, full, switching, history>>

LookAtMarks ==
  /\ pc = "look" /\ ~display_timeout /\ ~recording
  /\ was_recording \/ gui_oldConfig # gui_selectConfig
  /\ full' = Full
  /\ pc' = "draw"
  /\ UNCHANGED <<marks, recording, was_recording, display_timeout, drawing, switching, history>>

\* renderFull, or renderSelection on what is there; both draw the list of selections.
renderSelectionList ==
  /\ pc = "draw"
  /\ canvas' = IF full THEN Menu(currConfig, gui_selectConfig)
               ELSE [canvas EXCEPT !.selected = gui_selectConfig]
  /\ pc' = "send"
  /\ UNCHANGED <<marks, recording, was_recording, display_timeout, screen, full, switching, history>>

SendCanvas ==
  /\ pc = "send"
  /\ screen' = canvas
  /\ pc' = "mark"
  /\ UNCHANGED <<marks, recording, was_recording, display_timeout, canvas, full, switching, history>>

MarkDrawn ==
  /\ pc = "mark"
  /\ gui_oldConfig' = gui_selectConfig
  /\ pc' = "reset"
  /\ UNCHANGED <<gui_selectConfig, currConfig, recording, was_recording, display_timeout, drawing,
                 full, switching, history>>

ResetRecording ==
  /\ pc = "reset"
  /\ was_recording' = FALSE
  /\ pc' = "look"
  /\ UNCHANGED <<marks, recording, display_timeout, drawing, full, switching, history>>

-----------------------------------------------------------------------------
(* The keys' thread.                                                           *)
Key == keys < MaxKeys /\ keys' = keys + 1 /\ ~switching

\* Upwards and downwards the selection goes round.
Moved(change) ==
  IF change = 0 THEN 0 ELSE (gui_selectConfig + change) % (numConfigs + 1)

gui_selectChange(change) ==
  /\ Key
  /\ gui_selectConfig' = Moved(change)
  /\ missed' = (missed \/ (pc \in {"send", "mark"} /\ gui_selectConfig' # gui_selectConfig))
  /\ UNCHANGED <<gui_oldConfig, currConfig, recording, was_recording, display_timeout, drawing,
                 pc, full, switching, seen>>

SwitchConfig ==
  /\ Key
  /\ currConfig' = gui_selectConfig /\ switching' = TRUE
  /\ UNCHANGED <<gui_selectConfig, gui_oldConfig, recording, was_recording, display_timeout,
                 drawing, pc, full, seen, missed>>

\* mainLoop notes afterwards that it has drawn, whatever is noted here.
SwitchDone ==
  /\ switching
  /\ gui_oldConfig' = Redraw /\ switching' = FALSE
  /\ missed' = (missed \/ pc \in {"draw", "send", "mark"})
  /\ UNCHANGED <<gui_selectConfig, currConfig, recording, was_recording, display_timeout, drawing,
                 pc, full, seen, keys>>

\* MR begins, MR again or a G key ends; at the limit of steps X11's thread ends it without a word.
Record ==
  /\ Key
  /\ recording' = ~recording
  /\ seen' = (recording /\ seen)
  /\ missed' = (missed \/ (recording /\ ~seen))
  /\ \/ canvas' = Message(gui_selectConfig) /\ screen' = canvas'
     \/ recording /\ UNCHANGED drawing
  /\ UNCHANGED <<marks, was_recording, display_timeout, pc, full, switching>>

Next == \/ LookAtRecording \/ TimeoutEnds \/ LookAtMarks \/ renderSelectionList \/ SendCanvas
        \/ MarkDrawn \/ ResetRecording
        \/ \E change \in {-1, 0, 1} : gui_selectChange(change)
        \/ SwitchConfig \/ SwitchDone \/ Record

Spec == Init /\ [][Next]_vars

-----------------------------------------------------------------------------
(* When mainLoop has nothing left to draw, the panel shows the menu with the   *)
(* configuration in use and the one selected, but where a key fell between     *)
(* drawing and noting it drawn, or a recording was over before mainLoop looked. *)
MenuShown ==
  pc = "look" /\ ~switching /\ ~recording /\ ~was_recording /\ gui_oldConfig = gui_selectConfig
    => missed \/ screen = Menu(currConfig, gui_selectConfig)

-----------------------------------------------------------------------------
\* Why: what is drawn is a whole menu, of the configuration in use but while that is
\* being switched.
Whole(c) == c = Menu(c.current, c.selected)
Current == switching \/ canvas.current = currConfig

TypeOK ==
  /\ gui_selectConfig \in 0..numConfigs /\ pc \in {"look", "draw", "send", "mark", "reset"}
  /\ canvas = [what |-> canvas.what, current |-> canvas.current, selected |-> canvas.selected]

\* A recording that mainLoop has seen is waited for.
Waited == recording /\ seen => pc = "look" /\ was_recording

\* The panel shows what was noted as drawn, or all will be drawn.
Noted == \/ gui_oldConfig = Redraw
         \/ screen = canvas /\ Whole(canvas) /\ canvas.selected = gui_oldConfig /\ Current

Drawn ==
  /\ pc = "look" => was_recording \/ Noted
  /\ pc = "draw" => full \/ (canvas.what = "menu" /\ Current)
  /\ pc \in {"send", "mark"} => Whole(canvas) /\ canvas.selected = gui_selectConfig /\ Current
  /\ pc = "mark" => screen = canvas
  /\ pc = "reset" => Noted

IInv == TypeOK /\ Waited /\ (missed \/ recording \/ Drawn)
=============================================================================
