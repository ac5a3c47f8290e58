---------------------------- MODULE MacroClient ----------------------------
(* The macro client: logitools-macro.c and fileHandling.c. Three threads share *)
(* the macros in memory, the recording under way and the files: "L" takes the  *)
(* keyboard's own keys from the daemon, "X" the user's typing from X11, and    *)
(* "main" cleans up in the end. What main draws before is in MacroMenu.        *)
EXTENDS Integers, Sequences, FiniteSets

CONSTANTS GKeys,        \* keys that carry macros
          Strokes,      \* key presses and releases that X11 reports
          Lines,        \* the lines of multipleConfigs.cfg, by their kind
          MaxConfigs,   \* MAX_CONFIGS
          NPalettes,    \* palettes of mstates, 3
          MaxSteps,     \* MAX_KEYSTEPS
          MaxKeys,      \* bound: keys that L handles, scrolling apart
          MaxStrokes    \* bound: strokes that X records

ASSUME SizesAssumption ==
  /\ GKeys # {} /\ Strokes # {}
  /\ Lines \in Seq(STRING)
  /\ {MaxConfigs, NPalettes, MaxSteps} \subseteq Nat \ {0}

VARIABLES mkey_state, mled_state,        \* palette in use, and the one lit
          recording, rec_index, table,   \* the recording under way
          macros, exec,                  \* mstates: key sequences, and keys with a program
          file,                          \* what each configuration's file holds
          currConfig, configpath, freed, \* configuration in use, file to save to
          gui_selectConfig,               \* the one the menu has marked
          config_mutex, leaving,
          pc, keystate, save,            \* per thread: place, key, save under way
          unsaved,                       \* configurations whose last save could not open the file
          mixed, fault, keys, strokes

memory == <<macros, exec>>
tape == <<recording, rec_index, table>>
lit == <<mkey_state, mled_state>>
place == <<currConfig, configpath, freed>>
files == <<file, unsaved>>
budget == <<keys, strokes>>
vars == <<lit, tape, memory, files, place, gui_selectConfig, config_mutex, leaving,
          pc, keystate, save, mixed, fault, budget>>

Threads == {"L", "X", "main"}
Palettes == 0..NPalettes - 1
NoThread == "none"
Blank == "blank"                     \* an entry of the table cleared by memset
NoKeys == [p \in Palettes |-> [g \in GKeys |-> <<>>]]
NoPrograms == [p \in Palettes |-> {}]
Macros == [Palettes -> [GKeys -> UNION {[1..n -> Strokes \cup {Blank}] : n \in 0..MaxSteps}]]

(* loadMultiConfig: the default configuration is number 0; each line names one *)
(* more, unless it is a comment, too long or names no file, or the table is    *)
(* full, which ends the reading. A blank line still holds its newline: it      *)
(* names the directory of the configurations, which opens for reading too.     *)
Counted == {n \in DOMAIN Lines : Lines[n] \in {"name", "blank"}}
loadMultiConfig ==
  IF Cardinality(Counted) < MaxConfigs THEN Cardinality(Counted) ELSE MaxConfigs - 1
numConfigs == loadMultiConfig
Configs == 0..numConfigs
IsDirectory(c) == \E n \in Counted : /\ Lines[n] = "blank"
                                    /\ Cardinality({m \in Counted : m <= n}) = c

(* A file's version is 0 when it says none, as every file that dump_config     *)
(* wrote. Only files written by hand have another one, and programs to run.    *)
Supported == 2
Files == [version : 0..Supported + 1, macros : Macros, exec : [Palettes -> SUBSET GKeys]]
Truncated == [version |-> 0, macros |-> NoKeys, exec |-> NoPrograms]

\* restore_config: versions 0 and 2 have a reader each, version 1 has none.
Restored(f) == IF f.version = 1 THEN NoKeys ELSE f.macros
RestoredExec(f) == IF f.version = 2 THEN f.exec ELSE NoPrograms

Idle == [path |-> 0, orig |-> 0, buf |-> NoKeys, ret |-> "idle"]

\* A file that the user wrote: a macro for each key of the first palette, and programs.
Written(v) == [version |-> v,
               macros |-> [NoKeys EXCEPT ![0] = [g \in GKeys |-> <<CHOOSE k \in Strokes : TRUE>>]],
               exec |-> [NoPrograms EXCEPT ![0] = IF v = 2 THEN GKeys ELSE {}]]

Init ==
  /\ mkey_state = 0 /\ mled_state = 0
  /\ recording = FALSE /\ rec_index = 0 /\ table = [i \in 1..MaxSteps |-> Blank]
  /\ macros = NoKeys /\ exec = NoPrograms
  /\ file \in {[c \in Configs |-> IF c = 0 THEN Truncated ELSE Written(v)] : v \in 1..Supported + 1}
  /\ currConfig = 0 /\ configpath = 0 /\ freed = FALSE
  /\ gui_selectConfig = 0
  /\ config_mutex = NoThread /\ leaving = FALSE
  /\ pc = [t \in Threads |-> IF t = "L" THEN "poll" ELSE "idle"] /\ keystate \in GKeys
  /\ save = [t \in Threads |-> Idle]
  /\ unsaved = {} /\ mixed = FALSE /\ fault = FALSE /\ keys = 0 /\ strokes = 0

Goto(t, l) == pc' = [pc EXCEPT ![t] = l]
Again == IF leaving THEN "ended" ELSE "poll"     \* where L goes after a key
Fault == /\ fault' = TRUE
         /\ UNCHANGED <<lit, tape, memory, files, place, gui_selectConfig, config_mutex,
                                      leaving, pc, keystate, save, budget>>

-----------------------------------------------------------------------------
(* save_macros, called by every thread: the file is emptied first, written     *)
(* under config_mutex through a buffer, and the buffer goes out at fclose.     *)
(* dump_config walks the palettes with the global mkey_state. When the file    *)
(* cannot be opened nothing is written, and nobody is told but the terminal.   *)
StartSave(t, c, ret) ==
  /\ save' = [save EXCEPT ![t] = [Idle EXCEPT !.path = c, !.ret = ret]]
  /\ Goto(t, "open")

SaveReturns(t) ==
  /\ Goto(t, IF t = "L" /\ save[t].ret = "idle" THEN Again ELSE save[t].ret)
  /\ save' = [save EXCEPT ![t] = Idle]

SaveOpen(t) ==
  /\ pc[t] = "open" /\ ~IsDirectory(save[t].path)
  /\ file' = [file EXCEPT ![save[t].path] = Truncated]
  /\ unsaved' = unsaved \ {save[t].path}
  /\ Goto(t, "lock")
  /\ UNCHANGED <<lit, tape, memory, place, gui_selectConfig, config_mutex, leaving, keystate, save,
                 fault, budget>>

SaveOpenFails(t) ==
  /\ pc[t] = "open"
  /\ unsaved' = unsaved \cup {save[t].path}
  /\ SaveReturns(t)
  /\ UNCHANGED <<lit, tape, memory, file, place, gui_selectConfig, config_mutex, leaving, keystate,
                 fault, budget>>

DumpBegin(t) ==
  /\ pc[t] = "lock" /\ config_mutex = NoThread
  /\ config_mutex' = t
  /\ save' = [save EXCEPT ![t].orig = mkey_state]
  /\ mkey_state' = 0
  /\ Goto(t, "dump")
  /\ UNCHANGED <<mled_state, tape, memory, files, place, gui_selectConfig, leaving, keystate, fault, budget>>

DumpPalette(t) ==
  /\ pc[t] = "dump" /\ mkey_state \in Palettes
  /\ save' = [save EXCEPT ![t].buf[mkey_state] = macros[mkey_state]]
  /\ mkey_state' = mkey_state + 1
  /\ UNCHANGED <<mled_state, tape, memory, files, place, gui_selectConfig, config_mutex, leaving, pc,
                 keystate, fault, budget>>

\* Mutant: the palette stays where the walk ended.
DumpEndAway(t) ==
  /\ pc[t] = "dump" /\ mkey_state \notin Palettes
  /\ mkey_state' = 0
  /\ config_mutex' = NoThread
  /\ Goto(t, "close")
  /\ UNCHANGED <<mled_state, tape, memory, files, place, gui_selectConfig, leaving, keystate, save,
                 fault, budget>>

DumpEnd(t) ==
  /\ pc[t] = "dump" /\ mkey_state \notin Palettes
  /\ mkey_state' = save[t].orig
  /\ config_mutex' = NoThread
  /\ Goto(t, "close")
  /\ UNCHANGED <<mled_state, tape, memory, files, place, gui_selectConfig, leaving, keystate, save,
                 fault, budget>>

SaveClose(t) ==
  /\ pc[t] = "close"
  /\ file' = [file EXCEPT ![save[t].path] = [Truncated EXCEPT !.macros = save[t].buf]]
  /\ SaveReturns(t)
  /\ UNCHANGED <<lit, tape, memory, unsaved, place, gui_selectConfig, config_mutex, leaving, keystate,
                 fault, budget>>

Save(t) == SaveOpen(t) \/ SaveOpenFails(t) \/ DumpBegin(t) \/ DumpPalette(t) \/ DumpEnd(t) \/ SaveClose(t)

-----------------------------------------------------------------------------
(* Lkeys_thread. leaving is looked at after each key and each time poll gives  *)
(* up; a key that comes in between is still handled.                           *)
PollTimesOut ==
  /\ pc["L"] = "poll" /\ leaving
  /\ Goto("L", "ended")
  /\ UNCHANGED <<lit, tape, memory, files, place, gui_selectConfig, config_mutex, leaving, keystate, save,
                 fault, budget>>

Press == pc["L"] = "poll" /\ keys < MaxKeys /\ keys' = keys + 1

\* handle_mkey_switch: neither the palette nor the light is under a mutex.
PressM(m) ==
  /\ Press
  /\ mled_state' = m
  /\ Goto("L", "switch")
  /\ UNCHANGED <<mkey_state, tape, memory, files, place, gui_selectConfig, config_mutex, leaving, keystate,
                 save, fault, strokes>>

handle_mkey_switch ==
  /\ pc["L"] = "switch"
  /\ mkey_state' = mled_state
  /\ IF recording THEN Goto("L", "reset") /\ save' = [save EXCEPT !["L"].ret = "idle"]
     ELSE Goto("L", Again) /\ UNCHANGED save
  /\ UNCHANGED <<mled_state, tape, memory, files, place, gui_selectConfig, config_mutex, leaving, keystate,
                 fault, budget>>

PressMR ==
  /\ Press
  /\ IF recording
     THEN /\ Goto("L", "reset") /\ save' = [save EXCEPT !["L"].ret = "idle"]
          /\ UNCHANGED recording
     ELSE recording' = TRUE /\ Goto("L", "clear") /\ UNCHANGED save
  /\ UNCHANGED <<lit, rec_index, table, memory, files, place, gui_selectConfig, config_mutex, leaving,
                 keystate, fault, strokes>>

\* The table is cleared when the keyboard is grabbed already.
ClearTable ==
  /\ pc["L"] = "clear"
  /\ table' = [i \in 1..MaxSteps |-> Blank]
  /\ Goto("L", Again)
  /\ UNCHANGED <<lit, recording, rec_index, memory, files, place, gui_selectConfig, config_mutex, leaving,
                 keystate, save, fault, budget>>

PressG(g) ==
  /\ Press
  /\ keystate' = g
  /\ Goto("L", IF recording THEN "complete" ELSE "check")
  /\ UNCHANGED <<lit, tape, memory, files, place, gui_selectConfig, config_mutex, leaving, save, fault, strokes>>

(* Two G keys at once pass the comparison with G1 and G18 and are no key of    *)
(* map_gkey: record_complete then writes before the first entry.               *)
PressTwo ==
  /\ Press
  /\ fault' = recording
  /\ Goto("L", Again)
  /\ UNCHANGED <<lit, tape, memory, files, place, gui_selectConfig, config_mutex, leaving, keystate, save, strokes>>

\* record_complete up to its unlock.
Complete ==
  /\ pc["L"] = "complete" /\ config_mutex = NoThread
  /\ macros' = [macros EXCEPT ![mkey_state][keystate] = SubSeq(table, 1, rec_index)]
  /\ save' = [save EXCEPT !["L"].ret = "save"]
  /\ Goto("L", "reset")
  /\ UNCHANGED <<lit, tape, exec, files, place, gui_selectConfig, config_mutex, leaving, keystate, fault, budget>>

\* record_cleanup: the index goes back before the recording is over.
ResetIndex ==
  /\ pc["L"] = "reset"
  /\ rec_index' = 0
  /\ Goto("L", "stop")
  /\ UNCHANGED <<lit, recording, table, memory, files, place, gui_selectConfig, config_mutex, leaving,
                 keystate, save, fault, budget>>

StopRecording ==
  /\ pc["L"] = "stop"
  /\ recording' = FALSE
  /\ IF save["L"].ret = "save" THEN StartSave("L", configpath, "idle")
     ELSE Goto("L", Again) /\ UNCHANGED save
  /\ UNCHANGED <<lit, rec_index, table, memory, files, place, gui_selectConfig, config_mutex, leaving,
                 keystate, fault, budget>>

(* macro_playback looks at the macro before it takes the mutex, with whatever  *)
(* mkey_state is then; past the last palette it reads beyond mstates.          *)
CheckMacro ==
  /\ pc["L"] = "check"
  /\ IF mkey_state \notin Palettes THEN Fault
     ELSE /\ Goto("L", IF macros[mkey_state][keystate] = <<>> /\ keystate \notin exec[mkey_state]
                       THEN Again ELSE "play")
          /\ UNCHANGED <<lit, tape, memory, files, place, gui_selectConfig, config_mutex, leaving, keystate,
                         save, fault, budget>>

PlayBegin ==
  /\ pc["L"] = "play" /\ config_mutex = NoThread
  /\ config_mutex' = "L"
  /\ Goto("L", "playing")
  /\ UNCHANGED <<lit, tape, memory, files, place, gui_selectConfig, leaving, keystate, save, fault, budget>>

(* runFile: when the program cannot be run, the child goes through cleanup: it *)
(* empties the file of the configuration and waits for ever for config_mutex,  *)
(* which its copy of the thread that forked it holds.                          *)
RunFails ==
  /\ pc["L"] = "playing" /\ keystate \in exec[mkey_state] /\ ~freed
  /\ file' = [file EXCEPT ![currConfig] = Truncated]
  /\ UNCHANGED <<lit, tape, memory, unsaved, place, gui_selectConfig, config_mutex, leaving, pc, keystate, save,
                 fault, budget>>

PlayEnd ==
  /\ pc["L"] = "playing"
  /\ config_mutex' = NoThread
  /\ Goto("L", Again)
  /\ UNCHANGED <<lit, tape, memory, files, place, gui_selectConfig, leaving, keystate, save, fault, budget>>

\* gui_selectChange: L2 goes to the default, L3 up and L4 down, around the ends.
gui_selectChange(change) ==
  IF change = 0 THEN 0
  ELSE IF gui_selectConfig = 0 /\ change < 0 THEN numConfigs
  ELSE IF gui_selectConfig + change > numConfigs THEN 0
  ELSE gui_selectConfig + change

PressScroll(change) ==
  /\ pc["L"] = "poll"
  /\ gui_selectConfig' = gui_selectChange(change)
  /\ Goto("L", Again)
  /\ UNCHANGED <<lit, tape, memory, files, place, config_mutex, leaving, keystate, save, fault, budget>>

\* L5: the old configuration is saved, forgotten, and the selected one read.
PressL5 ==
  /\ Press
  /\ IF freed THEN Goto("L", Again) /\ fault' = TRUE /\ UNCHANGED save
     ELSE StartSave("L", currConfig, "clean") /\ UNCHANGED fault
  /\ UNCHANGED <<lit, tape, memory, files, place, gui_selectConfig, config_mutex, leaving, keystate, strokes>>

cleanMstates ==
  /\ pc["L"] = "clean" /\ config_mutex = NoThread
  /\ macros' = NoKeys /\ exec' = NoPrograms
  /\ Goto("L", "select")
  /\ UNCHANGED <<lit, tape, files, place, gui_selectConfig, config_mutex, leaving, keystate, save, fault, budget>>

SelectConfig ==
  /\ pc["L"] = "select"
  /\ currConfig' = gui_selectConfig
  /\ fault' = freed
  /\ Goto("L", "restore")
  /\ UNCHANGED <<lit, tape, memory, files, configpath, freed, gui_selectConfig, config_mutex, leaving, keystate, save, budget>>

(* identify_configver meets a version that is newer: it calls cleanup with the *)
(* mutex held, whose save empties that file and waits for the mutex; when the  *)
(* file can only be read, the names are freed and X is waited for.             *)
TooNew == file[currConfig].version > Supported

\* Mutant: the file is read before the configuration was changed.
restore_configOld ==
  /\ pc["L"] = "restore" /\ config_mutex = NoThread /\ ~TooNew /\ ~IsDirectory(currConfig)
  /\ macros' = Restored(file[configpath]) /\ exec' = RestoredExec(file[configpath])
  /\ Goto("L", "path")
  /\ UNCHANGED <<lit, tape, files, place, gui_selectConfig, config_mutex, leaving, keystate, save, fault, budget>>

restore_config ==
  /\ pc["L"] = "restore" /\ config_mutex = NoThread /\ ~TooNew /\ ~IsDirectory(currConfig)
  /\ macros' = Restored(file[currConfig]) /\ exec' = RestoredExec(file[currConfig])
  /\ Goto("L", "path")
  /\ UNCHANGED <<lit, tape, files, place, gui_selectConfig, config_mutex, leaving, keystate, save, fault, budget>>

\* Reading a directory gives no line and no end: identify_configver goes round for ever.
RestoreHangs ==
  /\ pc["L"] = "restore" /\ config_mutex = NoThread /\ IsDirectory(currConfig)
  /\ config_mutex' = "L"
  /\ Goto("L", "hung")
  /\ UNCHANGED <<lit, tape, memory, files, place, gui_selectConfig, leaving, keystate, save, fault, budget>>

RefuseConfig ==
  /\ pc["L"] = "restore" /\ config_mutex = NoThread /\ TooNew /\ ~IsDirectory(currConfig)
  /\ config_mutex' = "L"
  /\ recording' = FALSE /\ configpath' = currConfig
  /\ StartSave("L", currConfig, "free")
  /\ UNCHANGED <<lit, rec_index, table, memory, files, currConfig, freed, gui_selectConfig, leaving,
                 keystate, fault, budget>>

SetConfigpath ==
  /\ pc["L"] = "path"
  /\ IF freed THEN Fault
     ELSE /\ configpath' = currConfig
                  /\ Goto("L", Again)
          /\ UNCHANGED <<lit, tape, memory, files, currConfig, freed, gui_selectConfig, config_mutex, leaving, keystate, save, fault, budget>>

Handle == \/ PollTimesOut \/ handle_mkey_switch \/ ClearTable \/ Complete \/ ResetIndex \/ StopRecording
          \/ CheckMacro \/ PlayBegin \/ PlayEnd \/ cleanMstates \/ SelectConfig
          \/ restore_config \/ RestoreHangs \/ RefuseConfig \/ SetConfigpath

Keyed == \/ PressMR \/ PressTwo \/ PressL5 \/ RunFails
         \/ \E m \in Palettes : PressM(m)
         \/ \E g \in GKeys : PressG(g)
         \/ \E change \in {-1, 0, 1} : PressScroll(change)

-----------------------------------------------------------------------------
(* xevent_thread and xkey_handler. The stroke is stored before the index is    *)
(* compared: one past the table it is written to whatever lies there, which    *)
(* nobody may miss, or which may end the program.                              *)
Stroke(k) ==
  /\ pc["X"] = "idle" /\ ~leaving
  /\ IF recording
     THEN /\ strokes < MaxStrokes /\ strokes' = strokes + 1
          /\ table' = [i \in 1..MaxSteps |-> IF i = rec_index + 1 THEN k ELSE table[i]]
          /\ fault' \in (IF rec_index < MaxSteps THEN {fault} ELSE BOOLEAN)
          /\ Goto("X", "count") /\ UNCHANGED rec_index
     ELSE rec_index' = 0 /\ UNCHANGED <<table, fault, pc, strokes>>
  /\ UNCHANGED <<lit, recording, memory, files, place, gui_selectConfig, config_mutex, leaving, keystate,
                 save, keys>>

CountStroke ==
  /\ pc["X"] = "count"
  /\ IF rec_index < MaxSteps
     THEN rec_index' = rec_index + 1 /\ Goto("X", "idle") /\ UNCHANGED <<recording, save>>
     ELSE rec_index' = 0 /\ recording' = FALSE /\ StartSave("X", configpath, "idle")
  /\ UNCHANGED <<lit, table, memory, files, place, gui_selectConfig, config_mutex, leaving, keystate,
                 fault, budget>>

\* Mutant: a recording is waited for, and main has ended it before L began one.
EndXRecorded ==
  /\ pc["X"] = "idle" /\ leaving /\ ~recording /\ Goto("X", "ended")
  /\ UNCHANGED <<lit, tape, memory, files, place, gui_selectConfig, config_mutex, leaving, keystate,
                 save, fault, budget>>

EndX ==
  /\ pc["X"] = "idle" /\ leaving /\ Goto("X", "ended")
  /\ UNCHANGED <<lit, tape, memory, files, place, gui_selectConfig, config_mutex, leaving, keystate, save,
                 fault, budget>>

-----------------------------------------------------------------------------
g15macro_sighandler ==
  /\ ~leaving /\ leaving' = TRUE
  /\ UNCHANGED <<lit, tape, memory, files, place, gui_selectConfig, config_mutex, pc, keystate, save,
                 fault, budget>>

\* cleanup: the names of the configurations go before the threads are joined.
cleanup ==
  /\ pc["main"] = "idle" /\ leaving
  /\ IF freed THEN Fault
     ELSE /\ recording' = FALSE
          /\ configpath' = currConfig
          /\ StartSave("main", currConfig, "free")
          /\ UNCHANGED <<lit, rec_index, table, memory, files, currConfig, freed, gui_selectConfig,
                         config_mutex, leaving, keystate, fault, budget>>

\* Each name is freed and then forgotten: two at once may free it twice.
FreeConfigs(t) ==
  /\ pc[t] = "free"
  /\ freed' = TRUE
  /\ fault' \in (IF \E u \in Threads \ {t} : pc[u] = "free" THEN BOOLEAN ELSE {fault})
  /\ Goto(t, "join")
  /\ UNCHANGED <<lit, tape, memory, files, currConfig, configpath, gui_selectConfig, config_mutex, leaving,
                 keystate, save, budget>>

\* The macros are freed then, and nobody is left to use them.
JoinThreads ==
  /\ pc["main"] = "join" /\ pc["X"] = "ended" /\ pc["L"] = "ended"
  /\ Goto("main", "ended")
  /\ UNCHANGED <<lit, tape, memory, files, place, gui_selectConfig, config_mutex, leaving, keystate, save,
                 fault, budget>>

-----------------------------------------------------------------------------
(* mixed: from here on a save of X or main has met one of the few steps of L   *)
(* that it cannot bear, for nothing keeps them apart: L changes the palette    *)
(* that the dump walks with; records a macro, or reads the file back, between  *)
(* the dump and fclose; forgets the macros that are still to be dumped; or the *)
(* save begins when what is in memory is not what the path stands for.         *)
Saving(t) == pc[t] \in {"open", "lock", "dump", "close"}
Gone == {"select", "restore", "hung"}        \* no configuration is in memory
Leaves(l) == pc["L"] = l /\ pc'["L"] # l
MixesUp ==
  \E t \in {"X", "main"} :
    \/ pc[t] = "dump" /\ Leaves("switch")
    \/ pc[t] = "close" /\ save[t].path = currConfig /\ (Leaves("complete") \/ Leaves("restore"))
    \/ pc[t] \in {"open", "lock"} /\ Leaves("clean")
    \/ pc[t] # "open" /\ pc'[t] = "open" /\ pc["L"] \in Gone \cup (IF t = "X" THEN {"path"} ELSE {})
LatchMixed == mixed' = (mixed \/ MixesUp)

MainStep == cleanup \/ FreeConfigs("main") \/ JoinThreads \/ Save("main")
XStep == CountStroke \/ EndX \/ Save("X")
LStep == Handle \/ Save("L") \/ FreeConfigs("L")

Next == /\ ~fault
        /\ LStep \/ Keyed \/ XStep \/ MainStep \/ g15macro_sighandler
           \/ \E k \in Strokes : Stroke(k)
        /\ LatchMixed

\* Whenever some thread can go on, one of them does.
Fairness == WF_vars(~fault /\ (LStep \/ XStep \/ MainStep) /\ LatchMixed)
Spec == Init /\ [][Next]_vars /\ Fairness

-----------------------------------------------------------------------------
\* Types; the palette is past the last one only while somebody dumps.
TypeOK ==
  /\ mkey_state \in 0..NPalettes /\ mled_state \in Palettes
  /\ recording \in BOOLEAN /\ rec_index \in 0..MaxSteps
  /\ table \in [1..MaxSteps -> Strokes \cup {Blank}]
  /\ macros \in Macros /\ exec \in [Palettes -> SUBSET GKeys]
  /\ file \in [Configs -> Files]
  /\ currConfig \in Configs /\ configpath \in Configs /\ freed \in BOOLEAN
  /\ gui_selectConfig \in Configs
  /\ config_mutex \in Threads \cup {NoThread}
  /\ unsaved \subseteq Configs
  /\ keystate \in GKeys /\ leaving \in BOOLEAN /\ mixed \in BOOLEAN /\ fault \in BOOLEAN
  /\ \A t \in Threads : save[t].path \in Configs /\ save[t].orig \in 0..NPalettes

(* The macros of a configuration: in memory while it is in use, else what a    *)
(* save that is about to end brings to its file, else what the file would give.*)
(* Between cleanMstates and restore_config none is in memory.                  *)
InMemory(c) == c = currConfig /\ pc["L"] \notin Gone
Closing(c) == {t \in Threads : pc[t] = "close" /\ save[t].path = c}
Stored(c) == IF InMemory(c) THEN macros
             ELSE IF Closing(c) # {} THEN save[CHOOSE t \in Closing(c) : TRUE].buf
             ELSE Restored(file[c])

(* Recording changes the macro of one key of the configuration in use;         *)
(* switching, saving and playing change none of any configuration, and what    *)
(* was recorded under one is never found under another, while the user's       *)
(* typing and the end of the program save at any moment. Excepted are a file   *)
(* that is too new, what the flag mixed stands for, and what is forgotten      *)
(* after its file could not be opened for saving.                              *)
Refusing == (pc["L"] \in {"open", "lock"} /\ config_mutex = "L") \/ pc["L"] \in {"free", "join"}
MacrosKept ==
  [][\/ mixed' \/ Refusing'
     \/ \A c \in Configs : Stored(c)' = Stored(c)
     \/ /\ Complete \/ (cleanMstates /\ currConfig \in unsaved)
        /\ \A c \in Configs \ {currConfig} : Stored(c)' = Stored(c)]_vars

(* While L handles no key, the file of the configuration in use holds what is  *)
(* in memory, later saves go to it, and the palette of the lit M key is used.  *)
(* Excepted are a file that could not be opened for saving, and one that the   *)
(* child of a program that cannot run has emptied.                             *)
Emptied == file[currConfig] = Truncated /\ exec # NoPrograms
SavedAtRest ==
  /\ TypeOK
  /\ ~mixed /\ pc["L"] \in {"poll", "ended"} /\ ~Saving("X") /\ ~Saving("main")
       => /\ configpath = currConfig /\ mkey_state = mled_state
          /\ \/ Restored(file[currConfig]) = macros
             \/ Emptied \/ currConfig \in unsaved

(* A signal ends the program: both threads come out of what they are in, and   *)
(* are joined; but for a file that is too new, whose refusal waits for itself, *)
(* for a blank line that was selected, and for memory that was freed or        *)
(* overrun.                                                                    *)
EndComes == leaving ~> pc["main"] = "ended" \/ fault \/ Refusing \/ pc["L"] = "hung"

=============================================================================
