------------------------------- MODULE Daemon -------------------------------
(* The daemon from start to end, over several lives: main() of main.c, the     *)
(* pid file and the configuration file of utility_funcs.c, the plugin loader   *)
(* of logitools_plugins.c, and the settings that the clock plugin keeps in the *)
(* configuration. Processes are numbered in the order in which they start, and *)
(* a number is the process' pid. The configuration's linked lists are in       *)
(* Config; here a section is what it holds.                                    *)
EXTENDS Integers, SequencesExt

CONSTANTS Files,       \* what may be in the plugin directory
          Libraries,   \* the files that open but hold no plugin
          Broken,      \* the files that do not open
          Clock,       \* the clock plugin's file
          Settings,    \* of the clock: 24hrFormat, ShowDate, Digital
          MaxProcs,    \* bound: processes started
          MaxEvents    \* bound: edits, keys, signals and crashes

ASSUME FilesAssumption ==
  IsFiniteSet(Files) /\ Files \cap {"/", "missing"} = {} /\ MaxProcs \in Nat

VARIABLES pidfile, written,      \* who made /var/run/g15daemon.pid, and whether the pid is in it
          kind, pc, found,       \* per process: what it does, where it is, what it read
          conf, mem,             \* the configuration: in the file, and in each process
          dir,                   \* the plugin directory
          loaded,                \* per process: the threads it started for each plugin
          clock, shown, touched, \* per process: the clock's thread, its settings, whether keys changed them
          together, torn, wish, left, edits, events   \* history and bounds

files == <<pidfile, written>>
memory == <<mem, loaded, clock, shown, touched>>
history == <<together, torn, wish, left, edits>>
vars == <<files, kind, pc, found, conf, dir, memory, history, events>>

Procs == 1..MaxProcs
N == Cardinality(Files)
Missing == "missing"                     \* a key that the configuration does not hold
Old == "/"                               \* a file name of an older version: a whole path
Default(s) == IF s = "ShowDate" THEN "Off" ELSE "On"
Defaults == [s \in Settings |-> Default(s)]
EmptyConf == [order |-> [i \in 0..N-1 |-> Missing], total |-> -1, disabled |-> {},
              clock |-> [s \in Settings |-> Missing]]
Reordered(c, o, n) == [order |-> o, total |-> n, disabled |-> c.disabled, clock |-> c.clock]
OldConf == Reordered(EmptyConf, [EmptyConf.order EXCEPT ![0] = Old], N)
NoThreads == [f \in Files |-> 0]
Alive(p) == p \in Procs /\ pc[p] \notin {"unborn", "dead"}
Starting == {"look", "judge", "attach", "look2", "judge2", "create", "write"}
Serving == {"write", "conf", "load", "install", "ready", "asleep", "awake",
            "save", "truncate", "fill"}

Init ==
  /\ pidfile = 0 /\ written = FALSE
  /\ kind = [p \in Procs |-> "daemon"] /\ pc = [p \in Procs |-> "unborn"]
  /\ found = [p \in Procs |-> 0]
  /\ mem = [p \in Procs |-> EmptyConf]
  /\ \/ conf = EmptyConf /\ dir = Files \ (Broken \cup Libraries)
     \/ conf = OldConf /\ dir = Files
  /\ loaded = [p \in Procs |-> NoThreads]
  /\ clock = [p \in Procs |-> "none"] /\ touched = [p \in Procs |-> FALSE]
  /\ shown = [p \in Procs |-> Defaults]
  /\ together = FALSE /\ torn = FALSE /\ wish = <<>> /\ edits = 0
  /\ left = Defaults /\ events = 0

Goto(p, l) == pc' = [pc EXCEPT ![p] = l]
Dies(p) ==        \* what a process knew goes with it
  /\ Goto(p, "dead")
  /\ mem' = [mem EXCEPT ![p] = EmptyConf] /\ loaded' = [loaded EXCEPT ![p] = NoThreads]
  /\ clock' = [clock EXCEPT ![p] = "none"] /\ shown' = [shown EXCEPT ![p] = Defaults]
  /\ touched' = [touched EXCEPT ![p] = FALSE]
Event == events < MaxEvents /\ events' = events + 1
Listed(c) == {c.order[i] : i \in 0..c.total-1}
Lacks(c) == Missing \in Listed(c)        \* a list that is shorter than its number says
Complete(c) == c.total = Cardinality(dir) /\ Listed(c) = dir

-----------------------------------------------------------------------------
(* Starting, or asking with -k, -K, -v or -h: all of them call uf_return_running. *)
Start(p, k) ==
  /\ pc[p] = "unborn" /\ \A q \in Procs : q < p => pc[q] # "unborn"
  /\ kind' = [kind EXCEPT ![p] = k]
  /\ Goto(p, "look")
  /\ together' = (together \/ \E q \in Procs \ {p} : pc[q] \in Starting)
  /\ UNCHANGED <<files, found, conf, dir, memory, torn, wish, left, edits, events>>

\* uf_return_running opens the file and reads it: nothing yet in it reads as -1.
Look(p) ==
  /\ pc[p] \in {"look", "look2"}
  /\ found' = [found EXCEPT ![p] = IF pidfile # 0 /\ ~written THEN -1 ELSE pidfile]
  /\ Goto(p, IF pc[p] = "look" THEN "judge" ELSE "judge2")
  /\ UNCHANGED <<files, kind, conf, dir, memory, history, events>>

\* Mutant: the file is removed also when the process it names is there.
JudgeHard(p, running) ==
  IF found[p] = 0 THEN ~running /\ UNCHANGED files
  ELSE running = Alive(found[p]) /\ pidfile' = 0 /\ written' = FALSE

(* The file is removed by its name when it is corrupt or names no process; an  *)
(* empty file leaves the buffer as it was, any number may stand there.         *)
Judge(p, running) ==
  IF found[p] = 0 THEN ~running /\ UNCHANGED files
  ELSE IF found[p] > 0 /\ Alive(found[p]) THEN running /\ UNCHANGED files
  ELSE IF running THEN found[p] = -1 /\ UNCHANGED files
  ELSE pidfile' = 0 /\ written' = FALSE

(* The first look decides: a daemon that finds another ends. What -k and -K    *)
(* find they send a signal, which Signal and Crash do.                         *)
FirstJudged(p, running) ==
  /\ pc[p] = "judge"
  /\ Judge(p, running)
  /\ found' = [found EXCEPT ![p] = 0]
  /\ kind' = [kind EXCEPT ![p] = "daemon"]
  /\ Goto(p, IF running \/ kind[p] = "ask" THEN "dead" ELSE "attach")
  /\ UNCHANGED <<conf, dir, memory, history, events>>

\* initLibG15, and daemon(), which goes on in a child.
Attach(p) ==
  /\ pc[p] = "attach"
  /\ Goto(p, "look2") \/ Goto(p, "dead")
  /\ UNCHANGED <<files, kind, found, conf, dir, memory, history, events>>

\* uf_create_pidfile looks again, but what it finds does not keep it from going on.
SecondJudged(p, running) ==
  /\ pc[p] = "judge2"
  /\ Judge(p, running)
  /\ found' = [found EXCEPT ![p] = 0]
  /\ Goto(p, "create")
  /\ UNCHANGED <<kind, conf, dir, memory, history, events>>

CreatePidfile(p) ==
  /\ pc[p] = "create"
  /\ IF pidfile = 0 THEN pidfile' = p /\ written' = FALSE /\ Goto(p, "write")
     ELSE Goto(p, "dead") /\ UNCHANGED files
  /\ UNCHANGED <<kind, found, conf, dir, memory, history, events>>

\* The pid goes into the file that was created, whatever its name stands for now.
WritePidfile(p) ==
  /\ pc[p] = "write"
  /\ written' = (written \/ pidfile = p)
  /\ Goto(p, "conf")
  /\ UNCHANGED <<pidfile, kind, found, conf, dir, memory, history, events>>

-----------------------------------------------------------------------------
(* Configuration and plugins. When one of the two threads does not start, the  *)
(* daemon goes to its end.                                                     *)
ConfOpen(p) ==
  /\ pc[p] = "conf"
  /\ mem' = [mem EXCEPT ![p] = conf]
  /\ Goto(p, "load") \/ Goto(p, "save")
  /\ UNCHANGED <<files, kind, found, conf, dir, loaded, clock, shown, touched, history, events>>

Loadable(c) == {f \in dir \ (Libraries \cup Broken) : f \notin c.disabled}

(* g15_plugin_load answers -1 for a library and for a disabled plugin; a file  *)
(* that does not open counts as loaded, if the daemon lives to count it.       *)
Counts(c, f) == f \notin Libraries /\ (f \in Broken \/ f \notin c.disabled)
Counted(c) == {f \in dir : Counts(c, f)}

\* g15_open_all_plugins on the directory: the load order is written anew.
Rebuilt(c, names) ==
  Reordered(c, [i \in 0..N-1 |-> IF i < Len(names) THEN names[i+1] ELSE c.order[i]], Len(names))

\* Mutant: the load order is built anew at each start.
MustRebuildAlways(c) == TRUE
MustRebuild(c) == dir # {} /\ (c.total = -1 \/ c.total # Cardinality(dir) \/ c.order[0] = Old)

\* The files that are tried, in turn: those that count in readdir's order, or the configuration's.
Names(c) == IF MustRebuild(c) THEN SetToSeqs(Counted(c))
            ELSE {[i \in 1..Cardinality(dir) |-> c.order[i-1]]}
Tries(names, f) == Cardinality({i \in DOMAIN names : names[i] = f})

LoadAll(p, names) ==
  /\ pc[p] = "load" /\ names \in Names(mem[p])
  /\ mem' = IF MustRebuild(mem[p]) THEN [mem EXCEPT ![p] = Rebuilt(mem[p], names)] ELSE mem
  /\ loaded' = [loaded EXCEPT ![p] = [f \in Files |-> IF f \in Loadable(mem[p]) THEN Tries(names, f) ELSE 0]]
  /\ clock' = [clock EXCEPT ![p] = IF Clock \in ToSet(names) \cap Loadable(mem[p]) THEN "init" ELSE "none"]
  /\ Goto(p, "install")
  /\ UNCHANGED <<files, kind, found, conf, dir, shown, touched, history, events>>

\* dlclose is given the NULL of a file that did not open.
LoadDies(p) ==
  /\ pc[p] = "load"
  /\ \E names \in Names(mem[p]) : ToSet(names) \ (dir \ Broken) # {}
  /\ Dies(p)
  /\ UNCHANGED <<files, kind, found, conf, dir, history, events>>

-----------------------------------------------------------------------------
(* The clock plugin: its thread reads the settings, and writes the defaults of *)
(* those that are missing; the keyboard thread calls its event handler.        *)
Value(c, s) == IF c.clock[s] = Missing THEN Default(s) ELSE c.clock[s]
Other(v) == IF v = "On" THEN "Off" ELSE "On"

myinithandler(p) ==
  /\ Alive(p) /\ clock[p] = "init"
  /\ mem' = [mem EXCEPT ![p].clock = [s \in Settings |-> Value(mem[p], s)]]
  /\ shown' = [shown EXCEPT ![p] = [s \in Settings |-> Value(mem[p], s)]]
  /\ clock' = [clock EXCEPT ![p] = "loop"]
  /\ UNCHANGED <<files, kind, pc, found, conf, dir, loaded, touched, history, events>>

\* Mutant: the configuration gets the setting as it was.
ToggledLate(p, s) == /\ shown' = [shown EXCEPT ![p][s] = Other(@)]
                     /\ mem' = [mem EXCEPT ![p].clock[s] = shown[p][s]]
Toggled(p, s) == /\ shown' = [shown EXCEPT ![p][s] = Other(@)]
                 /\ mem' = [mem EXCEPT ![p].clock[s] = Other(shown[p][s])]

\* A key may come before the thread has read the settings: that is the node's first screen.
myeventhandler(p, s) ==
  /\ pc[p] \in {"install", "ready", "asleep", "awake"} /\ clock[p] \in {"init", "loop"}
  /\ Event
  /\ Toggled(p, s)
  /\ touched' = [touched EXCEPT ![p] = TRUE]
  /\ UNCHANGED <<files, kind, pc, found, conf, dir, loaded, clock, history>>

-----------------------------------------------------------------------------
(* Signals, and the end. Before sigaction they kill. One that comes before     *)
(* pause() leaves main() asleep, until the next one comes.                     *)
InstallHandlers(p) ==
  /\ pc[p] = "install"
  /\ Goto(p, "ready")
  /\ UNCHANGED <<files, kind, found, conf, dir, memory, history, events>>

Pause(p) ==
  /\ pc[p] = "ready"
  /\ Goto(p, "asleep")
  /\ UNCHANGED <<files, kind, found, conf, dir, memory, history, events>>

Signal(p) ==
  /\ pc[p] = "asleep"
  /\ Goto(p, "awake")
  /\ UNCHANGED <<files, kind, found, conf, dir, memory, history, events>>

\* The two threads are joined, the panel is blanked, the list of screens is freed.
Teardown(p) ==
  /\ pc[p] = "awake"
  /\ Goto(p, "save")
  /\ UNCHANGED <<files, kind, found, conf, dir, memory, history, events>>

(* uf_conf_write reads the sections through the list: after Teardown that is   *)
(* freed memory, and the daemon may end there. A file that does not open stays *)
(* as it is. left notes what the file is to say of the clock.                  *)
ConfTruncate(p) ==
  /\ pc[p] = "save"
  /\ \/ /\ conf' = EmptyConf /\ Goto(p, "fill") /\ UNCHANGED memory
        /\ left' = IF clock[p] = "loop" THEN shown[p]
                   ELSE IF touched[p] \/ torn THEN [s \in Settings |-> Value(mem[p], s)]
                   ELSE left
     \/ Dies(p) /\ UNCHANGED <<conf, left>>
  /\ UNCHANGED <<files, kind, found, dir, together, torn, wish, edits, events>>

\* The list names every plugin that counts, and no file that is gone.
Current(c) == Counted(c) \subseteq Listed(c) /\ Listed(c) \subseteq dir

(* The lines are all written. The file that is removed then is not the pid     *)
(* file, which stays. A list that the user ordered stays his.                  *)
ConfFill(p) ==
  /\ pc[p] = "fill"
  /\ conf' = mem[p] /\ torn' = FALSE
  /\ wish' = IF wish = <<>> /\ Complete(mem[p]) THEN <<mem[p].order>> ELSE wish
  /\ edits' = IF Current(mem[p]) THEN 0 ELSE edits
  /\ Dies(p)
  /\ UNCHANGED <<files, kind, found, dir, together, left, events>>

(* Each line is a write() of its own, in the order of the lists, which is the  *)
(* order that the user's file had: an end in between leaves any of the lines.  *)
Partly(c, I, t, d, S) ==
  [order |-> [i \in 0..N-1 |-> IF i \in I THEN c.order[i] ELSE Missing], total |-> t, disabled |-> d,
   clock |-> [s \in Settings |-> IF s \in S THEN c.clock[s] ELSE Missing]]

(* kill -9, or an early signal. Files stay as they are, the configuration with *)
(* the lines that were written; a plugin that is enabled by the loss of its    *)
(* line is a change, and the user's order may be lost.                         *)
Crash(p) ==
  /\ pc[p] \in Serving /\ Event
  /\ IF pc[p] = "fill"
     THEN /\ \E I \in SUBSET (0..N-1), t \in {-1, mem[p].total}, d \in SUBSET mem[p].disabled,
            S \in SUBSET Settings : conf' = Partly(mem[p], I, t, d, S)
          /\ torn' = TRUE /\ wish' = <<>>
          /\ edits' = IF conf'.disabled = mem[p].disabled THEN edits ELSE edits + 1
     ELSE UNCHANGED <<conf, torn, wish, edits>>
  /\ Dies(p)
  /\ UNCHANGED <<files, kind, found, dir, together, left>>

-----------------------------------------------------------------------------
(* The user edits the configuration or the plugin directory between two lives. *)
Edit(d, c) ==
  /\ \A p \in Procs : ~Alive(p)
  /\ Event
  /\ dir' = d /\ conf' = c
  /\ UNCHANGED <<files, kind, pc, found, memory, together, torn, left>>

EditPlugins ==
  \E f \in Files :
    /\ \/ Edit(IF f \in dir THEN dir \ {f} ELSE dir \cup {f}, conf)
       \/ Edit(dir, [conf EXCEPT !.disabled = IF f \in @ THEN @ \ {f} ELSE @ \cup {f}])
    /\ edits' = edits + 1
    /\ wish' = <<>>

EditOrder ==
  /\ Complete(conf) /\ conf.total > 1
  /\ Edit(dir, Reordered(conf, [conf.order EXCEPT ![0] = conf.order[1], ![1] = conf.order[0]],
                          conf.total))
  /\ wish' = <<conf'.order>>
  /\ UNCHANGED edits

-----------------------------------------------------------------------------
Life(p) ==
  \/ Look(p) \/ Attach(p) \/ CreatePidfile(p) \/ WritePidfile(p)
  \/ \E running \in BOOLEAN : FirstJudged(p, running) \/ SecondJudged(p, running)
  \/ ConfOpen(p) \/ (\E names \in Names(mem[p]) : LoadAll(p, names)) \/ LoadDies(p)
  \/ InstallHandlers(p) \/ Pause(p) \/ Teardown(p) \/ ConfTruncate(p) \/ ConfFill(p)
  \/ myinithandler(p)

World(p) ==
  \/ \E k \in {"daemon", "ask"} : Start(p, k)
  \/ Signal(p) \/ Crash(p) \/ \E s \in Settings : myeventhandler(p, s)

\* Bound: nothing is promised after two looked together, and what they do then is left out.
Next ==
  /\ ~together
  /\ \/ \E p \in Procs : Life(p) \/ World(p)
     \/ EditPlugins
     \/ EditOrder

Spec == Init /\ [][Next]_vars

-----------------------------------------------------------------------------
(* Types of the daemon's lives: uf_return_running reads an empty file, no file *)
(* or a number of a process that was started before.                           *)
TypeOK ==
  /\ pidfile \in 0..MaxProcs /\ written \in BOOLEAN
  /\ kind \in [Procs -> {"daemon", "ask"}]
  /\ pc \in [Procs -> {"unborn", "dead"} \cup Starting \cup Serving]
  /\ found \in [Procs -> -1..MaxProcs]
  /\ \A p \in Procs : {conf.total, mem[p].total} \subseteq -1..N
  /\ dir \subseteq Files
  /\ clock \in [Procs -> {"none", "init", "loop"}]
  /\ shown \in [Procs -> [Settings -> {"On", "Off"}]]
  /\ torn \in BOOLEAN

(* Two daemons never serve at once, over crashes, pid files that stayed, and   *)
(* any number of starts, unless two processes looked at the pid file together: *)
(* uf_return_running removes a file by its name after it looked at another.    *)
OneDaemon == together \/ Cardinality({p \in Procs : pc[p] \in Serving}) <= 1

(* A daemon that serves has started each plugin that is there and enabled      *)
(* once, read from the directory or from the configuration's load order, over  *)
(* crashes and any one change of the directory or the configuration since a    *)
(* daemon saved an order that named what was there. After two changes the same *)
(* number of files may hide others. A list that an end in the middle of saving *)
(* left with its number but without some of its lines is not built anew when   *)
(* the number fits: then it is each plugin that it still names.                *)
LoadsAll ==
  \A p \in Procs : pc[p] \in {"install", "ready", "asleep", "awake"} =>
    \/ together \/ edits > 1
    \/ \A f \in Files : loaded[p][f] =
         IF f \in Loadable(mem[p]) /\ (Lacks(mem[p]) => f \in Listed(mem[p])) THEN 1 ELSE 0

(* Where all plugins load, the load order of the configuration is the user's:  *)
(* no daemon's save changes it, but one that is cut short.                     *)
OrderKept ==
  \/ together \/ wish = <<>> \/ (\E p \in Procs : pc[p] = "fill")
  \/ conf.order = wish[1]

(* What the plugin loader promises: both, over all the lives.                  *)
PluginsKept == TypeOK /\ LoadsAll /\ OrderKept

(* The clock comes back as the last daemon left it when it saved; after an end *)
(* in the middle of saving each setting is as it was left, or its default.     *)
ClockRemembers ==
  \A p \in Procs : clock[p] = "loop" /\ ~touched[p] =>
    together \/ \A s \in Settings : shown[p][s] = left[s] \/ (torn /\ shown[p][s] = Default(s))
=============================================================================
