---------------------------- MODULE DaemonProofs ----------------------------
(***************************************************************************)
(* Proofs about Daemon for any number of processes, lives and plugins: the *)
(* pid file lets one daemon serve, the clock's settings come back, and the  *)
(* plugin loader keeps what it promises.                                   *)
(***************************************************************************)
EXTENDS Daemon, FiniteSetTheorems, TLAPS

Places == {"unborn", "dead"} \cup Starting \cup Serving

PidTypes ==
  /\ pc \in [Procs -> Places]
  /\ found \in [Procs -> Int]
  /\ pidfile \in Int

\* Between the first look of one process and the file with its pid no other looks.
OneStarts ==
  \A p, q \in Procs : pc[p] \in Starting /\ pc[q] \in Starting => p = q

\* The pid file is the serving daemon's, from before it can be read.
FileServes ==
  \A p \in Procs : pc[p] \in Serving => pidfile = p /\ (pc[p] = "write" \/ written)

\* While a daemon serves, who looked has found it, and nobody gets past that.
OthersFind ==
  \A p, q \in Procs : p # q /\ pc[p] \in Serving =>
    /\ pc[q] \notin {"attach", "look2", "judge2", "create"}
    /\ pc[q] = "judge" => found[q] = p

IInv == PidTypes /\ (together \/ (OneStarts /\ FileServes /\ OthersFind))

USE DEF Procs, Starting, Serving, Places, Alive, Goto, files, memory, history

-----------------------------------------------------------------------------
LEMMA InitInvariant == Init => IInv
<1> SUFFICES ASSUME Init PROVE IInv
  OBVIOUS
<1>1. /\ pidfile = 0 /\ written = FALSE
      /\ pc = [p \in Procs |-> "unborn"] /\ found = [p \in Procs |-> 0]
  BY DEF Init
<1>2. QED
  BY <1>1 DEF IInv, PidTypes, OneStarts, FileServes, OthersFind

LEMMA StartKeeps ==
  ASSUME IInv, ~together, NEW p \in Procs, NEW k, Start(p, k)
  PROVE  IInv'
<1> USE DEF Start
<1>1. PidTypes' BY DEF IInv, PidTypes
<1>2. CASE together' BY <1>1, <1>2 DEF IInv
<1>3. CASE ~together'
  <2>1. \A q \in Procs : pc'[q] = IF q = p THEN "look" ELSE pc[q]
    BY DEF IInv, PidTypes
  <2>2. \A q \in Procs : q # p => pc[q] \notin Starting
    BY <1>3
  <2>3. OneStarts' BY <2>1, <2>2 DEF OneStarts
  <2>4. FileServes' BY <2>1 DEF IInv, FileServes
  <2>5. OthersFind' BY <2>1 DEF IInv, OthersFind
  <2>6. QED BY <1>1, <2>3, <2>4, <2>5 DEF IInv
<1>4. QED BY <1>2, <1>3

LEMMA LookKeeps ==
  ASSUME IInv, ~together, NEW p \in Procs, Look(p)
  PROVE  IInv'
<1> USE DEF IInv, Look
<1>1. PidTypes'
  <2>1. PidTypes OBVIOUS
  <2>2. found'[p] \in Int BY <2>1 DEF PidTypes
  <2>3. QED BY <2>1, <2>2 DEF PidTypes
<1>2. OneStarts' BY DEF PidTypes, OneStarts
<1>3. FileServes' BY DEF PidTypes, FileServes
<1>4. OthersFind' BY DEF PidTypes, OneStarts, FileServes, OthersFind
<1>5. QED BY <1>1, <1>2, <1>3, <1>4

\* A look that found a daemon ends the process, and any other finds that none serves.
LEMMA FirstKeeps ==
  ASSUME IInv, ~together, NEW p \in Procs, NEW running \in BOOLEAN, FirstJudged(p, running)
  PROVE  IInv'
<1> USE DEF IInv, FirstJudged, Judge
<1>1. PidTypes'
  <2>1. pidfile' \in Int BY DEF PidTypes
  <2>2. found' \in [Procs -> Int] BY DEF PidTypes
  <2>3. pc' \in [Procs -> Places] BY DEF PidTypes
  <2>4. QED BY <2>1, <2>2, <2>3 DEF PidTypes
<1>2. OneStarts' BY DEF PidTypes, OneStarts
<1>3. CASE \E q \in Procs : pc[q] \in Serving
  <2>1. PICK q \in Procs : pc[q] \in Serving BY <1>3
  <2>2. p # q BY <2>1
  <2>3. found[p] = q BY <2>1, <2>2 DEF OthersFind
  <2>4. found[p] > 0 /\ Alive(found[p]) BY <2>1, <2>3
  <2>5. running /\ UNCHANGED files BY <2>4
  <2>6. pc' = [pc EXCEPT ![p] = "dead"] BY <2>5
  <2>7. FileServes' BY <2>5, <2>6 DEF PidTypes, FileServes
  <2>8. OthersFind' BY <2>5, <2>6 DEF PidTypes, OthersFind
  <2>9. QED BY <1>1, <1>2, <2>7, <2>8
<1>4. CASE ~ \E q \in Procs : pc[q] \in Serving
  <2>1. \A q \in Procs : pc'[q] \notin Serving BY <1>4 DEF PidTypes
  <2>2. QED BY <1>1, <1>2, <2>1 DEF FileServes, OthersFind
<1>5. QED BY <1>3, <1>4

LEMMA AttachKeeps ==
  ASSUME IInv, ~together, NEW p \in Procs, Attach(p)
  PROVE  IInv'
<1> USE DEF IInv, Attach
<1>1. PidTypes' BY DEF PidTypes
<1>2. OneStarts' BY DEF PidTypes, OneStarts
<1>3. \A q \in Procs : pc[q] \notin Serving
  BY DEF OthersFind
<1>4. \A q \in Procs : pc'[q] \notin Serving
  BY <1>3 DEF PidTypes
<1>5. QED BY <1>1, <1>2, <1>4 DEF FileServes, OthersFind

LEMMA SecondKeeps ==
  ASSUME IInv, ~together, NEW p \in Procs, NEW running \in BOOLEAN, SecondJudged(p, running)
  PROVE  IInv'
<1> USE DEF IInv, SecondJudged, Judge
<1>1. PidTypes'
  <2>1. pidfile' \in Int BY DEF PidTypes
  <2>2. found' \in [Procs -> Int] BY DEF PidTypes
  <2>3. pc' \in [Procs -> Places] BY DEF PidTypes
  <2>4. QED BY <2>1, <2>2, <2>3 DEF PidTypes
<1>2. OneStarts' BY DEF PidTypes, OneStarts
<1>3. \A q \in Procs : pc[q] \notin Serving
  BY DEF OthersFind
<1>4. \A q \in Procs : pc'[q] \notin Serving
  BY <1>3 DEF PidTypes
<1>5. QED BY <1>1, <1>2, <1>4 DEF FileServes, OthersFind

LEMMA CreateKeeps ==
  ASSUME IInv, ~together, NEW p \in Procs, CreatePidfile(p)
  PROVE  IInv'
<1> USE DEF IInv, CreatePidfile
<1>1. PidTypes'
  <2>1. pidfile' \in Int BY DEF PidTypes
  <2>2. pc' \in [Procs -> Places] BY DEF PidTypes
  <2>3. QED BY <2>1, <2>2 DEF PidTypes
<1>2. OneStarts' BY DEF PidTypes, OneStarts
<1>3. \A q \in Procs : pc[q] \notin Serving
  BY DEF OthersFind
<1>4. FileServes' BY <1>3 DEF PidTypes, FileServes
<1>5. \A q \in Procs : q # p => pc[q] \notin Starting
  BY DEF OneStarts
<1>6. OthersFind'
  <2>1. \A q \in Procs : q # p => pc'[q] = pc[q] BY DEF PidTypes
  <2>2. QED BY <1>3, <1>5, <2>1 DEF OthersFind
<1>7. QED BY <1>1, <1>2, <1>4, <1>6

LEMMA WriteKeeps ==
  ASSUME IInv, ~together, NEW p \in Procs, WritePidfile(p)
  PROVE  IInv'
<1> USE DEF IInv, WritePidfile
<1>1. PidTypes' BY DEF PidTypes
<1>2. OneStarts' BY DEF PidTypes, OneStarts
<1>3. FileServes' BY DEF PidTypes, FileServes
<1>4. OthersFind' BY DEF PidTypes, OthersFind
<1>5. QED BY <1>1, <1>2, <1>3, <1>4

\* What a daemon does once its pid is in the file.
LEMMA ServingKeeps ==
  ASSUME IInv, ~together, NEW p \in Procs, NEW l \in Serving \ {"write"},
         pc[p] \in Serving \ {"write"}, pc' = [pc EXCEPT ![p] = l],
         UNCHANGED <<pidfile, written, found, together>>
  PROVE  IInv'
<1> USE DEF IInv
<1>1. PidTypes' BY DEF PidTypes
<1>2. OneStarts' BY DEF PidTypes, OneStarts
<1>3. FileServes' BY DEF PidTypes, FileServes
<1>4. OthersFind' BY DEF PidTypes, OthersFind
<1>5. QED BY <1>1, <1>2, <1>3, <1>4

\* Its end at any moment: the pid file stays.
LEMMA DiesKeeps ==
  ASSUME IInv, ~together, NEW p \in Procs, pc' = [pc EXCEPT ![p] = "dead"],
         UNCHANGED <<pidfile, written, found, together>>
  PROVE  IInv'
<1> USE DEF IInv
<1>1. PidTypes' BY DEF PidTypes
<1>2. OneStarts' BY DEF PidTypes, OneStarts
<1>3. FileServes' BY DEF PidTypes, FileServes
<1>4. OthersFind' BY DEF PidTypes, OthersFind
<1>5. QED BY <1>1, <1>2, <1>3, <1>4

LEMMA PlaceKeeps ==
  ASSUME IInv, UNCHANGED <<pc, pidfile, written, found, together>>
  PROVE  IInv'
  BY DEF IInv, PidTypes, OneStarts, FileServes, OthersFind

LEMMA LifeKeeps ==
  ASSUME IInv, ~together, NEW p \in Procs, Life(p)
  PROVE  IInv'
<1>1. CASE Look(p) BY <1>1, LookKeeps
<1>2. CASE Attach(p) BY <1>2, AttachKeeps
<1>3. CASE CreatePidfile(p) BY <1>3, CreateKeeps
<1>4. CASE WritePidfile(p) BY <1>4, WriteKeeps
<1>5. CASE \E running \in BOOLEAN : FirstJudged(p, running) \/ SecondJudged(p, running)
  BY <1>5, FirstKeeps, SecondKeeps
<1>6. CASE ConfOpen(p)
  <2>1. CASE pc' = [pc EXCEPT ![p] = "load"] BY <1>6, <2>1, ServingKeeps DEF ConfOpen
  <2>2. CASE pc' = [pc EXCEPT ![p] = "save"] BY <1>6, <2>2, ServingKeeps DEF ConfOpen
  <2>3. QED BY <1>6, <2>1, <2>2 DEF ConfOpen
<1>7. CASE \E names \in Names(mem[p]) : LoadAll(p, names)
  BY <1>7, ServingKeeps DEF LoadAll
<1>8. CASE LoadDies(p)
  <2>1. pc' = [pc EXCEPT ![p] = "dead"] BY <1>8 DEF LoadDies, Dies
  <2>2. UNCHANGED <<pidfile, written, found, together>> BY <1>8 DEF LoadDies
  <2>3. QED BY <2>1, <2>2, DiesKeeps
<1>9. CASE InstallHandlers(p) BY <1>9, ServingKeeps DEF InstallHandlers
<1>10. CASE Pause(p) BY <1>10, ServingKeeps DEF Pause
<1>11. CASE Teardown(p) BY <1>11, ServingKeeps DEF Teardown
<1>12. CASE ConfTruncate(p)
  <2>1. pc[p] \in Serving \ {"write"} /\ UNCHANGED <<pidfile, written, found, together>>
    BY <1>12 DEF ConfTruncate
  <2>2. CASE pc' = [pc EXCEPT ![p] = "fill"] BY <2>1, <2>2, ServingKeeps
  <2>3. CASE pc' = [pc EXCEPT ![p] = "dead"] BY <2>1, <2>3, DiesKeeps
  <2>4. QED BY <1>12, <2>2, <2>3 DEF ConfTruncate, Dies
<1>13. CASE ConfFill(p)
  <2>1. pc' = [pc EXCEPT ![p] = "dead"] BY <1>13 DEF ConfFill, Dies
  <2>2. UNCHANGED <<pidfile, written, found, together>> BY <1>13 DEF ConfFill
  <2>3. QED BY <2>1, <2>2, DiesKeeps
<1>14. CASE myinithandler(p) BY <1>14, PlaceKeeps DEF myinithandler
<1>15. QED
  BY <1>1, <1>2, <1>3, <1>4, <1>5, <1>6, <1>7, <1>8, <1>9, <1>10, <1>11, <1>12, <1>13, <1>14 DEF Life

LEMMA WorldKeeps ==
  ASSUME IInv, ~together, NEW p \in Procs, World(p)
  PROVE  IInv'
<1>1. CASE \E k \in {"daemon", "ask"} : Start(p, k) BY <1>1, StartKeeps
<1>2. CASE Signal(p) BY <1>2, ServingKeeps DEF Signal
<1>3. CASE Crash(p)
  <2>1. pc' = [pc EXCEPT ![p] = "dead"] BY <1>3 DEF Crash, Dies
  <2>2. UNCHANGED <<pidfile, written, found, together>> BY <1>3 DEF Crash
  <2>3. QED BY <2>1, <2>2, DiesKeeps
<1>4. CASE \E s \in Settings : myeventhandler(p, s) BY <1>4, PlaceKeeps DEF myeventhandler
<1>5. QED BY <1>1, <1>2, <1>3, <1>4 DEF World

LEMMA StepKeeps == IInv /\ [Next]_vars => IInv'
<1> SUFFICES ASSUME IInv, [Next]_vars PROVE IInv'
  OBVIOUS
<1>1. CASE UNCHANGED vars BY <1>1, PlaceKeeps DEF vars
<1>2. ASSUME ~together, NEW p \in Procs, Life(p) PROVE IInv' BY <1>2, LifeKeeps
<1>3. ASSUME ~together, NEW p \in Procs, World(p) PROVE IInv' BY <1>3, WorldKeeps
<1>4. CASE EditPlugins BY <1>4, PlaceKeeps DEF EditPlugins, Edit
<1>5. CASE EditOrder BY <1>5, PlaceKeeps DEF EditOrder, Edit
<1>6. QED BY <1>1, <1>2, <1>3, <1>4, <1>5 DEF Next

THEOREM Invariant == Spec => []IInv
<1>1. QED BY StepKeeps, InitInvariant, PTL DEF Spec

LEMMA AtMostOne ==
  ASSUME NEW S, \A p, q \in S : p = q
  PROVE  Cardinality(S) <= 1
<1>1. CASE S = {}
  BY <1>1, FS_EmptySet
<1>2. CASE S # {}
  <2>1. PICK p \in S : TRUE BY <1>2
  <2>2. S = {p} BY <2>1
  <2>3. Cardinality({p}) = 1 BY FS_Singleton
  <2>4. QED BY <2>2, <2>3
<1>3. QED BY <1>1, <1>2

(* Two daemons never serve at once, for any number of processes that start, ask, *)
(* crash and leave their files behind, unless two were looking at the pid file   *)
(* together (uf_return_running, uf_create_pidfile).                              *)
THEOREM OneDaemonServes == Spec => []OneDaemon
<1>1. IInv => OneDaemon
  <2> SUFFICES ASSUME IInv, ~together PROVE OneDaemon
    BY DEF OneDaemon
  <2>1. \A p, q \in {r \in Procs : pc[r] \in Serving} : p = q
    BY DEF IInv, FileServes
  <2>2. QED BY <2>1, AtMostOne DEF OneDaemon
<1>2. QED BY <1>1, Invariant, PTL

-----------------------------------------------------------------------------
\* A configuration's record, and the settings that it holds of the clock's.
Known(c) ==
  /\ c = [order |-> c.order, total |-> c.total, disabled |-> c.disabled, clock |-> c.clock]
  /\ c.clock \in [Settings -> {"On", "Off", Missing}]

ClockTypes ==
  /\ Known(conf)
  /\ mem = [q \in Procs |-> mem[q]] /\ \A q \in Procs : Known(mem[q])
  /\ clock \in [Procs -> {"none", "init", "loop"}]
  /\ touched \in [Procs -> BOOLEAN]
  /\ shown \in [Procs -> [Settings -> {"On", "Off"}]]
  /\ left \in [Settings -> {"On", "Off"}]

\* The places of a daemon that has read the configuration.
Holding == {"load", "install", "ready", "asleep", "awake", "save", "fill"}

\* The clock's thread runs in no other process.
ClockLives ==
  \A p \in Procs : pc[p] \notin Holding => clock[p] = "none" /\ ~touched[p]

\* Its settings are those in memory, once it has read them.
ClockShows ==
  \A p \in Procs : clock[p] = "loop" => \A s \in Settings : mem[p].clock[s] = shown[p][s]

\* Until a key is pressed the memory says what was left, and so does the file, but
\* while a daemon fills it; what an end in the middle of that lost has its default.
Says(c) == \A s \in Settings : Value(c, s) = left[s] \/ (torn /\ Value(c, s) = Default(s))
MemoryLeft == \A p \in Procs : pc[p] \in Holding /\ ~touched[p] => Says(mem[p])
FillLeft == \A p \in Procs : pc[p] = "fill" => \A s \in Settings : Value(mem[p], s) = left[s]
FileLeft == (\E p \in Procs : pc[p] = "fill") \/ Says(conf)

ClockInv == /\ ClockTypes
            /\ together \/ (ClockLives /\ ClockShows /\ MemoryLeft /\ FillLeft /\ FileLeft)

LEMMA KnownReordered ==
  ASSUME NEW c, Known(c), NEW o, NEW n
  PROVE  Known(Reordered(c, o, n)) /\ Reordered(c, o, n).clock = c.clock
  BY DEF Known, Reordered

LEMMA KnownDisabled ==
  ASSUME NEW c, Known(c), NEW d
  PROVE  Known([c EXCEPT !.disabled = d]) /\ [c EXCEPT !.disabled = d].clock = c.clock
  BY DEF Known

LEMMA KnownClock ==
  ASSUME NEW c, Known(c), NEW k \in [Settings -> {"On", "Off", Missing}]
  PROVE  Known([c EXCEPT !.clock = k]) /\ [c EXCEPT !.clock = k].clock = k
  BY DEF Known

LEMMA KnownStart ==
  /\ Known(EmptyConf) /\ Known(OldConf)
  /\ \A s \in Settings : EmptyConf.clock[s] = Missing /\ OldConf.clock[s] = Missing
<1>1. Known(EmptyConf) BY DEF Known, EmptyConf
<1>2. EmptyConf.clock = [s \in Settings |-> Missing] BY DEF EmptyConf
<1>3. Known(OldConf) /\ OldConf.clock = EmptyConf.clock BY <1>1, KnownReordered DEF OldConf
<1>4. QED BY <1>1, <1>2, <1>3

LEMMA ValueKnown ==
  ASSUME NEW c, Known(c), NEW s \in Settings
  PROVE  /\ Value(c, s) \in {"On", "Off"}
         /\ c.clock[s] # Missing => Value(c, s) = c.clock[s]
  BY DEF Known, Value, Default, Missing

LEMMA SameClock ==
  ASSUME NEW c, NEW d, c.clock = d.clock, NEW s \in Settings
  PROVE  Value(c, s) = Value(d, s)
  BY DEF Value

\* A daemon that serves is the only one.
LEMMA OnlyServes ==
  ASSUME IInv, ~together, NEW p \in Procs, NEW q \in Procs,
         pc[p] \in Serving, pc[q] \in Serving
  PROVE  p = q
  BY DEF IInv, FileServes

USE DEF Holding

LEMMA InitClock == Init => ClockInv
<1> SUFFICES ASSUME Init PROVE ClockInv
  OBVIOUS
<1>1. /\ pc = [p \in Procs |-> "unborn"] /\ mem = [p \in Procs |-> EmptyConf]
      /\ clock = [p \in Procs |-> "none"] /\ touched = [p \in Procs |-> FALSE]
      /\ shown = [p \in Procs |-> Defaults] /\ left = Defaults
  BY DEF Init
<1>2. conf = EmptyConf \/ conf = OldConf BY DEF Init
<1>3. Defaults \in [Settings -> {"On", "Off"}] BY DEF Defaults, Default
<1>4. ClockTypes BY <1>1, <1>2, <1>3, KnownStart DEF ClockTypes
<1>5. FileLeft
  <2>1. ASSUME NEW s \in Settings PROVE Value(conf, s) = left[s]
    <3>1. conf.clock[s] = Missing BY <1>2, KnownStart
    <3>2. QED BY <3>1, <1>1 DEF Value, Defaults
  <2>2. QED BY <2>1 DEF FileLeft, Says
<1>6. QED BY <1>1, <1>4, <1>5 DEF ClockInv, ClockLives, ClockShows, MemoryLeft, FillLeft

\* A step of the start, a signal, or a step that waits.
LEMMA MoveKeeps ==
  ASSUME ClockInv, UNCHANGED <<conf, mem, clock, shown, touched, left, torn>>,
         together => together',
         \A q \in Procs : /\ pc'[q] \in Holding <=> pc[q] \in Holding
                          /\ pc'[q] = "fill" <=> pc[q] = "fill"
  PROVE  ClockInv'
<1>1. ClockTypes' BY DEF ClockInv, ClockTypes, Known
<1>2. CASE together' BY <1>1, <1>2 DEF ClockInv
<1>3. CASE ~together'
  <2>1. ClockLives' BY <1>3 DEF ClockInv, ClockLives
  <2>2. ClockShows' BY <1>3 DEF ClockInv, ClockShows
  <2>3. MemoryLeft' BY <1>3 DEF ClockInv, MemoryLeft, Says, Value
  <2>4. FillLeft' BY <1>3 DEF ClockInv, FillLeft, Value
  <2>5. FileLeft' BY <1>3 DEF ClockInv, FileLeft, Says, Value
  <2>6. QED BY <1>1, <2>1, <2>2, <2>3, <2>4, <2>5 DEF ClockInv
<1>4. QED BY <1>2, <1>3

\* A daemon's end: the file says what was left, or what of it was written.
LEMMA EndKeeps ==
  ASSUME IInv, ClockInv, ~together, NEW p \in Procs, Dies(p),
         UNCHANGED <<left, together>>, Known(conf'),
         \/ pc[p] # "fill" /\ UNCHANGED <<conf, torn>>
         \/ pc[p] \in Serving /\ Says(conf)'
  PROVE  ClockInv'
<1>1. /\ pc' = [pc EXCEPT ![p] = "dead"] /\ mem' = [mem EXCEPT ![p] = EmptyConf]
      /\ clock' = [clock EXCEPT ![p] = "none"] /\ shown' = [shown EXCEPT ![p] = Defaults]
      /\ touched' = [touched EXCEPT ![p] = FALSE]
  BY DEF Dies
<1>2. ClockTypes'
  <2>1. Defaults \in [Settings -> {"On", "Off"}] BY DEF Defaults, Default
  <2>2. shown' \in [Procs -> [Settings -> {"On", "Off"}]] BY <1>1, <2>1 DEF ClockInv, ClockTypes
  <2>3. /\ clock' \in [Procs -> {"none", "init", "loop"}]
        /\ touched' \in [Procs -> BOOLEAN]
        /\ left' \in [Settings -> {"On", "Off"}]
    BY <1>1 DEF ClockInv, ClockTypes
  <2>4. Known(conf') OBVIOUS
  <2>5. mem' = [q \in Procs |-> mem'[q]] BY <1>1 DEF ClockInv, ClockTypes
  <2>6. ASSUME NEW q \in Procs PROVE Known(mem'[q])
    <3>1. mem'[q] = EmptyConf \/ mem'[q] = mem[q] BY <1>1 DEF ClockInv, ClockTypes
    <3>2. QED BY <3>1, KnownStart DEF ClockInv, ClockTypes
  <2>7. QED BY <2>2, <2>3, <2>4, <2>5, <2>6 DEF ClockTypes, Known
<1>3. \A q \in Procs : q # p => mem'[q] = mem[q] /\ clock'[q] = clock[q] /\ shown'[q] = shown[q]
                                /\ touched'[q] = touched[q] /\ pc'[q] = pc[q]
  BY <1>1 DEF ClockInv, ClockTypes, IInv, PidTypes
<1>4. pc'[p] = "dead" /\ clock'[p] = "none" /\ ~touched'[p]
  BY <1>1 DEF ClockInv, ClockTypes, IInv, PidTypes
<1>5. ClockLives' BY <1>3, <1>4 DEF ClockInv, ClockLives
<1>6. ClockShows' BY <1>3, <1>4 DEF ClockInv, ClockShows
<1>7. CASE pc[p] # "fill" /\ UNCHANGED <<conf, torn>>
  <2>1. MemoryLeft' BY <1>3, <1>4, <1>7 DEF ClockInv, MemoryLeft, Says, Value
  <2>2. FillLeft' BY <1>3, <1>4 DEF ClockInv, FillLeft, Value
  <2>3. FileLeft'
    <3>1. \A q \in Procs : pc'[q] = "fill" <=> pc[q] = "fill" BY <1>3, <1>4, <1>7
    <3>2. QED BY <1>7, <3>1 DEF ClockInv, FileLeft, Says, Value
  <2>4. QED BY <1>2, <1>5, <1>6, <2>1, <2>2, <2>3 DEF ClockInv
<1>8. CASE pc[p] \in Serving /\ Says(conf)'
  <2>1. \A q \in Procs : q # p => pc[q] \notin Serving BY <1>8, OnlyServes
  <2>2. MemoryLeft' /\ FillLeft' BY <1>3, <1>4, <2>1 DEF MemoryLeft, FillLeft
  <2>3. FileLeft' BY <1>8 DEF FileLeft
  <2>4. QED BY <1>2, <1>5, <1>6, <2>2, <2>3 DEF ClockInv
<1>9. QED BY <1>7, <1>8

\* The configuration is read when nobody fills the file: the settings are those left.
LEMMA OpenKeepsClock ==
  ASSUME IInv, ClockInv, ~together, NEW p \in Procs, ConfOpen(p)
  PROVE  ClockInv'
<1>1. /\ pc[p] = "conf" /\ mem' = [mem EXCEPT ![p] = conf]
      /\ UNCHANGED <<conf, clock, shown, touched, left, together, torn>>
      /\ \E l \in {"load", "save"} : pc' = [pc EXCEPT ![p] = l]
  BY DEF ConfOpen
<1>2. mem'[p] = conf /\ \A q \in Procs : q # p => mem'[q] = mem[q]
  BY <1>1 DEF ClockInv, ClockTypes
<1>3. pc'[p] \in {"load", "save"} /\ \A q \in Procs : q # p => pc'[q] = pc[q]
  BY <1>1 DEF IInv, PidTypes
<1>4. clock[p] = "none" /\ ~touched[p] BY <1>1 DEF ClockInv, ClockLives
<1>5. ClockTypes'
  <2>1. mem' = [q \in Procs |-> mem'[q]] BY <1>1 DEF ClockInv, ClockTypes
  <2>2. \A q \in Procs : Known(mem'[q]) BY <1>2 DEF ClockInv, ClockTypes
  <2>3. QED BY <1>1, <2>1, <2>2 DEF ClockInv, ClockTypes, Known
<1>6. ClockLives' BY <1>1, <1>3, <1>4 DEF ClockInv, ClockLives
<1>7. ClockShows' BY <1>1, <1>2, <1>4 DEF ClockInv, ClockShows
<1>8. \A q \in Procs : pc[q] # "fill" BY <1>1, OnlyServes
<1>9. FileLeft'
  BY <1>1, <1>8 DEF ClockInv, FileLeft, Says, Value
<1>10. MemoryLeft'
  <2>1. Says(mem'[p])
    BY <1>2, <1>8 DEF ClockInv, FileLeft
  <2>2. QED BY <1>1, <1>2, <1>3, <2>1 DEF ClockInv, MemoryLeft, Says, Value
<1>11. FillLeft' BY <1>3, <1>8 DEF FillLeft
<1>12. QED BY <1>1, <1>5, <1>6, <1>7, <1>9, <1>10, <1>11 DEF ClockInv

\* The load order is none of the clock's settings.
LEMMA LoadKeepsClock ==
  ASSUME IInv, ClockInv, ~together, NEW p \in Procs, NEW names, LoadAll(p, names)
  PROVE  ClockInv'
<1>1. /\ pc[p] = "load" /\ pc' = [pc EXCEPT ![p] = "install"]
      /\ mem' = mem \/ mem' = [mem EXCEPT ![p] = Rebuilt(mem[p], names)]
      /\ \E l \in {"init", "none"} : clock' = [clock EXCEPT ![p] = l]
      /\ UNCHANGED <<conf, shown, touched, left, together, torn>>
  BY DEF LoadAll
<1>2. Known(mem[p]) BY DEF ClockInv, ClockTypes
<1>3. Known(Rebuilt(mem[p], names)) /\ Rebuilt(mem[p], names).clock = mem[p].clock
  BY <1>2, KnownReordered DEF Rebuilt
<1>4. /\ mem' = [q \in Procs |-> mem'[q]]
      /\ \A q \in Procs : Known(mem'[q]) /\ mem'[q].clock = mem[q].clock
  <2>1. CASE mem' = mem BY <2>1 DEF ClockInv, ClockTypes, Known
  <2>2. CASE mem' = [mem EXCEPT ![p] = Rebuilt(mem[p], names)]
    <3>1. mem' = [q \in Procs |-> mem'[q]] BY <2>2 DEF ClockInv, ClockTypes
    <3>2. mem'[p] = Rebuilt(mem[p], names) /\ \A q \in Procs : q # p => mem'[q] = mem[q]
      BY <2>2 DEF ClockInv, ClockTypes
    <3>3. QED BY <1>3, <3>1, <3>2 DEF ClockInv, ClockTypes
  <2>3. QED BY <1>1, <2>1, <2>2
<1>5. pc'[p] = "install" /\ \A q \in Procs : q # p => pc'[q] = pc[q]
  BY <1>1 DEF IInv, PidTypes
<1>6. clock'[p] \in {"init", "none"} /\ \A q \in Procs : q # p => clock'[q] = clock[q]
  BY <1>1 DEF ClockInv, ClockTypes
<1>7. ClockTypes'
  <2>1. clock' \in [Procs -> {"none", "init", "loop"}] BY <1>1 DEF ClockInv, ClockTypes
  <2>2. QED BY <1>1, <1>4, <2>1 DEF ClockInv, ClockTypes, Known
<1>8. ClockLives' BY <1>1, <1>5, <1>6 DEF ClockInv, ClockLives
<1>9. ClockShows' BY <1>1, <1>4, <1>6 DEF ClockInv, ClockShows
<1>10. MemoryLeft' BY <1>1, <1>4, <1>5 DEF ClockInv, MemoryLeft, Says, Value
<1>11. FillLeft' BY <1>1, <1>4, <1>5 DEF ClockInv, FillLeft, Value
<1>12. FileLeft' BY <1>1, <1>5 DEF ClockInv, FileLeft, Says, Value
<1>13. QED BY <1>1, <1>7, <1>8, <1>9, <1>10, <1>11, <1>12 DEF ClockInv

\* The clock's settings change in one process that holds the configuration, and are then
\* what it shows.
LEMMA SettingsKeep ==
  ASSUME IInv, ClockInv, ~together, NEW p \in Procs, pc[p] \in Holding,
         NEW k \in [Settings -> {"On", "Off", Missing}],
         NEW w \in [Settings -> {"On", "Off"}],
         mem' = [mem EXCEPT ![p] = [mem[p] EXCEPT !.clock = k]],
         shown' = [shown EXCEPT ![p] = w],
         \/ touched' = [touched EXCEPT ![p] = TRUE] /\ clock' = clock /\ pc[p] # "fill"
         \/ touched' = touched /\ clock' = [clock EXCEPT ![p] = "loop"]
            /\ \A s \in Settings : k[s] = Value(mem[p], s),
         clock'[p] = "loop" => \A s \in Settings : k[s] = w[s],
         UNCHANGED <<pc, conf, left, together, torn>>
  PROVE  ClockInv'
<1>1. Known(mem[p]) BY DEF ClockInv, ClockTypes
<1>2. Known([mem[p] EXCEPT !.clock = k]) /\ [mem[p] EXCEPT !.clock = k].clock = k
  BY <1>1, KnownClock
<1>3. mem'[p] = [mem[p] EXCEPT !.clock = k] /\ \A q \in Procs : q # p => mem'[q] = mem[q]
  BY DEF ClockInv, ClockTypes
<1>4. shown'[p] = w /\ \A q \in Procs : q # p => shown'[q] = shown[q]
  BY DEF ClockInv, ClockTypes
<1>5. \A q \in Procs : q # p => touched'[q] = touched[q] /\ clock'[q] = clock[q]
  BY DEF ClockInv, ClockTypes
<1>6. ClockTypes'
  <2>1. mem' = [q \in Procs |-> mem'[q]] BY DEF ClockInv, ClockTypes
  <2>2. \A q \in Procs : Known(mem'[q]) BY <1>2, <1>3 DEF ClockInv, ClockTypes
  <2>3. shown' \in [Procs -> [Settings -> {"On", "Off"}]] BY DEF ClockInv, ClockTypes
  <2>4. /\ clock' \in [Procs -> {"none", "init", "loop"}]
        /\ touched' \in [Procs -> BOOLEAN]
    BY DEF ClockInv, ClockTypes
  <2>5. QED BY <2>1, <2>2, <2>3, <2>4 DEF ClockInv, ClockTypes, Known
<1>7. ClockLives' BY <1>5 DEF ClockInv, ClockLives
<1>8. ClockShows'
  <2>1. mem'[p].clock = k BY <1>2, <1>3
  <2>2. clock'[p] = "loop" => \A s \in Settings : mem'[p].clock[s] = shown'[p][s]
    BY <2>1, <1>4, Zenon
  <2>3. QED BY <1>3, <1>4, <1>5, <2>2 DEF ClockInv, ClockShows
<1>9. FileLeft' BY DEF ClockInv, FileLeft, Says, Value
<1>10. (touched'[p] /\ pc[p] # "fill") \/ \A s \in Settings : Value(mem'[p], s) = Value(mem[p], s)
  <2>1. CASE touched' = [touched EXCEPT ![p] = TRUE] /\ pc[p] # "fill"
    BY <2>1 DEF ClockInv, ClockTypes
  <2>2. ASSUME \A s \in Settings : k[s] = Value(mem[p], s), NEW s \in Settings
        PROVE  Value(mem'[p], s) = Value(mem[p], s)
    <3>1. mem'[p].clock[s] = Value(mem[p], s) BY <1>2, <1>3, <2>2
    <3>2. mem'[p].clock[s] # Missing BY <3>1, <1>1, ValueKnown DEF Missing
    <3>3. QED BY <3>1, <3>2 DEF Value
  <2>3. QED BY <2>1, <2>2
<1>11. ASSUME NEW q \in Procs, q # p, NEW s \in Settings
       PROVE  Value(mem'[q], s) = Value(mem[q], s)
  BY <1>3, <1>11
<1>12. MemoryLeft'
  <2>1. touched'[p] \/ ~touched[p] BY DEF ClockInv, ClockTypes
  <2>2. pc[p] \in Holding /\ ~touched'[p] => Says(mem'[p])
    BY <1>10, <2>1 DEF ClockInv, MemoryLeft, Says
  <2>3. ASSUME NEW q \in Procs, q # p, Says(mem[q]) PROVE Says(mem'[q])
    BY <1>11, <2>3 DEF Says
  <2>4. \A q \in Procs : pc[q] \in Holding /\ ~touched'[q] => Says(mem'[q])
    BY <1>5, <2>2, <2>3 DEF ClockInv, MemoryLeft
  <2>5. QED BY <2>4 DEF MemoryLeft, Says, Value
<1>13. FillLeft'
  <2>1. pc[p] = "fill" => \A s \in Settings : Value(mem'[p], s) = left[s]
    BY <1>10 DEF ClockInv, FillLeft
  <2>2. \A q \in Procs : pc[q] = "fill" => \A s \in Settings : Value(mem'[q], s) = left[s]
    BY <1>11, <2>1 DEF ClockInv, FillLeft
  <2>3. QED BY <2>2 DEF FillLeft, Value
<1>14. QED BY <1>6, <1>7, <1>8, <1>9, <1>12, <1>13 DEF ClockInv

LEMMA InitHandlerKeepsClock ==
  ASSUME IInv, ClockInv, ~together, NEW p \in Procs, myinithandler(p)
  PROVE  ClockInv'
<1> DEFINE w == [s \in Settings |-> Value(mem[p], s)]
<1>1. Known(mem[p]) BY DEF ClockInv, ClockTypes
<1>2. w \in [Settings -> {"On", "Off"}] BY <1>1, ValueKnown
<1>3. w \in [Settings -> {"On", "Off", Missing}] BY <1>2
<1>4. \A s \in Settings : w[s] = Value(mem[p], s) OBVIOUS
<1>5. pc[p] \in Holding BY DEF myinithandler, ClockInv, ClockLives
<1>6. /\ mem' = [mem EXCEPT ![p].clock = w] /\ shown' = [shown EXCEPT ![p] = w]
      /\ clock' = [clock EXCEPT ![p] = "loop"]
      /\ UNCHANGED <<touched, pc, conf, left, together, torn>>
  BY DEF myinithandler
<1> HIDE DEF w
<1>7. mem' = [mem EXCEPT ![p] = [mem[p] EXCEPT !.clock = w]] BY <1>6 DEF ClockInv, ClockTypes
<1>8. QED BY <1>2, <1>3, <1>4, <1>5, <1>6, <1>7, SettingsKeep

\* A key changes a setting, in memory as on the face.
LEMMA EventHandlerKeepsClock ==
  ASSUME IInv, ClockInv, ~together, NEW p \in Procs, NEW s \in Settings, myeventhandler(p, s)
  PROVE  ClockInv'
<1> DEFINE v == Other(shown[p][s])
           w == [shown[p] EXCEPT ![s] = v]
           k == [mem[p].clock EXCEPT ![s] = v]
<1>1. Known(mem[p]) /\ shown[p] \in [Settings -> {"On", "Off"}] BY DEF ClockInv, ClockTypes
<1>2. v \in {"On", "Off"} BY <1>1 DEF Other
<1>3. shown' = [shown EXCEPT ![p][s] = v] BY DEF myeventhandler, Toggled
<1>4. mem' = [mem EXCEPT ![p].clock[s] = v] BY DEF myeventhandler, Toggled
<1>5. /\ pc[p] \in Holding \ {"fill"} /\ touched' = [touched EXCEPT ![p] = TRUE]
      /\ UNCHANGED <<clock, pc, conf, left, together, torn>>
  BY DEF myeventhandler
<1> HIDE DEF v
<1>6. w \in [Settings -> {"On", "Off"}] BY <1>1, <1>2
<1>7. k \in [Settings -> {"On", "Off", Missing}] BY <1>1, <1>2 DEF Known
<1>8. shown' = [shown EXCEPT ![p] = w] BY <1>3
<1>9. mem' = [mem EXCEPT ![p] = [mem[p] EXCEPT !.clock = k]] BY <1>4
<1>10. clock'[p] = "loop" => \A t \in Settings : k[t] = w[t]
  BY <1>1, <1>5 DEF ClockInv, ClockShows, Known
<1> HIDE DEF w, k
<1>11. QED BY <1>5, <1>6, <1>7, <1>8, <1>9, <1>10, SettingsKeep

\* What the file is to say is what is left: what the face shows, or what was left
\* before, unless a key was pressed.
LEMMA TruncateKeepsClock ==
  ASSUME IInv, ClockInv, ~together, NEW p \in Procs, ConfTruncate(p)
  PROVE  ClockInv'
<1>1. pc[p] = "save" /\ UNCHANGED <<together, torn>> BY DEF ConfTruncate
<1>2. CASE /\ conf' = EmptyConf /\ pc' = [pc EXCEPT ![p] = "fill"] /\ UNCHANGED memory
           /\ left' = IF clock[p] = "loop" THEN shown[p]
                      ELSE IF touched[p] \/ torn THEN [s \in Settings |-> Value(mem[p], s)]
                      ELSE left
  <2>1. Known(mem[p]) /\ shown[p] \in [Settings -> {"On", "Off"}] BY DEF ClockInv, ClockTypes
  <2>2. \A s \in Settings : Value(mem[p], s) = left'[s]
    <3>1. CASE clock[p] = "loop"
      <4>1. left' = shown[p] BY <1>2, <3>1
      <4>2. ASSUME NEW s \in Settings PROVE Value(mem[p], s) = left'[s]
        <5>1. mem[p].clock[s] = shown[p][s] BY <3>1 DEF ClockInv, ClockShows
        <5>2. mem[p].clock[s] # Missing BY <5>1, <2>1 DEF Missing
        <5>3. QED BY <4>1, <5>1, <5>2 DEF Value
      <4>3. QED BY <4>2
    <3>2. CASE clock[p] # "loop" /\ (touched[p] \/ torn)
      <4>1. left' = [s \in Settings |-> Value(mem[p], s)] BY <1>2, <3>2
      <4>2. QED BY <4>1
    <3>3. CASE clock[p] # "loop" /\ ~(touched[p] \/ torn)
      <4>1. left' = left BY <1>2, <3>3
      <4>2. QED BY <1>1, <3>3, <4>1 DEF ClockInv, MemoryLeft, Says
    <3>4. QED BY <3>1, <3>2, <3>3
  <2>3. left' \in [Settings -> {"On", "Off"}]
    <3>1. [s \in Settings |-> Value(mem[p], s)] \in [Settings -> {"On", "Off"}]
      BY <2>1, ValueKnown
    <3>2. QED BY <1>2, <2>1, <3>1 DEF ClockInv, ClockTypes
  <2>4. ClockTypes' BY <1>1, <1>2, <2>3, KnownStart DEF ClockInv, ClockTypes, Known
  <2>5. pc'[p] = "fill" /\ \A q \in Procs : q # p => pc'[q] = pc[q]
    BY <1>2 DEF IInv, PidTypes
  <2>6. \A q \in Procs : q # p => pc[q] \notin Serving BY <1>1, OnlyServes
  <2>7. ClockLives' BY <1>1, <1>2, <2>5 DEF ClockInv, ClockLives
  <2>8. ClockShows' BY <1>2 DEF ClockInv, ClockShows
  <2>9. \A q \in Procs : pc'[q] \in Holding => \A s \in Settings : Value(mem[q], s) = left'[s]
    BY <2>2, <2>5, <2>6
  <2>10. MemoryLeft' BY <1>2, <2>9 DEF MemoryLeft, Says, Value
  <2>11. FillLeft' BY <1>2, <2>9 DEF FillLeft, Value
  <2>12. FileLeft' BY <2>5 DEF FileLeft
  <2>13. QED BY <1>1, <2>4, <2>7, <2>8, <2>10, <2>11, <2>12 DEF ClockInv
<1>3. CASE Dies(p) /\ UNCHANGED <<conf, left>>
  <2>1. Known(conf') BY <1>3 DEF ClockInv, ClockTypes
  <2>2. QED BY <1>1, <1>3, <2>1, EndKeeps
<1>4. QED BY <1>2, <1>3 DEF ConfTruncate

\* The file says what is left when its lines are all written.
LEMMA FillKeepsClock ==
  ASSUME IInv, ClockInv, ~together, NEW p \in Procs, ConfFill(p)
  PROVE  ClockInv'
<1>1. pc[p] = "fill" /\ conf' = mem[p] /\ Dies(p) /\ UNCHANGED <<left, together>>
  BY DEF ConfFill
<1>2. Known(conf') BY <1>1 DEF ClockInv, ClockTypes
<1>3. Says(conf)' BY <1>1 DEF ClockInv, FillLeft, Says, Value
<1>4. QED BY <1>1, <1>2, <1>3, EndKeeps

\* Some of a configuration's lines are a configuration that says the same or nothing.
LEMMA PartlyParts ==
  ASSUME NEW c, NEW I, NEW t, NEW e, NEW S
  PROVE  /\ Partly(c, I, t, e, S).order = [i \in 0..N-1 |-> IF i \in I THEN c.order[i] ELSE Missing]
         /\ Partly(c, I, t, e, S).total = t
         /\ Partly(c, I, t, e, S).disabled = e
  BY DEF Partly

LEMMA KnownPartly ==
  ASSUME NEW c, Known(c), NEW I, NEW t, NEW e, NEW S
  PROVE  /\ Known(Partly(c, I, t, e, S))
         /\ \A s \in Settings : \/ Value(Partly(c, I, t, e, S), s) = Value(c, s)
                               \/ Value(Partly(c, I, t, e, S), s) = Default(s)
<1> DEFINE o == [i \in 0..N-1 |-> IF i \in I THEN c.order[i] ELSE Missing]
           k == [s \in Settings |-> IF s \in S THEN c.clock[s] ELSE Missing]
           d == [order |-> o, total |-> t, disabled |-> e, clock |-> k]
<1>1. Partly(c, I, t, e, S) = d BY DEF Partly
<1>2. \A s \in Settings : k[s] = c.clock[s] \/ k[s] = Missing OBVIOUS
<1>3. k \in [Settings -> {"On", "Off", Missing}] BY DEF Known
<1> HIDE DEF o, k
<1>4. /\ d = [order |-> d.order, total |-> d.total, disabled |-> d.disabled, clock |-> d.clock]
      /\ d.clock = k
  OBVIOUS
<1> HIDE DEF d
<1>5. Known(d) BY <1>3, <1>4 DEF Known
<1>6. \A s \in Settings : Value(d, s) = Value(c, s) \/ Value(d, s) = Default(s)
  BY <1>2, <1>4 DEF Value
<1>7. QED BY <1>1, <1>5, <1>6

LEMMA CrashKeepsClock ==
  ASSUME IInv, ClockInv, ~together, NEW p \in Procs, Crash(p)
  PROVE  ClockInv'
<1>1. pc[p] \in Serving /\ Dies(p) /\ UNCHANGED <<left, together>> BY DEF Crash
<1>2. CASE pc[p] = "fill"
  <2>1. PICK I \in SUBSET (0..N-1), t \in {-1, mem[p].total}, d \in SUBSET mem[p].disabled,
             S \in SUBSET Settings : conf' = Partly(mem[p], I, t, d, S)
    BY <1>2 DEF Crash
  <2>2. Known(mem[p]) BY DEF ClockInv, ClockTypes
  <2>3. /\ Known(conf')
        /\ \A s \in Settings : Value(conf', s) = Value(mem[p], s) \/ Value(conf', s) = Default(s)
    <3> DEFINE c == mem[p]
               n == Partly(c, I, t, d, S)
    <3>1. Known(c) BY <2>2
    <3> HIDE DEF c
    <3>2. Known(n) /\ \A s \in Settings : Value(n, s) = Value(c, s) \/ Value(n, s) = Default(s)
      BY <3>1, KnownPartly
    <3> HIDE DEF n
    <3>3. conf' = n BY <2>1 DEF n, c
    <3>4. QED BY <3>2, <3>3 DEF c
  <2>4. \A s \in Settings : Value(mem[p], s) = left[s] BY <1>2 DEF ClockInv, FillLeft
  <2>5. Says(conf)'
    <3>1. torn' = TRUE BY <1>2 DEF Crash
    <3>2. QED BY <1>1, <2>3, <2>4, <3>1 DEF Says, Value
  <2>6. QED BY <1>1, <2>3, <2>5, EndKeeps
<1>3. CASE pc[p] # "fill"
  <2>1. UNCHANGED <<conf, torn>> BY <1>3 DEF Crash
  <2>2. Known(conf') BY <2>1 DEF ClockInv, ClockTypes
  <2>3. QED BY <1>1, <1>3, <2>1, <2>2, EndKeeps
<1>4. QED BY <1>2, <1>3

\* The user's edits leave the clock's section alone.
LEMMA EditKeepsClock ==
  ASSUME ClockInv, NEW d, NEW c, Edit(d, c), Known(c), c.clock = conf.clock
  PROVE  ClockInv'
<1>1. /\ conf' = c
      /\ UNCHANGED <<pc, mem, clock, shown, touched, together, torn, left>>
  BY DEF Edit
<1>2. ClockTypes' BY <1>1 DEF ClockInv, ClockTypes, Known
<1>3. ClockLives' <=> ClockLives BY <1>1 DEF ClockLives
<1>4. ClockShows' <=> ClockShows BY <1>1 DEF ClockShows
<1>5. MemoryLeft' <=> MemoryLeft BY <1>1 DEF MemoryLeft, Says, Value
<1>6. FillLeft' <=> FillLeft BY <1>1 DEF FillLeft, Value
<1>7. FileLeft' <=> FileLeft BY <1>1 DEF FileLeft, Says, Value
<1>8. QED BY <1>1, <1>2, <1>3, <1>4, <1>5, <1>6, <1>7 DEF ClockInv

LEMMA EditPluginsKeepsClock == ClockInv /\ EditPlugins => ClockInv'
<1> SUFFICES ASSUME ClockInv, EditPlugins PROVE ClockInv'
  OBVIOUS
<1>1. PICK f \in Files :
        \/ Edit(IF f \in dir THEN dir \ {f} ELSE dir \cup {f}, conf)
        \/ Edit(dir, [conf EXCEPT !.disabled = IF f \in @ THEN @ \ {f} ELSE @ \cup {f}])
  BY DEF EditPlugins
<1>2. Known(conf) BY DEF ClockInv, ClockTypes
<1> DEFINE e == IF f \in conf.disabled THEN conf.disabled \ {f} ELSE conf.disabled \cup {f}
<1>3. Known([conf EXCEPT !.disabled = e]) /\ [conf EXCEPT !.disabled = e].clock = conf.clock
  BY <1>2, KnownDisabled
<1>4. QED BY <1>1, <1>2, <1>3, EditKeepsClock

LEMMA EditOrderKeepsClock == ClockInv /\ EditOrder => ClockInv'
<1> SUFFICES ASSUME ClockInv, EditOrder PROVE ClockInv'
  OBVIOUS
<1> DEFINE o == [conf.order EXCEPT ![0] = conf.order[1], ![1] = conf.order[0]]
<1>1. Edit(dir, Reordered(conf, o, conf.total)) BY DEF EditOrder
<1>2. Known(conf) BY DEF ClockInv, ClockTypes
<1> HIDE DEF o
<1>3. Known(Reordered(conf, o, conf.total)) /\ Reordered(conf, o, conf.total).clock = conf.clock
  BY <1>2, KnownReordered
<1>4. QED BY <1>1, <1>3, EditKeepsClock

LEMMA LifeKeepsClock ==
  ASSUME IInv, ClockInv, ~together, NEW p \in Procs, Life(p)
  PROVE  ClockInv'
<1> USE DEF IInv, PidTypes
<1>1. CASE Look(p) BY <1>1, MoveKeeps DEF Look
<1>2. CASE Attach(p) BY <1>2, MoveKeeps DEF Attach
<1>3. CASE CreatePidfile(p) BY <1>3, MoveKeeps DEF CreatePidfile
<1>4. CASE WritePidfile(p) BY <1>4, MoveKeeps DEF WritePidfile
<1>5. CASE \E running \in BOOLEAN : FirstJudged(p, running) \/ SecondJudged(p, running)
  BY <1>5, MoveKeeps DEF FirstJudged, SecondJudged
<1>6. CASE ConfOpen(p) BY <1>6, OpenKeepsClock
<1>7. CASE \E names \in Names(mem[p]) : LoadAll(p, names) BY <1>7, LoadKeepsClock
<1>8. CASE LoadDies(p)
  <2>1. Dies(p) /\ pc[p] # "fill" /\ UNCHANGED <<conf, left, together, torn>>
    BY <1>8 DEF LoadDies
  <2>2. Known(conf') BY <2>1 DEF ClockInv, ClockTypes
  <2>3. QED BY <2>1, <2>2, EndKeeps
<1>9. CASE InstallHandlers(p) BY <1>9, MoveKeeps DEF InstallHandlers
<1>10. CASE Pause(p) BY <1>10, MoveKeeps DEF Pause
<1>11. CASE Teardown(p) BY <1>11, MoveKeeps DEF Teardown
<1>12. CASE ConfTruncate(p) BY <1>12, TruncateKeepsClock
<1>13. CASE ConfFill(p) BY <1>13, FillKeepsClock
<1>14. CASE myinithandler(p) BY <1>14, InitHandlerKeepsClock
<1>15. QED
  BY <1>1, <1>2, <1>3, <1>4, <1>5, <1>6, <1>7, <1>8, <1>9, <1>10, <1>11, <1>12, <1>13, <1>14 DEF Life

LEMMA WorldKeepsClock ==
  ASSUME IInv, ClockInv, ~together, NEW p \in Procs, World(p)
  PROVE  ClockInv'
<1> USE DEF IInv, PidTypes
<1>1. CASE \E k \in {"daemon", "ask"} : Start(p, k) BY <1>1, MoveKeeps DEF Start
<1>2. CASE Signal(p) BY <1>2, MoveKeeps DEF Signal
<1>3. CASE Crash(p) BY <1>3, CrashKeepsClock
<1>4. CASE \E s \in Settings : myeventhandler(p, s) BY <1>4, EventHandlerKeepsClock
<1>5. QED BY <1>1, <1>2, <1>3, <1>4 DEF World

LEMMA ClockStep == IInv /\ ClockInv /\ [Next]_vars => ClockInv'
<1> SUFFICES ASSUME IInv, ClockInv, [Next]_vars PROVE ClockInv'
  OBVIOUS
<1>1. CASE UNCHANGED vars BY <1>1, MoveKeeps DEF vars
<1>2. ASSUME ~together, NEW p \in Procs, Life(p) PROVE ClockInv' BY <1>2, LifeKeepsClock
<1>3. ASSUME ~together, NEW p \in Procs, World(p) PROVE ClockInv' BY <1>3, WorldKeepsClock
<1>4. CASE EditPlugins BY <1>4, EditPluginsKeepsClock
<1>5. CASE EditOrder BY <1>5, EditOrderKeepsClock
<1>6. QED BY <1>1, <1>2, <1>3, <1>4, <1>5 DEF Next

(* The clock's settings come back as the last daemon left them: over any number  *)
(* of lives, keys, edits and ends, for any settings; what an end in the middle   *)
(* of saving lost has its default (myinithandler, myeventhandler,                *)
(* uf_conf_write).                                                               *)
THEOREM ClockComesBack == Spec => []ClockRemembers
<1>1. ClockInv => ClockRemembers
  <2> SUFFICES ASSUME ClockInv, NEW p \in Procs, clock[p] = "loop", ~touched[p], ~together,
                      NEW s \in Settings
               PROVE  shown[p][s] = left[s] \/ (torn /\ shown[p][s] = Default(s))
    BY DEF ClockRemembers
  <2>1. pc[p] \in Holding BY DEF ClockInv, ClockLives
  <2>2. mem[p].clock[s] = shown[p][s] BY <2>1 DEF ClockInv, ClockShows
  <2>3. Value(mem[p], s) = left[s] \/ (torn /\ Value(mem[p], s) = Default(s))
    BY <2>1 DEF ClockInv, MemoryLeft, Says
  <2>4. shown[p][s] \in {"On", "Off"} BY DEF ClockInv, ClockTypes
  <2>5. QED BY <2>2, <2>3, <2>4 DEF Value, Missing
<1>2. QED BY <1>1, InitClock, ClockStep, Invariant, PTL DEF Spec

-----------------------------------------------------------------------------
\* What the load order and its length can be.
OrderTypes(c) == c.order \in [0..N-1 -> Files \cup {Missing, Old}] /\ c.total \in -1..N
OrdersKnown == OrderTypes(conf) /\ \A p \in Procs : OrderTypes(mem[p])
FilesKnown ==
  /\ pidfile \in 0..MaxProcs /\ written \in BOOLEAN
  /\ found \in [Procs -> -1..MaxProcs]
  /\ kind \in [Procs -> {"daemon", "ask"}] /\ torn \in BOOLEAN
  /\ dir \subseteq Files /\ edits \in Nat
  /\ loaded = [p \in Procs |-> loaded[p]]

(* A load order that stands names each file once. If it lacks no line, and no  *)
(* change was made since it was saved, it names what counts and is there;      *)
(* after one change, if it is as long as the directory, it names at least what *)
(* can be loaded.                                                              *)
Once(c) == \A i, j \in 0..c.total-1 : c.order[i] = c.order[j] /\ c.order[i] # Missing => i = j
UpToDate(c) ==
  /\ edits = 0 => Current(c)
  /\ edits = 1 /\ c.total = Cardinality(dir) => Loadable(c) \subseteq Listed(c)
Stands(c) ==
  c.total = -1 \/ (Once(c) /\ ((c.order[0] = Old /\ c.total # 0) \/ Lacks(c) \/ UpToDate(c)))
OrderStands == Stands(conf) /\ \A p \in Procs : pc[p] \in Holding => Stands(mem[p])

\* The user's order is in the file, but while a daemon fills it, and in memory.
Wished(c) == c.order = wish[1] /\ Complete(c)
WishStands ==
  \/ wish = <<>>
  \/ /\ Wished(conf) \/ \E p \in Procs : pc[p] = "fill"
     /\ \A p \in Procs : pc[p] \in Holding => Wished(mem[p])

OrderInv == OrdersKnown /\ (together \/ (OrderStands /\ LoadsAll /\ WishStands))

\* Where the plugins are loaded.
Running == {"install", "ready", "asleep", "awake"}
LEMMA DirFinite ==
  ASSUME dir \subseteq Files
  PROVE  /\ IsFiniteSet(dir) /\ Cardinality(dir) \in Nat /\ Cardinality(dir) <= N /\ N \in Nat
         /\ dir = {} <=> Cardinality(dir) = 0
<1>1. IsFiniteSet(Files) BY FilesAssumption
<1>2. IsFiniteSet(dir) /\ Cardinality(dir) <= Cardinality(Files) BY <1>1, FS_Subset
<1>3. Cardinality(dir) \in Nat /\ Cardinality(Files) \in Nat BY <1>1, <1>2, FS_CardinalityType
<1>4. dir = {} <=> Cardinality(dir) = 0 BY <1>2, FS_EmptySet
<1>5. QED BY <1>2, <1>3, <1>4 DEF N

\* A sequence of a finite set's elements, each once, names them all.
LEMMA SeqOfSet ==
  ASSUME NEW S, IsFiniteSet(S), NEW s \in SetToSeqs(S)
  PROVE  /\ Cardinality(S) \in Nat /\ s \in [1..Cardinality(S) -> S] /\ Len(s) = Cardinality(S)
         /\ \A i, j \in 1..Cardinality(S) : s[i] = s[j] => i = j
         /\ \A f \in S : \E i \in 1..Cardinality(S) : s[i] = f
<1> DEFINE n == Cardinality(S)
<1>1. n \in Nat BY FS_CardinalityType
<1>2. s \in [1..n -> S] /\ \A i, j \in 1..n : i # j => s[i] # s[j] BY DEF SetToSeqs
<1>3. Len(s) = n BY <1>1, <1>2
<1>4. s \in Injection(1..n, S) BY <1>2 DEF Injection, IsInjective
<1>5. Cardinality(1..n) = n BY <1>1, FS_Interval
<1>6. s \in Surjection(1..n, S) BY <1>4, <1>5, FS_Injection
<1>7. \A f \in S : \E i \in 1..n : s[i] = f BY <1>6 DEF Surjection
<1>8. QED BY <1>1, <1>2, <1>3, <1>7

\* A list that names each file once names as many as it is long.
LEMMA ListedCount ==
  ASSUME NEW c, c.total \in Nat, Once(c), ~Lacks(c)
  PROVE  IsFiniteSet(Listed(c)) /\ Cardinality(Listed(c)) = c.total
<1> DEFINE D == 0..c.total-1
           g == [i \in D |-> c.order[i]]
<1>1. g \in [D -> Listed(c)] BY DEF Listed
<1>2. \A i, j \in D : g[i] = g[j] => i = j BY DEF Once, Lacks, Listed
<1>3. \A f \in Listed(c) : \E i \in D : g[i] = f BY DEF Listed
<1>4. g \in Injection(D, Listed(c)) BY <1>1, <1>2 DEF Injection, IsInjective
<1>5. g \in Surjection(D, Listed(c)) BY <1>1, <1>3 DEF Surjection
<1>6. IsFiniteSet(D) /\ Cardinality(D) = c.total
  <2>1. PICK t \in Nat : t = c.total OBVIOUS
  <2>2. t-1 \in Int OBVIOUS
  <2>3. IsFiniteSet(0..t-1) /\ Cardinality(0..t-1) = IF 0 > t-1 THEN 0 ELSE t-1-0+1
    BY <2>2, FS_Interval
  <2>4. Cardinality(0..t-1) = t BY <2>3
  <2>5. QED BY <2>1, <2>3, <2>4
<1>7. g \in Bijection(D, Listed(c)) BY <1>4, <1>5 DEF Bijection
<1>8. ExistsBijection(D, Listed(c)) BY <1>7 DEF ExistsBijection
<1>9. QED BY <1>6, <1>8, FS_Bijection

LEMMA CountedFinite ==
  ASSUME dir \subseteq Files, NEW c
  PROVE  /\ Counted(c) \subseteq dir /\ IsFiniteSet(Counted(c))
         /\ Cardinality(Counted(c)) \in Nat /\ Cardinality(Counted(c)) <= N
         /\ Loadable(c) \subseteq Counted(c)
<1>1. Counted(c) \subseteq dir BY DEF Counted
<1>2. IsFiniteSet(Counted(c)) /\ Cardinality(Counted(c)) <= Cardinality(dir)
  BY <1>1, DirFinite, FS_Subset
<1>3. Cardinality(Counted(c)) \in Nat BY <1>2, FS_CardinalityType
<1>4. Cardinality(Counted(c)) <= N BY <1>2, <1>3, DirFinite
<1>5. Loadable(c) \subseteq Counted(c) BY DEF Loadable, Counted, Counts
<1>6. QED BY <1>1, <1>2, <1>3, <1>4, <1>5

LEMMA ReorderedParts ==
  ASSUME NEW c, NEW o, NEW n
  PROVE  /\ Reordered(c, o, n).order = o /\ Reordered(c, o, n).total = n
         /\ Counted(Reordered(c, o, n)) = Counted(c)
         /\ Loadable(Reordered(c, o, n)) = Loadable(c)
<1>1. Reordered(c, o, n).disabled = c.disabled BY DEF Reordered
<1>2. Reordered(c, o, n).order = o /\ Reordered(c, o, n).total = n BY DEF Reordered
<1>3. QED BY <1>1, <1>2 DEF Counted, Counts, Loadable

\* A list that is current lacks no line.
LEMMA CurrentWhole ==
  ASSUME dir \subseteq Files, NEW c, Listed(c) \subseteq dir
  PROVE  ~Lacks(c)
  BY FilesAssumption DEF Lacks, Missing

\* A load order written anew is current, and names each file once.
LEMMA RebuiltStands ==
  ASSUME dir \subseteq Files, NEW c, OrderTypes(c), NEW names \in SetToSeqs(Counted(c))
  PROVE  LET r == Rebuilt(c, names)
         IN  /\ OrderTypes(r) /\ Once(r) /\ Current(r) /\ ~Lacks(r)
             /\ Loadable(r) = Loadable(c)
<1> DEFINE n == Cardinality(Counted(c))
           o == [i \in 0..N-1 |-> IF i < n THEN names[i+1] ELSE c.order[i]]
           r == Reordered(c, o, n)
<1>1. /\ Counted(c) \subseteq dir /\ n \in Nat /\ n <= N /\ N \in Nat
      /\ Loadable(c) \subseteq Counted(c)
  BY CountedFinite, DirFinite
<1>2. /\ names \in [1..n -> Counted(c)] /\ Len(names) = n
      /\ \A i, j \in 1..n : names[i] = names[j] => i = j
      /\ \A f \in Counted(c) : \E i \in 1..n : names[i] = f
  BY CountedFinite, SeqOfSet
<1>3. Rebuilt(c, names) = r BY <1>2 DEF Rebuilt
<1>4. r.order = o /\ r.total = n /\ Counted(r) = Counted(c) /\ Loadable(r) = Loadable(c)
  BY ReorderedParts
<1>5. \A i \in 0..n-1 : o[i] = names[i+1] BY <1>1
<1>6. o \in [0..N-1 -> Files \cup {Missing, Old}]
  <2>1. /\ o = [i \in 0..N-1 |-> o[i]]
        /\ \A i \in 0..N-1 : o[i] = IF i < n THEN names[i+1] ELSE c.order[i]
    OBVIOUS
  <2> HIDE DEF o
  <2>2. ASSUME NEW i \in 0..N-1 PROVE o[i] \in Files \cup {Missing, Old}
    <3>1. CASE i < n
      <4>1. i+1 \in 1..n BY <1>1, <3>1
      <4>2. names[i+1] \in Files BY <1>1, <1>2, <4>1
      <4>3. QED BY <2>1, <3>1, <4>2
    <3>2. CASE ~(i < n)
      <4>1. c.order[i] \in Files \cup {Missing, Old} BY DEF OrderTypes
      <4>2. QED BY <2>1, <3>2, <4>1
    <3>3. QED BY <3>1, <3>2
  <2>3. QED BY <2>1, <2>2
<1> HIDE DEF n, o, r
<1>7. OrderTypes(r) BY <1>1, <1>4, <1>6 DEF OrderTypes
<1>8. Once(r) BY <1>1, <1>2, <1>4, <1>5 DEF Once
<1>9. Listed(r) = Counted(c)
  <2>1. ASSUME NEW i \in 0..n-1 PROVE o[i] \in Counted(c)
    <3>1. i+1 \in 1..n BY <1>1
    <3>2. QED BY <1>2, <1>5, <3>1
  <2>2. ASSUME NEW f \in Counted(c) PROVE \E i \in 0..n-1 : o[i] = f
    <3>1. PICK k \in 1..n : names[k] = f BY <1>2
    <3>2. k-1 \in 0..n-1 /\ (k-1)+1 = k BY <1>1
    <3>3. o[k-1] = f BY <1>5, <3>1, <3>2
    <3>4. QED BY <3>2, <3>3
  <2>3. QED BY <1>4, <2>1, <2>2 DEF Listed
<1>10. Current(r) BY <1>1, <1>4, <1>9 DEF Current
<1>11. ~Lacks(r) BY <1>10, CurrentWhole DEF Current
<1>12. QED BY <1>3, <1>4, <1>7, <1>8, <1>10, <1>11

\* A sequence that names a file at one place tries it once.
LEMMA TriedOnce ==
  ASSUME NEW n \in Nat, NEW names, DOMAIN names = 1..n,
         NEW f, NEW i \in 1..n, names[i] = f, \A j \in 1..n : names[j] = f => j = i
  PROVE  Tries(names, f) = 1
<1>1. {j \in DOMAIN names : names[j] = f} = {i} OBVIOUS
<1>2. Cardinality({i}) = 1 BY FS_Singleton
<1>3. QED BY <1>1, <1>2 DEF Tries

\* What a list that lacks lines names is tried once, and nothing else.
Starts(c) == {f \in Loadable(c) : Lacks(c) => f \in Listed(c)}

\* What stands is loaded, each file once, in the order read from the directory or not.
LEMMA StandsLoads ==
  ASSUME dir \subseteq Files, edits \in Nat, edits <= 1, NEW c, OrderTypes(c), Stands(c),
         NEW names \in Names(c), NEW f \in Loadable(c)
  PROVE  IF MustRebuild(c) \/ f \in Starts(c) THEN Tries(names, f) = 1 ELSE Tries(names, f) = 0
<1>1. CASE MustRebuild(c)
  <2>1. names \in SetToSeqs(Counted(c)) BY <1>1 DEF Names
  <2>2. f \in Counted(c) /\ IsFiniteSet(Counted(c)) BY CountedFinite
  <2>3. PICK n \in Nat : /\ names \in [1..n -> Counted(c)]
                         /\ \A i, j \in 1..n : names[i] = names[j] => i = j
                         /\ \E i \in 1..n : names[i] = f
    BY <2>1, <2>2, SeqOfSet
  <2>4. PICK i \in 1..n : names[i] = f BY <2>3
  <2>5. DOMAIN names = 1..n BY <2>3
  <2>6. \A j \in 1..n : names[j] = f => j = i BY <2>3, <2>4
  <2>7. Tries(names, f) = 1 BY <2>4, <2>5, <2>6, TriedOnce
  <2>8. QED BY <1>1, <2>7
<1>2. CASE ~MustRebuild(c)
  <2>1. dir # {} /\ f \in Files BY DEF Loadable
  <2>2. c.total = Cardinality(dir) /\ c.total # -1 /\ c.order[0] # Old
    BY <1>2, <2>1 DEF MustRebuild
  <2>3. PICK n \in Nat : n = c.total /\ n = Cardinality(dir) BY <2>2, DirFinite
  <2>4. names = [i \in 1..n |-> c.order[i-1]] BY <1>2, <2>3 DEF Names
  <2>5. Once(c) /\ (Lacks(c) \/ UpToDate(c)) BY <2>2 DEF Stands
  <2>6. DOMAIN names = 1..n BY <2>4
  <2>7. CASE f \in Listed(c)
    <3>1. PICK k \in 0..n-1 : c.order[k] = f BY <2>3, <2>7 DEF Listed
    <3>2. k+1 \in 1..n /\ (k+1)-1 = k BY <2>3
    <3>3. names[k+1] = f BY <2>4, <3>1, <3>2
    <3>4. f # Missing BY <2>1, FilesAssumption DEF Missing
    <3>5. ASSUME NEW j \in 1..n, names[j] = f PROVE j = k+1
      <4>1. j-1 \in 0..n-1 BY <2>3
      <4>2. c.order[j-1] = f BY <2>4, <3>5
      <4>3. c.order[j-1] = c.order[k] /\ c.order[k] # Missing BY <3>1, <3>4, <4>2
      <4>4. j-1 = k BY <2>3, <2>5, <4>1, <4>3 DEF Once
      <4>5. QED BY <4>4
    <3>6. Tries(names, f) = 1 BY <2>6, <3>2, <3>3, <3>5, TriedOnce
    <3>7. QED BY <2>7, <3>6 DEF Starts
  <2>8. CASE f \notin Listed(c)
    <3>1. Lacks(c)
      <4>1. edits = 0 \/ edits = 1 OBVIOUS
      <4>2. UpToDate(c) => Loadable(c) \subseteq Listed(c)
        BY <2>2, <4>1, CountedFinite DEF UpToDate, Current
      <4>3. QED BY <2>5, <2>8, <4>2
    <3>2. ASSUME NEW j \in 1..n PROVE names[j] # f
      <4>1. j-1 \in 0..n-1 /\ names[j] = c.order[j-1] BY <2>4
      <4>2. QED BY <2>3, <2>8, <4>1 DEF Listed
    <3>3. {j \in DOMAIN names : names[j] = f} = {} BY <2>6, <3>2
    <3>4. Tries(names, f) = 0 BY <3>3, FS_EmptySet DEF Tries
    <3>5. QED BY <1>2, <2>8, <3>1, <3>4 DEF Starts
  <2>9. QED BY <2>7, <2>8
<1>3. QED BY <1>1, <1>2

\* One change of the directory or of what is disabled, since the list was current.
LEMMA OneChange ==
  ASSUME dir \subseteq Files, dir' \subseteq Files, NEW c, NEW d, c.total \in -1..N, c.total # -1,
         Once(c), Current(c), NEW f,
         \/ d.disabled = c.disabled /\ (dir' = dir \cup {f} \/ dir' = dir \ {f})
         \/ dir' = dir /\ (d.disabled = c.disabled \cup {f} \/ d.disabled = c.disabled \ {f}),
         c.total = Cardinality(dir')
  PROVE  (Loadable(d))' \subseteq Listed(c)
<1>1. c.total \in Nat BY DirFinite
<1>2. IsFiniteSet(Listed(c)) /\ Cardinality(Listed(c)) = c.total
  BY <1>1, ListedCount, CurrentWhole DEF Current
<1>3. IsFiniteSet(dir) BY DirFinite
<1>4. Listed(c) \subseteq dir /\ Counted(c) \subseteq Listed(c) BY DEF Current
<1>5. CASE dir' = dir \cup {f} /\ f \notin dir
  <2>1. Cardinality(dir') = Cardinality(dir) + 1 BY <1>3, <1>5, FS_AddElement
  <2>2. Cardinality(Listed(c)) <= Cardinality(dir) BY <1>3, <1>4, FS_Subset
  <2>3. Cardinality(dir) \in Nat BY DirFinite
  <2>4. QED BY <1>1, <1>2, <2>1, <2>2, <2>3
<1>6. CASE dir' \subseteq dir /\ d.disabled = c.disabled
  BY <1>4, <1>6, CountedFinite DEF Loadable, Counted, Counts
<1>7. CASE dir' = dir
  <2>1. Listed(c) = dir BY <1>2, <1>3, <1>4, <1>7, FS_Subset
  <2>2. QED BY <1>7, <2>1 DEF Loadable
<1>8. QED BY <1>5, <1>6, <1>7

-----------------------------------------------------------------------------
LEMMA FilesStep == IInv /\ FilesKnown /\ [Next]_vars => FilesKnown'
<1> SUFFICES ASSUME IInv, FilesKnown, [Next]_vars PROVE FilesKnown'
  OBVIOUS
<1> USE FilesAssumption DEF FilesKnown
<1>1. CASE UNCHANGED vars BY <1>1 DEF vars
<1>2. ASSUME NEW p \in Procs, Life(p) PROVE FilesKnown'
  <2>1. CASE Look(p) BY <2>1 DEF Look
  <2>2. CASE Attach(p)
    <3>1. UNCHANGED <<pidfile, written, found, kind, dir, edits, loaded, torn>>
      BY <2>2 DEF Attach
    <3>2. QED BY <3>1
  <2>3. CASE CreatePidfile(p)
    <3>1. (pidfile' = p /\ written' = FALSE) \/ UNCHANGED files BY <2>3 DEF CreatePidfile
    <3>2. pidfile' \in 0..MaxProcs /\ written' \in BOOLEAN
      <4>1. pidfile' \in 0..MaxProcs BY <3>1
      <4>2. written' \in BOOLEAN BY <3>1, Zenon
      <4>3. QED BY <4>1, <4>2
    <3>3. UNCHANGED <<found, kind, dir, edits, loaded, torn>> BY <2>3 DEF CreatePidfile
    <3>4. QED BY <3>2, <3>3
  <2>4. CASE WritePidfile(p) BY <2>4 DEF WritePidfile
  <2>5. ASSUME NEW running \in BOOLEAN, FirstJudged(p, running) PROVE FilesKnown'
    <3>1. UNCHANGED files \/ (pidfile' = 0 /\ written' = FALSE)
      BY <2>5 DEF FirstJudged, Judge
    <3>2. found' = [found EXCEPT ![p] = 0] /\ UNCHANGED <<dir, edits, loaded, torn>>
      BY <2>5 DEF FirstJudged
    <3>3. kind' \in [Procs -> {"daemon", "ask"}]
      <4>1. kind' = [kind EXCEPT ![p] = "daemon"] BY <2>5 DEF FirstJudged
      <4>2. QED BY <4>1
    <3>4. pidfile' \in 0..MaxProcs /\ written' \in BOOLEAN
      <4>1. pidfile' \in 0..MaxProcs BY <3>1
      <4>2. written' \in BOOLEAN BY <3>1, Zenon
      <4>3. QED BY <4>1, <4>2
    <3>5. found' \in [Procs -> -1..MaxProcs] BY <3>2
    <3>6. QED BY <3>2, <3>3, <3>4, <3>5
  <2>6. ASSUME NEW running \in BOOLEAN, SecondJudged(p, running) PROVE FilesKnown'
    <3>1. UNCHANGED files \/ (pidfile' = 0 /\ written' = FALSE)
      BY <2>6 DEF SecondJudged, Judge
    <3>2. found' = [found EXCEPT ![p] = 0] /\ UNCHANGED <<dir, edits, loaded, torn>>
      BY <2>6 DEF SecondJudged
    <3>3. kind' \in [Procs -> {"daemon", "ask"}]
      <4>1. kind' = kind BY <2>6 DEF SecondJudged
      <4>2. QED BY <4>1
    <3>4. pidfile' \in 0..MaxProcs /\ written' \in BOOLEAN
      <4>1. pidfile' \in 0..MaxProcs BY <3>1
      <4>2. written' \in BOOLEAN BY <3>1, Zenon
      <4>3. QED BY <4>1, <4>2
    <3>5. found' \in [Procs -> -1..MaxProcs] BY <3>2
    <3>6. QED BY <3>2, <3>3, <3>4, <3>5
  <2>7. CASE ConfOpen(p) BY <2>7 DEF ConfOpen
  <2>8. ASSUME NEW names, LoadAll(p, names) PROVE FilesKnown'
    <3>1. PICK t : loaded' = [loaded EXCEPT ![p] = t] BY <2>8 DEF LoadAll
    <3>2. loaded' = [q \in Procs |-> loaded'[q]] BY <3>1
    <3>3. QED BY <2>8, <3>2 DEF LoadAll
  <2>9. CASE LoadDies(p) BY <2>9 DEF LoadDies, Dies
  <2>10. CASE InstallHandlers(p) BY <2>10 DEF InstallHandlers
  <2>11. CASE Pause(p) BY <2>11 DEF Pause
  <2>12. CASE Teardown(p) BY <2>12 DEF Teardown
  <2>13. CASE ConfTruncate(p) BY <2>13 DEF ConfTruncate, Dies
  <2>14. CASE ConfFill(p) BY <2>14 DEF ConfFill, Dies
  <2>15. CASE myinithandler(p) BY <2>15 DEF myinithandler
  <2>16. QED
    BY <1>2, <2>1, <2>2, <2>3, <2>4, <2>5, <2>6, <2>7, <2>8, <2>9, <2>10, <2>11, <2>12, <2>13,
       <2>14, <2>15 DEF Life
<1>3. ASSUME NEW p \in Procs, World(p) PROVE FilesKnown'
  <2>1. ASSUME NEW k \in {"daemon", "ask"}, Start(p, k) PROVE FilesKnown'
    BY <2>1 DEF Start
  <2>2. CASE Signal(p) BY <2>2 DEF Signal
  <2>3. CASE Crash(p)
    <3>1. edits' \in Nat /\ torn' \in BOOLEAN
      <4>1. edits' \in {edits, edits + 1} BY <2>3 DEF Crash
      <4>2. torn' \in BOOLEAN BY <2>3, Zenon DEF Crash
      <4>3. QED BY <4>1, <4>2
    <3>2. UNCHANGED <<pidfile, written, found, kind, dir>>
          /\ loaded' = [loaded EXCEPT ![p] = NoThreads]
      BY <2>3 DEF Crash, Dies
    <3>3. loaded' = [q \in Procs |-> loaded'[q]] BY <3>2
    <3>4. /\ pidfile' \in 0..MaxProcs /\ dir' \subseteq Files
          /\ found' \in [Procs -> -1..MaxProcs] /\ kind' \in [Procs -> {"daemon", "ask"}]
      BY <3>2
    <3>5. written' \in BOOLEAN BY <3>2, Zenon
    <3>6. QED BY <3>1, <3>3, <3>4, <3>5, Zenon
  <2>4. ASSUME NEW s \in Settings, myeventhandler(p, s) PROVE FilesKnown'
    BY <2>4 DEF myeventhandler
  <2>5. QED BY <1>3, <2>1, <2>2, <2>3, <2>4 DEF World
<1>4. CASE EditPlugins
  <2>1. dir' \subseteq Files BY <1>4 DEF EditPlugins, Edit
  <2>2. QED BY <1>4, <2>1 DEF EditPlugins, Edit
<1>5. CASE EditOrder BY <1>5 DEF EditOrder, Edit
<1>6. QED BY <1>1, <1>2, <1>3, <1>4, <1>5 DEF Next

\* The same list and the same plugins switched off.
SameList(c, d) == c.order = d.order /\ c.total = d.total /\ c.disabled = d.disabled

LEMMA SameStands ==
  ASSUME NEW c, NEW d, SameList(d, c), UNCHANGED <<dir, edits>>
  PROVE  /\ OrderTypes(c) => OrderTypes(d)
         /\ Stands(c) => (Stands(d))'
         /\ (Loadable(d))' = Loadable(c) /\ (Starts(d))' = Starts(c)
         /\ (Complete(d))' <=> Complete(c)
<1>1. (Loadable(d))' = Loadable(c) BY DEF SameList, Loadable
<1>2. (Counted(d))' = Counted(c) BY DEF SameList, Counted, Counts
<1>3. Listed(d) = Listed(c) BY DEF SameList, Listed
<1>4. (Current(d))' <=> Current(c) BY <1>2, <1>3 DEF Current
<1>5. Once(d) <=> Once(c) BY DEF SameList, Once
<1>6. Lacks(d) <=> Lacks(c) BY <1>3 DEF Lacks
<1>7. (UpToDate(d))' <=> UpToDate(c) BY <1>1, <1>3, <1>4 DEF UpToDate, SameList
<1>8. Stands(c) => (Stands(d))'
  BY <1>5, <1>6, <1>7 DEF Stands, SameList, Once, Lacks, Listed
<1>9. (Complete(d))' <=> Complete(c) BY <1>3 DEF Complete, SameList
<1>10. OrderTypes(c) => OrderTypes(d) BY DEF OrderTypes, SameList
<1>11. (Starts(d))' = Starts(c) BY <1>1, <1>3, <1>6 DEF Starts, Lacks, Listed
<1>12. QED BY <1>1, <1>8, <1>9, <1>10, <1>11

LEMMA EmptyStands == OrderTypes(EmptyConf) /\ EmptyConf.total = -1 /\ EmptyConf.disabled = {}
<1>1. N \in Nat BY FilesAssumption, FS_CardinalityType DEF N
<1>2. EmptyConf.total = -1 /\ EmptyConf.disabled = {} /\ EmptyConf.order = [i \in 0..N-1 |-> Missing]
  BY DEF EmptyConf
<1>3. QED BY <1>1, <1>2 DEF OrderTypes

LEMMA OldStands ==
  OrderTypes(OldConf) /\ (N = 0 \/ OldConf.order[0] = Old) /\ OldConf.total = N
  /\ OldConf.disabled = {} /\ Once(OldConf)
<1>1. N \in Nat BY FilesAssumption, FS_CardinalityType DEF N
<1> DEFINE o == [EmptyConf.order EXCEPT ![0] = Old]
<1>2. EmptyConf.order = [i \in 0..N-1 |-> Missing] BY DEF EmptyConf
<1>3. o \in [0..N-1 -> Files \cup {Missing, Old}] BY <1>2
<1>4. N # 0 => o[0] = Old BY <1>1, <1>2
<1>5. OldConf.order = o /\ OldConf.total = N /\ OldConf.disabled = EmptyConf.disabled
  BY ReorderedParts DEF OldConf, Reordered
<1>6. \A i \in 0..N-1 : i # 0 => o[i] = Missing BY <1>2
<1> HIDE DEF o
<1>7. Once(OldConf)
  <2>1. \A i, j \in 0..N-1 : o[i] = o[j] /\ o[i] # Missing => i = j BY <1>6
  <2>2. QED BY <1>5, <2>1 DEF Once
<1>8. QED BY <1>1, <1>3, <1>4, <1>5, <1>7, EmptyStands DEF OrderTypes

\* What LoadsAll says of a daemon that runs.
StartsAll ==
  \A p \in Procs : pc[p] \in Running => \/ together \/ edits > 1
    \/ \A f \in Files : loaded[p][f] = IF f \in Starts(mem[p]) THEN 1 ELSE 0

LEMMA LoadsStarts == LoadsAll <=> StartsAll
  BY DEF LoadsAll, StartsAll, Starts, Running

\* A step that leaves the lists alone.
LEMMA MoveOrders ==
  ASSUME OrderInv, UNCHANGED <<dir, edits, wish, loaded>>,
         SameList(conf', conf), \A q \in Procs : SameList(mem'[q], mem[q]),
         together => together',
         \A q \in Procs : /\ pc'[q] \in Holding => pc[q] \in Holding
                          /\ pc'[q] \in Running => pc[q] \in Running
                          /\ pc[q] = "fill" => pc'[q] = "fill"
  PROVE  OrderInv'
<1>1. OrdersKnown'
  <2>1. OrderTypes(conf') BY SameStands DEF OrderInv, OrdersKnown
  <2>2. \A q \in Procs : OrderTypes(mem'[q]) BY SameStands DEF OrderInv, OrdersKnown
  <2>3. QED BY <2>1, <2>2 DEF OrdersKnown, OrderTypes
<1>2. CASE together' BY <1>1, <1>2 DEF OrderInv
<1>3. CASE ~together'
  <2>1. OrderStands /\ LoadsAll /\ WishStands BY <1>3 DEF OrderInv
  <2>2. OrderStands'
    <3>1. Stands(conf) => Stands(conf)' BY SameStands DEF Stands
    <3>2. \A q \in Procs : Stands(mem[q]) => Stands(mem[q])' BY SameStands
    <3>3. QED BY <2>1, <3>1, <3>2 DEF OrderStands
  <2>3. LoadsAll'
    <3>1. \A q \in Procs : Starts(mem[q])' = Starts(mem[q]) BY SameStands
    <3>2. StartsAll' BY <1>3, <2>1, <3>1, LoadsStarts DEF StartsAll, Starts, Loadable, Lacks, Listed
    <3>3. QED BY <3>2, LoadsStarts, PTL
  <2>4. WishStands'
    <3>1. Wished(conf) => Wished(conf)' BY SameStands DEF Wished, SameList
    <3>2. \A q \in Procs : Wished(mem[q]) => Wished(mem[q])' BY SameStands DEF Wished, SameList
    <3>3. QED BY <2>1, <3>1, <3>2 DEF WishStands
  <2>5. QED BY <1>1, <2>2, <2>3, <2>4 DEF OrderInv
<1>4. QED BY <1>2, <1>3

\* A step of one process: what it leaves in its memory and in the file stands as before.
LEMMA OneOrders ==
  ASSUME IInv, ClockInv, FilesKnown, OrderInv, ~together, NEW p \in Procs, NEW m, NEW l, NEW t,
         mem' = [mem EXCEPT ![p] = m], pc' = [pc EXCEPT ![p] = l],
         loaded' = [loaded EXCEPT ![p] = t],
         UNCHANGED <<dir, edits, wish, together>>,
         OrderTypes(m), OrderTypes(conf'),
         OrderStands => Stands(conf') /\ (l \in Holding => Stands(m)),
         OrderStands /\ l \in Running =>
           edits > 1 \/ \A f \in Files : t[f] = IF f \in Starts(m) THEN 1 ELSE 0,
         WishStands => \/ wish = <<>>
                       \/ /\ Wished(conf') \/ \E q \in Procs : pc'[q] = "fill"
                          /\ l \in Holding => Wished(m)
  PROVE  OrderInv'
<1>1. OrderStands /\ LoadsAll /\ WishStands BY DEF OrderInv
<1>2. mem'[p] = m /\ \A q \in Procs : q # p => mem'[q] = mem[q] BY DEF ClockInv, ClockTypes
<1>3. pc'[p] = l /\ \A q \in Procs : q # p => pc'[q] = pc[q] BY DEF IInv, PidTypes
<1>4. loaded'[p] = t /\ \A q \in Procs : q # p => loaded'[q] = loaded[q] BY DEF FilesKnown
<1>5. OrdersKnown'
  <2>1. \A q \in Procs : OrderTypes(mem'[q]) BY <1>2 DEF OrderInv, OrdersKnown
  <2>2. QED BY <2>1 DEF OrdersKnown, OrderTypes
<1>6. \A c : Stands(c) => Stands(c)'
  BY DEF Stands, UpToDate, Once, Lacks, Current, Counted, Counts, Listed, Loadable
<1>7. \A c : Loadable(c)' = Loadable(c) BY DEF Loadable
<1>8. \A c : Wished(c) => Wished(c)' BY DEF Wished, Complete, Listed
<1>9. OrderStands'
  <2>1. Stands(conf') /\ (l \in Holding => Stands(m)) BY <1>1
  <2>2. \A q \in Procs : pc'[q] \in Holding => Stands(mem'[q])
    BY <1>1, <1>2, <1>3, <2>1 DEF OrderStands
  <2>3. QED
    BY <2>1, <2>2 DEF OrderStands, Stands, UpToDate, Once, Lacks, Current, Counted, Counts, Listed, Loadable
<1>10. LoadsAll'
  <2>1. ASSUME NEW q \in Procs, pc'[q] \in Running, ~(edits > 1), NEW f \in Files
        PROVE  loaded'[q][f] = IF f \in Starts(mem'[q]) THEN 1 ELSE 0
    <3>1. CASE q = p BY <1>1, <1>2, <1>3, <1>4, <2>1, <3>1
    <3>2. CASE q # p BY <1>1, <1>2, <1>3, <1>4, <2>1, <3>2, LoadsStarts DEF StartsAll
    <3>3. QED BY <3>1, <3>2
  <2>2. StartsAll' BY <2>1 DEF StartsAll, Starts, Loadable, Lacks, Listed
  <2>3. QED BY <2>2, LoadsStarts, PTL
<1>11. WishStands'
  <2>1. CASE wish = <<>> BY <2>1 DEF WishStands
  <2>2. CASE wish # <<>>
    <3>1. Wished(conf') \/ \E q \in Procs : pc'[q] = "fill" BY <1>1, <2>2
    <3>2. \A q \in Procs : pc'[q] \in Holding => Wished(mem'[q])
      BY <1>1, <1>2, <1>3, <2>2 DEF WishStands
    <3>3. QED BY <3>1, <3>2 DEF WishStands, Wished, Complete, Listed
  <2>3. QED BY <2>1, <2>2
<1>12. QED BY <1>5, <1>9, <1>10, <1>11 DEF OrderInv

\* A daemon's end takes its list with it.
LEMMA EndOrders ==
  ASSUME IInv, ClockInv, FilesKnown, OrderInv, ~together, NEW p \in Procs, Dies(p),
         UNCHANGED <<conf, dir, edits, wish, together>>, pc[p] # "fill"
  PROVE  OrderInv'
<1>1. /\ mem' = [mem EXCEPT ![p] = EmptyConf] /\ pc' = [pc EXCEPT ![p] = "dead"]
      /\ loaded' = [loaded EXCEPT ![p] = NoThreads]
  BY DEF Dies
<1>2. \A q \in Procs : pc[q] = "fill" => pc'[q] = "fill"
  BY <1>1 DEF IInv, PidTypes
<1>3. OrderTypes(conf') /\ OrderTypes(EmptyConf) BY EmptyStands DEF OrderInv, OrdersKnown
<1>4. OrderStands => Stands(conf') BY DEF OrderStands
<1>5. WishStands => \/ wish = <<>>
                    \/ Wished(conf') \/ \E q \in Procs : pc'[q] = "fill"
  BY <1>2 DEF WishStands
<1>6. "dead" \notin Holding /\ "dead" \notin Running BY DEF Running
<1>7. QED BY <1>1, <1>3, <1>4, <1>5, <1>6, OneOrders

\* A daemon reads the list when nobody fills the file.
LEMMA OpenOrders ==
  ASSUME IInv, ClockInv, FilesKnown, OrderInv, ~together, NEW p \in Procs, ConfOpen(p)
  PROVE  OrderInv'
<1>1. /\ pc[p] = "conf" /\ mem' = [mem EXCEPT ![p] = conf]
      /\ UNCHANGED <<conf, dir, loaded, edits, wish, together, torn>>
  BY DEF ConfOpen
<1>2. PICK l \in {"load", "save"} : pc' = [pc EXCEPT ![p] = l] BY DEF ConfOpen
<1>3. \A q \in Procs : pc[q] # "fill" BY <1>1, OnlyServes
<1>4. loaded' = [loaded EXCEPT ![p] = loaded[p]] BY <1>1 DEF FilesKnown
<1>5. OrderTypes(conf) /\ conf' = conf BY <1>1 DEF OrderInv, OrdersKnown
<1>6. l \notin Running BY DEF Running
<1>7. OrderStands => Stands(conf) /\ (l \in Holding => Stands(conf))
  BY DEF OrderStands
<1>8. WishStands => \/ wish = <<>> \/ (Wished(conf) /\ (l \in Holding => Wished(conf)))
  BY <1>3 DEF WishStands
<1>9. QED BY <1>1, <1>2, <1>4, <1>5, <1>6, <1>7, <1>8, OneOrders

\* uf_conf_write empties the file, and then fills it from memory.
LEMMA TruncateOrders ==
  ASSUME IInv, ClockInv, FilesKnown, OrderInv, ~together, NEW p \in Procs, ConfTruncate(p)
  PROVE  OrderInv'
<1>1. pc[p] = "save" /\ UNCHANGED <<dir, edits, wish, together>> BY DEF ConfTruncate
<1>2. CASE conf' = EmptyConf /\ pc' = [pc EXCEPT ![p] = "fill"] /\ UNCHANGED memory
  <2>1. mem' = [mem EXCEPT ![p] = mem[p]] BY <1>2 DEF ClockInv, ClockTypes
  <2>2. loaded' = [loaded EXCEPT ![p] = loaded[p]] BY <1>2 DEF FilesKnown
  <2>3. OrderTypes(conf') /\ Stands(conf') BY <1>2, EmptyStands DEF Stands
  <2>4. OrderTypes(mem[p]) BY DEF OrderInv, OrdersKnown
  <2>5. OrderStands => Stands(conf') /\ ("fill" \in Holding => Stands(mem[p]))
    BY <1>1, <2>3 DEF OrderStands
  <2>6. pc'[p] = "fill" BY <1>2 DEF IInv, PidTypes
  <2>7. WishStands => \/ wish = <<>>
                      \/ /\ Wished(conf') \/ \E q \in Procs : pc'[q] = "fill"
                         /\ "fill" \in Holding => Wished(mem[p])
    BY <1>1, <2>6 DEF WishStands
  <2>8. "fill" \notin Running BY DEF Running
  <2>9. QED BY <1>1, <1>2, <2>1, <2>2, <2>3, <2>4, <2>5, <2>7, <2>8, OneOrders
<1>3. CASE Dies(p) /\ UNCHANGED conf
  <2>1. QED BY <1>1, <1>3, EndOrders
<1>4. QED BY <1>2, <1>3 DEF ConfTruncate

\* The user's order is not built anew.
LEMMA WishedStays ==
  ASSUME dir \subseteq Files, NEW c, OrderTypes(c), Wished(c)
  PROVE  ~MustRebuild(c)
<1>1. c.total = Cardinality(dir) /\ Listed(c) = dir BY DEF Wished, Complete
<1>2. CASE dir = {} BY <1>2 DEF MustRebuild
<1>3. CASE dir # {}
  <2>1. PICK n \in Nat : n = c.total /\ n # 0 BY <1>1, <1>3, DirFinite
  <2>2. 0 \in 0..n-1 BY <2>1
  <2>3. c.order[0] \in dir BY <1>1, <2>1, <2>2 DEF Listed
  <2>4. c.order[0] # Old BY <2>3, FilesAssumption DEF Old
  <2>5. c.total # -1 BY <2>1
  <2>6. QED BY <1>1, <2>4, <2>5 DEF MustRebuild
<1>4. QED BY <1>2, <1>3

LEMMA LoadOrders ==
  ASSUME IInv, ClockInv, FilesKnown, OrderInv, ~together, NEW p \in Procs,
         NEW names \in Names(mem[p]), LoadAll(p, names)
  PROVE  OrderInv'
<1> DEFINE c == mem[p]
           m == IF MustRebuild(c) THEN Rebuilt(c, names) ELSE c
           t == [f \in Files |-> IF f \in Loadable(c) THEN Tries(names, f) ELSE 0]
<1>1. /\ pc[p] = "load" /\ pc' = [pc EXCEPT ![p] = "install"]
      /\ loaded' = [loaded EXCEPT ![p] = t]
      /\ UNCHANGED <<conf, dir, edits, wish, together, torn>>
  BY DEF LoadAll
<1>2. mem' = [mem EXCEPT ![p] = m]
  <2>1. CASE MustRebuild(mem[p]) BY <2>1 DEF LoadAll
  <2>2. CASE ~MustRebuild(mem[p]) BY <2>2 DEF LoadAll, ClockInv, ClockTypes
  <2>3. QED BY <2>1, <2>2
<1>3. OrderTypes(c) /\ OrderTypes(conf') /\ dir \subseteq Files /\ edits \in Nat
  BY <1>1 DEF OrderInv, OrdersKnown, FilesKnown
<1>4. MustRebuild(c) => names \in SetToSeqs(Counted(c)) BY DEF Names
<1>5. /\ OrderTypes(m) /\ Loadable(m) = Loadable(c)
      /\ MustRebuild(c) => Stands(m) /\ Starts(m) = Loadable(m)
  <2>1. CASE MustRebuild(c)
    <3>1. OrderTypes(m) /\ Once(m) /\ Current(m) /\ ~Lacks(m) /\ Loadable(m) = Loadable(c)
      BY <1>3, <1>4, <2>1, RebuiltStands
    <3>2. Loadable(m) \subseteq Listed(m) BY <1>3, <3>1, CountedFinite DEF Current
    <3>3. Stands(m) BY <3>1, <3>2 DEF Stands, UpToDate
    <3>4. Starts(m) = Loadable(m) BY <3>1 DEF Starts
    <3>5. QED BY <3>1, <3>3, <3>4
  <2>2. CASE ~MustRebuild(c) BY <1>3, <2>2
  <2>3. QED BY <2>1, <2>2
<1>6. OrderStands => Stands(conf') /\ Stands(m)
  BY <1>1, <1>5 DEF OrderStands
<1>7. OrderStands => edits > 1 \/ \A f \in Files : t[f] = IF f \in Starts(m) THEN 1 ELSE 0
  <2> SUFFICES ASSUME OrderStands, ~(edits > 1), NEW f \in Files
               PROVE  t[f] = IF f \in Starts(m) THEN 1 ELSE 0
    OBVIOUS
  <2>1. Stands(c) /\ edits <= 1 BY <1>1, <1>3 DEF OrderStands
  <2>2. f \in Loadable(c) =>
          IF MustRebuild(c) \/ f \in Starts(c) THEN Tries(names, f) = 1 ELSE Tries(names, f) = 0
    BY <1>3, <2>1, StandsLoads
  <2>3. Starts(m) \subseteq Loadable(m) BY DEF Starts
  <2>4. t[f] = IF f \in Loadable(c) THEN Tries(names, f) ELSE 0 OBVIOUS
  <2>5. CASE MustRebuild(c) BY <1>5, <2>2, <2>4, <2>5
  <2>6. CASE ~MustRebuild(c)
    <3>1. m = c BY <2>6
    <3>2. QED BY <2>2, <2>3, <2>4, <2>6, <3>1
  <2>7. QED BY <2>5, <2>6
<1>8. WishStands => \/ wish = <<>>
                    \/ /\ Wished(conf') \/ \E q \in Procs : pc'[q] = "fill"
                       /\ Wished(m)
  <2>1. CASE wish = <<>> BY <2>1
  <2>2. CASE wish # <<>>
    <3> SUFFICES ASSUME WishStands
                 PROVE  /\ Wished(conf') \/ \E q \in Procs : pc'[q] = "fill"
                        /\ Wished(m)
      OBVIOUS
    <3>1. Wished(c) BY <1>1, <2>2 DEF WishStands
    <3>2. m = c BY <1>3, <3>1, WishedStays
    <3>3. Wished(conf) \/ \E q \in Procs : pc[q] = "fill" BY <2>2 DEF WishStands
    <3>4. \A q \in Procs : pc[q] = "fill" => pc'[q] = "fill" BY <1>1 DEF IInv, PidTypes
    <3>5. QED BY <1>1, <3>1, <3>2, <3>3, <3>4
  <2>3. QED BY <2>1, <2>2
<1> HIDE DEF c, m, t
<1>9. QED BY <1>1, <1>2, <1>3, <1>5, <1>6, <1>7, <1>8, OneOrders

\* What the daemon saves is what the file then says. A list that is current starts anew.
LEMMA FillOrders ==
  ASSUME IInv, ClockInv, FilesKnown, OrderInv, ~together, NEW p \in Procs, ConfFill(p)
  PROVE  OrderInv'
<1> DEFINE c == mem[p]
<1>1. /\ pc[p] = "fill" /\ conf' = c
      /\ wish' = IF wish = <<>> /\ Complete(c) THEN <<c.order>> ELSE wish
      /\ edits' = IF Current(c) THEN 0 ELSE edits
      /\ UNCHANGED <<dir, together>>
  BY DEF ConfFill
<1>2. pc' = [pc EXCEPT ![p] = "dead"] /\ mem' = [mem EXCEPT ![p] = EmptyConf]
  BY DEF ConfFill, Dies
<1>3. \A q \in Procs : pc'[q] \notin Holding
  <2>1. \A q \in Procs : q # p => pc[q] \notin Serving BY <1>1, OnlyServes
  <2>2. QED BY <1>2, <2>1 DEF IInv, PidTypes
<1>4. OrderStands /\ WishStands BY DEF OrderInv
<1>5. OrdersKnown'
  <2>1. \A q \in Procs : OrderTypes(mem'[q])
    BY <1>2, EmptyStands DEF OrderInv, OrdersKnown, ClockInv, ClockTypes
  <2>2. OrderTypes(conf') BY <1>1 DEF OrderInv, OrdersKnown
  <2>3. QED BY <2>1, <2>2 DEF OrdersKnown, OrderTypes
<1>6. OrderStands'
  <2>1. Stands(c) BY <1>1, <1>4 DEF OrderStands
  <2>2. edits' = 0 => Current(c) \/ edits = 0 BY <1>1
  <2>3. edits' = 1 => edits = 1 BY <1>1
  <2>4. (Current(conf)' <=> Current(c)) /\ Loadable(conf)' = Loadable(c)
    BY <1>1 DEF Current, Counted, Counts, Listed, Loadable
  <2>5. Stands(conf)'
    BY <1>1, <2>1, <2>2, <2>3, <2>4 DEF Stands, UpToDate, Once, Lacks, Listed
  <2>6. QED BY <1>3, <2>5 DEF OrderStands
<1>7. LoadsAll' BY <1>3 DEF LoadsAll
<1>8. WishStands'
  <2>1. CASE wish' = <<>> BY <1>1, <2>1 DEF WishStands
  <2>2. CASE wish' # <<>>
    <3>1. CASE wish = <<>> /\ Complete(c)
      <4>1. wish' = <<c.order>> BY <1>1, <3>1
      <4>2. c.order = wish'[1] BY <4>1
      <4>3. QED BY <1>1, <1>3, <3>1, <4>2 DEF WishStands, Wished, Complete, Listed
    <3>2. CASE ~(wish = <<>> /\ Complete(c))
      <4>1. wish' = wish BY <1>1, <3>2
      <4>2. Wished(c) BY <1>1, <1>4, <2>2, <4>1 DEF WishStands
      <4>3. QED BY <1>1, <1>3, <4>1, <4>2 DEF WishStands, Wished, Complete, Listed
    <3>3. QED BY <3>1, <3>2
  <2>3. QED BY <2>1, <2>2
<1>9. QED BY <1>5, <1>6, <1>7, <1>8 DEF OrderInv

\* What an end in the middle of saving leaves of a list that stands does so too; the
\* loss of a line that switches a plugin off is counted.
LEMMA CrashOrders ==
  ASSUME IInv, ClockInv, FilesKnown, OrderInv, ~together, NEW p \in Procs, Crash(p), pc[p] = "fill"
  PROVE  OrderInv'
<1> DEFINE c == mem[p]
<1>1. PICK I \in SUBSET (0..N-1), t \in {-1, c.total}, d \in SUBSET c.disabled,
            S \in SUBSET Settings : conf' = Partly(c, I, t, d, S)
  BY DEF Crash
<1>2. /\ Dies(p) /\ wish' = <<>> /\ UNCHANGED <<dir, together>>
      /\ edits' = IF conf'.disabled = c.disabled THEN edits ELSE edits + 1
  BY DEF Crash
<1>3. pc' = [pc EXCEPT ![p] = "dead"] /\ mem' = [mem EXCEPT ![p] = EmptyConf]
  BY <1>2 DEF Dies
<1>4. \A q \in Procs : pc'[q] \notin Holding
  <2>1. \A q \in Procs : q # p => pc[q] \notin Serving BY OnlyServes
  <2>2. QED BY <1>3, <2>1 DEF IInv, PidTypes
<1>5. Stands(c) /\ OrderTypes(c) BY DEF OrderInv, OrdersKnown, OrderStands
<1> HIDE DEF c
<1>6. /\ conf'.order = [i \in 0..N-1 |-> IF i \in I THEN c.order[i] ELSE Missing]
      /\ conf'.total = t /\ conf'.disabled = d
  BY <1>1, PartlyParts
<1>7. OrderTypes(conf')
  <2>1. N \in Nat BY FilesAssumption, FS_CardinalityType DEF N
  <2>2. t \in -1..N BY <1>1, <1>5, <2>1 DEF OrderTypes
  <2>3. \A i \in 0..N-1 : c.order[i] \in Files \cup {Missing, Old} BY <1>5 DEF OrderTypes
  <2>4. conf'.order \in [0..N-1 -> Files \cup {Missing, Old}] BY <1>6, <2>3
  <2>5. QED BY <1>6, <2>2, <2>4 DEF OrderTypes
<1>8. OrdersKnown'
  <2>1. \A q \in Procs : OrderTypes(mem'[q])
    BY <1>3, EmptyStands DEF OrderInv, OrdersKnown, ClockInv, ClockTypes
  <2>2. QED BY <1>7, <2>1 DEF OrdersKnown, OrderTypes
<1>9. ASSUME conf'.total # -1 PROVE Stands(conf)'
  <2>1. t = c.total /\ c.total # -1 BY <1>6, <1>9
  <2>2. Once(c) BY <1>5, <2>1 DEF Stands
  <2>3. \A i \in 0..t-1 : i \in 0..N-1
    <3>1. N \in Nat BY FilesAssumption, FS_CardinalityType DEF N
    <3>2. c.total \in -1..N BY <1>5 DEF OrderTypes
    <3>3. QED BY <2>1, <3>1, <3>2
  <2>4. \A i \in 0..t-1 : conf'.order[i] = IF i \in I THEN c.order[i] ELSE Missing BY <1>6, <2>3
  <2>5. Once(conf') BY <1>6, <2>1, <2>2, <2>4 DEF Once
  <2>6. CASE \E i \in 0..t-1 : i \notin I
    <3>1. Lacks(conf') BY <1>6, <2>4, <2>6 DEF Lacks, Listed
    <3>2. QED BY <2>5, <3>1 DEF Stands, Once, Lacks, Listed
  <2>7. CASE \A i \in 0..t-1 : i \in I
    <3>1. \A i \in 0..t-1 : conf'.order[i] = c.order[i] BY <2>4, <2>7
    <3>2. Listed(conf') = Listed(c)
      <4>1. Listed(conf') = {conf'.order[i] : i \in 0..t-1} BY <1>6 DEF Listed
      <4>2. Listed(c) = {c.order[i] : i \in 0..t-1} BY <2>1 DEF Listed
      <4>3. QED BY <3>1, <4>1, <4>2
    <3>3. CASE c.order[0] = Old /\ c.total # 0
      <4>1. 0 \in 0..t-1 BY <1>5, <2>1, <3>3 DEF OrderTypes
      <4>2. conf'.order[0] = Old BY <3>1, <3>3, <4>1
      <4>3. QED BY <1>6, <2>1, <2>5, <3>3, <4>2 DEF Stands, Once
    <3>4. CASE Lacks(c)
      <4>1. Lacks(conf') BY <3>2, <3>4 DEF Lacks
      <4>2. QED BY <2>5, <4>1 DEF Stands, Once, Lacks, Listed
    <3>5. CASE UpToDate(c)
      <4>1. edits \in Nat /\ dir \subseteq Files BY DEF FilesKnown
      <4>2. CASE conf'.disabled = c.disabled
        <5>1. edits' = edits BY <1>2, <4>2
        <5>2. Current(conf)' <=> Current(c)
          BY <1>2, <3>2, <4>2 DEF Current, Counted, Counts, Listed
        <5>3. Loadable(conf)' = Loadable(c) BY <1>2, <4>2 DEF Loadable
        <5>4. UpToDate(conf)' BY <1>2, <1>6, <2>1, <3>2, <3>5, <5>1, <5>2, <5>3 DEF UpToDate, Listed
        <5>5. QED BY <2>5, <5>4 DEF Stands, Once
      <4>3. CASE conf'.disabled # c.disabled
        <5>1. edits' = edits + 1 BY <1>2, <4>3
        <5>2. ASSUME edits' = 1, c.total = Cardinality(dir) PROVE Listed(c) = dir
          <6>1. edits = 0 BY <4>1, <5>1, <5>2
          <6>2. Listed(c) \subseteq dir BY <3>5, <6>1 DEF UpToDate, Current
          <6>3. ~Lacks(c) BY <4>1, <6>2, CurrentWhole
          <6>4. c.total \in Nat /\ IsFiniteSet(dir) BY <4>1, <5>2, DirFinite
          <6>5. Cardinality(Listed(c)) = Cardinality(dir) BY <2>2, <5>2, <6>3, <6>4, ListedCount
          <6>6. QED BY <6>2, <6>4, <6>5, FS_Subset
        <5>3. Loadable(conf)' \subseteq dir BY <1>2 DEF Loadable
        <5>4. UpToDate(conf)'
          <6>1. edits' # 0 BY <4>1, <5>1
          <6>2. edits' = 1 /\ conf'.total = Cardinality(dir) => Loadable(conf)' \subseteq Listed(conf')
            BY <1>6, <2>1, <3>2, <5>2, <5>3
          <6>3. QED BY <1>2, <6>1, <6>2 DEF UpToDate, Listed
        <5>5. QED BY <2>5, <5>4 DEF Stands, Once
      <4>4. QED BY <4>2, <4>3
    <3>6. QED BY <1>5, <2>1, <3>3, <3>4, <3>5 DEF Stands
  <2>8. QED BY <2>6, <2>7
<1>10. Stands(conf)' BY <1>9 DEF Stands
<1>11. OrderStands' BY <1>4, <1>10 DEF OrderStands
<1>12. LoadsAll' BY <1>4 DEF LoadsAll
<1>13. WishStands' BY <1>2 DEF WishStands
<1>14. QED BY <1>8, <1>11, <1>12, <1>13 DEF OrderInv

\* A change of the directory, or of what is switched off, is counted.
LEMMA EditPluginsOrders ==
  ASSUME IInv, ClockInv, FilesKnown, OrderInv, ~together, EditPlugins
  PROVE  OrderInv'
<1>1. PICK f \in Files :
        /\ \/ Edit(IF f \in dir THEN dir \ {f} ELSE dir \cup {f}, conf)
           \/ Edit(dir, [conf EXCEPT !.disabled = IF f \in @ THEN @ \ {f} ELSE @ \cup {f}])
        /\ edits' = edits + 1
        /\ wish' = <<>>
  BY DEF EditPlugins
<1>2. \A q \in Procs : pc'[q] \notin Holding /\ mem'[q] = mem[q]
  BY <1>1 DEF Edit, IInv, PidTypes
<1>3. Known(conf) /\ dir \subseteq Files /\ edits \in Nat
  BY DEF ClockInv, ClockTypes, FilesKnown
<1>4. conf'.order = conf.order /\ conf'.total = conf.total BY <1>1, <1>3 DEF Edit, Known
<1>5. \/ conf'.disabled = conf.disabled /\ (dir' = dir \cup {f} \/ dir' = dir \ {f})
      \/ /\ dir' = dir
         /\ conf'.disabled = conf.disabled \cup {f} \/ conf'.disabled = conf.disabled \ {f}
  <2>1. CASE Edit(IF f \in dir THEN dir \ {f} ELSE dir \cup {f}, conf) BY <2>1 DEF Edit
  <2>2. CASE Edit(dir, [conf EXCEPT !.disabled = IF f \in @ THEN @ \ {f} ELSE @ \cup {f}])
    BY <1>3, <2>2 DEF Edit, Known
  <2>3. QED BY <1>1, <2>1, <2>2
<1>6. dir' \subseteq Files BY <1>3, <1>5
<1>7. OrderTypes(conf) /\ OrderTypes(conf') BY <1>4 DEF OrderInv, OrdersKnown, OrderTypes
<1>8. OrdersKnown' BY <1>2, <1>7 DEF OrderInv, OrdersKnown, OrderTypes
<1>9. Stands(conf)'
  <2> SUFFICES ASSUME conf.total # -1, ~(conf.order[0] = Old /\ conf.total # 0), ~Lacks(conf)
               PROVE  Stands(conf)'
    BY <1>4 DEF Stands, Once, Lacks, Listed, OrderInv, OrderStands
  <2>1. Once(conf) /\ (edits = 0 => Current(conf)) BY DEF OrderInv, OrderStands, Stands, UpToDate
  <2>2. edits' # 0 /\ (edits' = 1 => edits = 0) BY <1>1, <1>3
  <2>3. Once(conf') /\ Listed(conf') = Listed(conf) BY <1>4, <2>1 DEF Once, Listed
  <2>4. ASSUME edits' = 1, conf'.total = Cardinality(dir') PROVE Loadable(conf)' \subseteq Listed(conf)
    <3>1. Current(conf) /\ conf.total = Cardinality(dir') BY <1>4, <2>1, <2>2, <2>4
    <3>2. conf.total \in -1..N BY <1>7 DEF OrderTypes
    <3>3. QED BY <1>3, <1>5, <1>6, <2>1, <3>1, <3>2, OneChange DEF Loadable
  <2>5. QED BY <2>2, <2>3, <2>4 DEF Stands, UpToDate, Once, Listed
<1>10. OrderStands' BY <1>2, <1>9 DEF OrderStands
<1>11. LoadsAll' BY <1>2 DEF LoadsAll
<1>12. WishStands' BY <1>1 DEF WishStands
<1>13. QED BY <1>8, <1>10, <1>11, <1>12 DEF OrderInv

\* Two files of a list that names each once change places.
LEMMA SwapStands ==
  ASSUME NEW c, c.total \in Nat, c.total > 1, NEW D, 0..c.total-1 \subseteq D, c.order = [i \in D |-> c.order[i]],
         NEW n, n = [c.order EXCEPT ![0] = c.order[1], ![1] = c.order[0]],
         NEW d, d.order = n, d.total = c.total, Once(c)
  PROVE  Once(d) /\ Listed(d) = Listed(c)
<1>1. PICK t \in Nat : t = c.total /\ t > 1 OBVIOUS
<1>2. 0 \in 0..t-1 /\ 1 \in 0..t-1 BY <1>1
<1>3. \A i \in 0..t-1 : n[i] = IF i = 0 THEN c.order[1] ELSE IF i = 1 THEN c.order[0] ELSE c.order[i]
  BY <1>1, <1>2
<1>4. Once(d)
  <2>1. ASSUME NEW i \in 0..t-1, NEW j \in 0..t-1, n[i] = n[j], n[i] # Missing PROVE i = j
    <3> DEFINE s(k) == IF k = 0 THEN 1 ELSE IF k = 1 THEN 0 ELSE k
    <3>1. n[i] = c.order[s(i)] /\ n[j] = c.order[s(j)] BY <1>3
    <3>2. s(i) \in 0..t-1 /\ s(j) \in 0..t-1 BY <1>2
    <3>3. s(i) = s(j) BY <1>1, <2>1, <3>1, <3>2 DEF Once
    <3>4. QED BY <3>3
  <2>2. QED BY <1>1, <2>1 DEF Once
<1>5. ASSUME NEW i \in 0..t-1 PROVE \E j \in 0..t-1 : n[j] = c.order[i]
  <2>1. CASE i = 0 BY <1>2, <1>3, <2>1
  <2>2. CASE i = 1 BY <1>2, <1>3, <2>2
  <2>3. CASE i # 0 /\ i # 1 BY <1>3, <2>3
  <2>4. QED BY <2>1, <2>2, <2>3
<1>6. \A i \in 0..t-1 : \E j \in 0..t-1 : c.order[j] = n[i] BY <1>2, <1>3
<1>7. Listed(d) = Listed(c)
  <2>1. /\ Listed(d) = {n[i] : i \in 0..t-1}
        /\ Listed(c) = {c.order[i] : i \in 0..t-1}
    BY <1>1 DEF Listed
  <2>2. ASSUME NEW f \in Listed(d) PROVE f \in Listed(c)
    <3>1. PICK i \in 0..t-1 : f = n[i] BY <2>1
    <3>2. PICK j \in 0..t-1 : c.order[j] = n[i] BY <1>6
    <3>3. QED BY <2>1, <3>1, <3>2
  <2>3. ASSUME NEW f \in Listed(c) PROVE f \in Listed(d)
    <3>1. PICK i \in 0..t-1 : f = c.order[i] BY <2>1
    <3>2. PICK j \in 0..t-1 : n[j] = c.order[i] BY <1>5
    <3>3. QED BY <2>1, <3>1, <3>2
  <2>4. QED BY <2>2, <2>3
<1>8. QED BY <1>4, <1>7

\* The user orders the list anew in the file.
LEMMA EditOrderOrders ==
  ASSUME IInv, ClockInv, FilesKnown, OrderInv, ~together, EditOrder
  PROVE  OrderInv'
<1> DEFINE o == [conf.order EXCEPT ![0] = conf.order[1], ![1] = conf.order[0]]
           d == Reordered(conf, o, conf.total)
<1>1. /\ Complete(conf) /\ conf.total > 1 /\ conf' = d /\ wish' = <<conf'.order>>
      /\ UNCHANGED <<dir, pc, mem, edits>> /\ \A q \in Procs : ~Alive(q)
  BY DEF EditOrder, Edit
<1>2. \A q \in Procs : pc'[q] \notin Holding BY <1>1 DEF IInv, PidTypes
<1>3. OrderTypes(conf) /\ dir \subseteq Files BY DEF OrderInv, OrdersKnown, FilesKnown
<1>4. PICK t \in Nat : t = conf.total /\ t > 1 /\ t <= N /\ N \in Nat
  BY <1>1, <1>3, DirFinite DEF Complete
<1>5. 0 \in 0..t-1 /\ 1 \in 0..t-1 /\ 0..t-1 \subseteq 0..N-1 BY <1>4
<1>6. o \in [0..N-1 -> Files \cup {Missing, Old}] BY <1>3, <1>5 DEF OrderTypes
<1>7. /\ d.order = o /\ d.total = conf.total
      /\ Counted(d) = Counted(conf) /\ Loadable(d) = Loadable(conf)
  BY ReorderedParts
<1>8. Once(conf) /\ (edits = 0 => Current(conf))
  <2>1. conf.order[0] \in dir BY <1>1, <1>4, <1>5 DEF Complete, Listed
  <2>2. conf.order[0] # Old BY <1>3, <2>1, FilesAssumption DEF Old
  <2>3. conf.total # -1 BY <1>4
  <2>4. ~Lacks(conf) BY <1>1, <1>3, CurrentWhole DEF Complete
  <2>5. QED BY <2>2, <2>3, <2>4 DEF OrderInv, OrderStands, Stands, UpToDate
<1>9. Once(d) /\ Listed(d) = Listed(conf)
  <2>1. conf.order = [i \in 0..N-1 |-> conf.order[i]] BY <1>3 DEF OrderTypes
  <2>2. o = [conf.order EXCEPT ![0] = conf.order[1], ![1] = conf.order[0]] OBVIOUS
  <2>3. conf.total \in Nat /\ 0..conf.total-1 \subseteq 0..N-1 BY <1>4, <1>5
  <2> HIDE DEF o, d
  <2>4. QED BY <1>1, <1>7, <1>8, <2>1, <2>2, <2>3, SwapStands
<1> HIDE DEF o, d
<1>10. OrdersKnown'
  <2>1. OrderTypes(d) BY <1>3, <1>6, <1>7 DEF OrderTypes
  <2>2. QED BY <1>1, <2>1 DEF OrderInv, OrdersKnown, OrderTypes
<1>11. OrderStands'
  <2>1. Listed(conf) = dir BY <1>1 DEF Complete
  <2>2. Loadable(d) \subseteq Listed(d) BY <1>9, <2>1 DEF Loadable
  <2>3. Current(conf) => Current(d) BY <1>7, <1>9 DEF Current
  <2>4. Once(d) /\ UpToDate(d) BY <1>8, <1>9, <2>2, <2>3 DEF UpToDate
  <2>5. Stands(conf)'
    BY <1>1, <2>4 DEF Stands, UpToDate, Once, Current, Counted, Counts, Listed, Loadable
  <2>6. QED BY <1>2, <2>5 DEF OrderStands
<1>12. LoadsAll' BY <1>2 DEF LoadsAll
<1>13. WishStands'
  <2>1. conf'.order = wish'[1] BY <1>1
  <2>2. Complete(d) BY <1>1, <1>7, <1>9 DEF Complete
  <2>3. Wished(conf)' BY <1>1, <2>1, <2>2 DEF Wished, Complete, Listed
  <2>4. QED BY <1>2, <2>3 DEF WishStands
<1>14. QED BY <1>10, <1>11, <1>12, <1>13 DEF OrderInv

\* The clock's settings are no part of the list.
LEMMA HandlersKeepOrders ==
  ASSUME IInv, ClockInv, FilesKnown, OrderInv, ~together, NEW p \in Procs,
         myinithandler(p) \/ \E s \in Settings : myeventhandler(p, s)
  PROVE  OrderInv'
<1>1. UNCHANGED <<pc, conf, dir, loaded, edits, wish, together>>
  BY DEF myinithandler, myeventhandler
<1>2. \A q \in Procs : Known(mem[q]) BY DEF ClockInv, ClockTypes
<1>3. SameList(conf', conf) BY <1>1 DEF SameList
<1>4. PICK k : mem' = [mem EXCEPT ![p].clock = k]
  <2>1. CASE myinithandler(p) BY <2>1 DEF myinithandler
  <2>2. ASSUME NEW s \in Settings, myeventhandler(p, s)
        PROVE  mem' = [mem EXCEPT ![p].clock = [mem[p].clock EXCEPT ![s] = Other(shown[p][s])]]
    <3>1. mem' = [mem EXCEPT ![p].clock[s] = Other(shown[p][s])]
      BY <2>2 DEF myeventhandler, Toggled
    <3>2. QED BY <3>1
  <2>3. QED BY <2>1, <2>2
<1>5. mem' = [mem EXCEPT ![p] = [mem[p] EXCEPT !.clock = k]] BY <1>4 DEF ClockInv, ClockTypes
<1>6. \A q \in Procs : SameList(mem'[q], mem[q]) BY <1>2, <1>5 DEF SameList, Known, ClockInv, ClockTypes
<1>7. QED BY <1>1, <1>3, <1>6, MoveOrders

LEMMA StillOrders ==
  ASSUME OrderInv, UNCHANGED <<dir, edits, wish, loaded, conf, mem>>,
         together => together',
         \A q \in Procs : /\ pc'[q] \in Holding => pc[q] \in Holding
                          /\ pc'[q] \in Running => pc[q] \in Running
                          /\ pc[q] = "fill" => pc'[q] = "fill"
  PROVE  OrderInv'
<1>1. SameList(conf', conf) /\ \A q \in Procs : SameList(mem'[q], mem[q]) BY DEF SameList
<1>2. QED BY <1>1, MoveOrders

LEMMA LifeKeepsOrders ==
  ASSUME IInv, ClockInv, FilesKnown, OrderInv, ~together, NEW p \in Procs, Life(p)
  PROVE  OrderInv'
<1> USE DEF IInv, PidTypes, Running
<1>1. CASE Look(p) BY <1>1, StillOrders DEF Look
<1>2. CASE Attach(p) BY <1>2, StillOrders DEF Attach
<1>3. CASE CreatePidfile(p) BY <1>3, StillOrders DEF CreatePidfile
<1>4. CASE WritePidfile(p) BY <1>4, StillOrders DEF WritePidfile
<1>5. CASE \E running \in BOOLEAN : FirstJudged(p, running) \/ SecondJudged(p, running)
  BY <1>5, StillOrders DEF FirstJudged, SecondJudged
<1>6. CASE ConfOpen(p) BY <1>6, OpenOrders
<1>7. CASE \E names \in Names(mem[p]) : LoadAll(p, names) BY <1>7, LoadOrders
<1>8. CASE LoadDies(p)
  <2>1. Dies(p) /\ pc[p] # "fill" /\ UNCHANGED <<conf, dir, edits, wish, together, torn>>
    BY <1>8 DEF LoadDies
  <2>2. QED BY <2>1, EndOrders
<1>9. CASE InstallHandlers(p) BY <1>9, StillOrders DEF InstallHandlers
<1>10. CASE Pause(p) BY <1>10, StillOrders DEF Pause
<1>11. CASE Teardown(p) BY <1>11, StillOrders DEF Teardown
<1>12. CASE ConfTruncate(p) BY <1>12, TruncateOrders
<1>13. CASE ConfFill(p) BY <1>13, FillOrders
<1>14. CASE myinithandler(p) BY <1>14, HandlersKeepOrders
<1>15. QED
  BY <1>1, <1>2, <1>3, <1>4, <1>5, <1>6, <1>7, <1>8, <1>9, <1>10, <1>11, <1>12, <1>13, <1>14 DEF Life

LEMMA WorldKeepsOrders ==
  ASSUME IInv, ClockInv, FilesKnown, OrderInv, ~together, NEW p \in Procs, World(p)
  PROVE  OrderInv'
<1> USE DEF IInv, PidTypes, Running
<1>1. CASE \E k \in {"daemon", "ask"} : Start(p, k) BY <1>1, StillOrders DEF Start
<1>2. CASE Signal(p) BY <1>2, StillOrders DEF Signal
<1>3. CASE Crash(p)
  <2>1. CASE pc[p] = "fill" BY <1>3, <2>1, CrashOrders
  <2>2. CASE pc[p] # "fill"
    <3>1. Dies(p) /\ UNCHANGED <<conf, dir, edits, wish, together>> BY <1>3, <2>2 DEF Crash
    <3>2. QED BY <2>2, <3>1, EndOrders
  <2>3. QED BY <2>1, <2>2
<1>4. CASE \E s \in Settings : myeventhandler(p, s) BY <1>4, HandlersKeepOrders
<1>5. QED BY <1>1, <1>2, <1>3, <1>4 DEF World

LEMMA OrderStep == IInv /\ ClockInv /\ FilesKnown /\ OrderInv /\ [Next]_vars => OrderInv'
<1> SUFFICES ASSUME IInv, ClockInv, FilesKnown, OrderInv, [Next]_vars PROVE OrderInv'
  OBVIOUS
<1>1. CASE UNCHANGED vars BY <1>1, StillOrders DEF vars
<1>2. ASSUME ~together, NEW p \in Procs, Life(p) PROVE OrderInv' BY <1>2, LifeKeepsOrders
<1>3. ASSUME ~together, NEW p \in Procs, World(p) PROVE OrderInv' BY <1>3, WorldKeepsOrders
<1>4. CASE ~together /\ EditPlugins BY <1>4, EditPluginsOrders
<1>5. CASE ~together /\ EditOrder BY <1>5, EditOrderOrders
<1>6. QED BY <1>1, <1>2, <1>3, <1>4, <1>5 DEF Next

LEMMA InitPlugins == Init => FilesKnown /\ OrderInv
<1> SUFFICES ASSUME Init PROVE FilesKnown /\ OrderInv
  OBVIOUS
<1>1. /\ pidfile = 0 /\ written = FALSE /\ edits = 0 /\ wish = <<>>
      /\ kind = [p \in Procs |-> "daemon"] /\ pc = [p \in Procs |-> "unborn"]
      /\ found = [p \in Procs |-> 0] /\ torn = FALSE
      /\ mem = [p \in Procs |-> EmptyConf] /\ loaded = [p \in Procs |-> NoThreads]
  BY DEF Init
<1>2. \/ conf = EmptyConf /\ dir = Files \ (Broken \cup Libraries)
      \/ conf = OldConf /\ dir = Files
  BY DEF Init
<1>3. FilesKnown
  <2>1. MaxProcs \in Nat /\ dir \subseteq Files BY <1>2, FilesAssumption
  <2>2. pidfile \in 0..MaxProcs /\ edits \in Nat BY <1>1, <2>1
  <2>3. /\ written \in BOOLEAN /\ kind \in [Procs -> {"daemon", "ask"}]
        /\ torn \in BOOLEAN /\ loaded = [p \in Procs |-> loaded[p]]
    BY <1>1
  <2>4. found \in [Procs -> -1..MaxProcs] BY <1>1, <2>1
  <2>5. QED BY <2>1, <2>2, <2>3, <2>4 DEF FilesKnown
<1>4. OrdersKnown BY <1>1, <1>2, EmptyStands, OldStands DEF OrdersKnown
<1>5. Stands(conf)
  <2>1. CASE conf = EmptyConf BY <2>1, EmptyStands DEF Stands
  <2>2. CASE conf = OldConf /\ N # 0 BY <2>2, OldStands DEF Stands
  <2>3. CASE conf = OldConf /\ N = 0
    <3>1. dir = {} BY <1>3, <2>3, DirFinite DEF FilesKnown
    <3>2. Once(conf) /\ Listed(conf) = {} BY <2>3, OldStands DEF Once, Listed
    <3>3. UpToDate(conf) BY <1>1, <3>1, <3>2 DEF UpToDate, Current, Counted
    <3>4. QED BY <3>2, <3>3 DEF Stands
  <2>4. QED BY <1>2, <2>1, <2>2, <2>3
<1>6. QED BY <1>1, <1>3, <1>4, <1>5 DEF OrderInv, OrderStands, LoadsAll, WishStands

(* The plugin loader's promises, for any number of processes and files: a daemon *)
(* that serves has started each plugin that is there and enabled once, and the   *)
(* user's load order stays (g15_open_all_plugins, uf_conf_write).                *)
THEOREM PluginsStay == Spec => []PluginsKept
<1>1. Init => IInv /\ ClockInv /\ FilesKnown /\ OrderInv BY InitInvariant, InitClock, InitPlugins
<1>2. IInv /\ ClockInv /\ FilesKnown /\ OrderInv /\ [Next]_vars
        => (IInv /\ ClockInv /\ FilesKnown /\ OrderInv)'
  BY StepKeeps, ClockStep, FilesStep, OrderStep
<1>3. IInv /\ ClockInv /\ FilesKnown /\ OrderInv => PluginsKept
  <2> SUFFICES ASSUME IInv, ClockInv, FilesKnown, OrderInv PROVE PluginsKept
    OBVIOUS
  <2>1. TypeOK
    BY DEF TypeOK, IInv, PidTypes, ClockInv, ClockTypes, FilesKnown, OrderInv, OrdersKnown, OrderTypes
  <2>2. LoadsAll BY DEF OrderInv, LoadsAll
  <2>3. OrderKept BY DEF OrderInv, WishStands, Wished, OrderKept
  <2>4. QED BY <2>1, <2>2, <2>3 DEF PluginsKept
<1>4. QED BY <1>1, <1>2, <1>3, PTL DEF Spec
=============================================================================
