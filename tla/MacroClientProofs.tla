-------------------------- MODULE MacroClientProofs --------------------------
(* Proofs about MacroClient for any keys, strokes, configurations and sizes:   *)
(* what is recorded stays with its configuration, and is on the disk at rest.  *)
EXTENDS MacroClient, FiniteSetTheorems, SequenceTheorems, TLAPS

LPlaces == {"poll", "switch", "clear", "complete", "reset", "stop", "check", "play", "playing", "open",
            "lock", "dump", "close", "clean", "select", "restore", "path", "hung", "free", "join", "ended"}
XPlaces == {"idle", "count", "open", "lock", "dump", "close", "ended"}
MainPlaces == {"idle", "open", "lock", "dump", "close", "free", "join", "ended"}

Saves == [path : Configs, orig : 0..NPalettes, buf : Macros, ret : {"idle", "save", "clean", "free"}]

\* Where the threads can be, and where a save returns to.
PlacesOK ==
  /\ pc \in [Threads -> LPlaces \cup XPlaces \cup MainPlaces]
  /\ pc["L"] \in LPlaces /\ pc["X"] \in XPlaces /\ pc["main"] \in MainPlaces
ReturnsOK ==
  /\ Saving("L") => save["L"].ret # "save"
  /\ pc["L"] \in {"reset", "stop"} => save["L"].ret \in {"idle", "save"}
  /\ save["X"].ret = "idle" /\ (Saving("main") => save["main"].ret = "free")
Control == PlacesOK /\ save \in [Threads -> Saves] /\ ReturnsOK

\* Who has config_mutex: the thread that dumps, or L, playing, refusing a file,
\* or going round in a directory.
MutexOwned ==
  /\ \A t \in Threads : pc[t] = "dump" => config_mutex = t
  /\ pc["L"] \in {"playing", "hung"} => config_mutex = "L"
  /\ \A t \in Threads : config_mutex = t =>
       \/ pc[t] = "dump"
       \/ t = "L" /\ pc["L"] \in {"playing", "open", "lock", "free", "join", "hung"}
  /\ Refusing /\ Saving("L") => save["L"].ret = "free"

\* Only a dump takes the palette past the last one, and puts it back.
PaletteBack ==
  /\ (\A t \in Threads : pc[t] # "dump") => mkey_state \in Palettes
  /\ \A t \in Threads : pc[t] = "dump" => save[t].orig \in Palettes

\* The next save goes to the configuration in use, except while L changes it.
PathCurrent == pc["L"] \notin {"restore", "path", "hung"} => configpath = currConfig

(* What follows holds as long as no save of X or main met a step of L that it  *)
(* cannot bear. Until it has dumped, a save is about the macros in memory.     *)
PathOfSave ==
  /\ \A t \in Threads : pc[t] \in {"open", "lock", "dump"} =>
                          save[t].path = currConfig /\ pc["L"] \notin Gone
  /\ pc["L"] = "close" => save["L"].path = currConfig

PaletteLit ==
  pc["L"] # "switch" =>
    /\ \A t \in Threads : pc[t] = "dump" => save[t].orig = mled_state
    /\ (\A t \in Threads : pc[t] # "dump") => mkey_state = mled_state

\* A save's buffer holds the palettes that it has walked.
Walked == \A t \in Threads : pc[t] = "dump" =>
            \A p \in Palettes : p < mkey_state => save[t].buf[p] = macros[p]

\* Saves about to end bring one and the same to a file, and what is in memory
\* to that of the configuration in use.
Brought ==
  /\ \A t \in Threads : pc[t] = "close" /\ InMemory(save[t].path) => save[t].buf = macros
  /\ \A t, u \in Threads : pc[t] = "close" /\ pc[u] = "close" /\ save[t].path = save[u].path
                              => save[t].buf = save[u].buf

OnDisk == Restored(file[currConfig]) = macros
Pending == \E t \in {"X", "main"} : pc[t] \in {"lock", "dump", "close"} /\ save[t].path = currConfig
Held == OnDisk \/ Pending \/ currConfig \in unsaved

Quiet == {"poll", "ended", "switch", "clear", "complete", "check", "play", "playing", "path"}

Saved ==
  /\ pc["L"] \in Quiet \/ (pc["L"] \in {"reset", "stop"} /\ save["L"].ret = "idle") => Held \/ Emptied
  /\ pc["L"] = "clean" => Held

Tidy == PathOfSave /\ PaletteLit /\ Walked /\ Saved
Unmixed == Tidy /\ Brought

IInv ==
  /\ TypeOK /\ Control /\ MutexOwned /\ PaletteBack /\ PathCurrent
  /\ ~mixed => Unmixed

-----------------------------------------------------------------------------
(* Data: what the helpers give. *)

LEMMA ConfigsBound == numConfigs \in Nat /\ 0 \in Configs
<1> DEFINE named == Counted
<1>1. DOMAIN Lines = 1..Len(Lines) /\ Len(Lines) \in Nat
  BY SizesAssumption
<1>2. IsFiniteSet(1..Len(Lines))
  BY <1>1, FS_Interval
<1>3. named \subseteq 1..Len(Lines)
  BY <1>1 DEF Counted
<1>4. IsFiniteSet(named)
  BY <1>2, <1>3, FS_Subset
<1>5. Cardinality(named) \in Nat
  BY <1>4, FS_CardinalityType
<1>6. MaxConfigs \in Nat \ {0}
  BY SizesAssumption
<1>7. numConfigs \in Nat
  BY <1>5, <1>6 DEF numConfigs, loadMultiConfig
<1>8. QED
  BY <1>7 DEF Configs

LEMMA PalettesBound == 0 \in Palettes /\ Palettes \subseteq 0..NPalettes /\ NPalettes \in Nat
                       /\ \A p \in Palettes : p + 1 \in 0..NPalettes
BY SizesAssumption DEF Palettes

LEMMA NoKeysType == NoKeys \in Macros /\ NoPrograms \in [Palettes -> SUBSET GKeys]
<1>1. <<>> \in [1..0 -> Strokes \cup {Blank}] /\ 0 \in 0..MaxSteps
  BY SizesAssumption
<1>2. <<>> \in UNION {[1..n -> Strokes \cup {Blank}] : n \in 0..MaxSteps}
  BY <1>1
<1>3. QED
  BY <1>2 DEF NoKeys, NoPrograms, Macros

LEMMA TruncatedType == Truncated \in Files
BY NoKeysType DEF Truncated, Files, Supported

LEMMA FileOf == \A b \in Macros : /\ [Truncated EXCEPT !.macros = b] \in Files
                                 /\ Restored([Truncated EXCEPT !.macros = b]) = b
BY TruncatedType DEF Truncated, Files, Restored, Supported

LEMMA RestoredType == \A f \in Files : Restored(f) \in Macros
                                     /\ RestoredExec(f) \in [Palettes -> SUBSET GKeys]
BY NoKeysType DEF Files, Restored, RestoredExec

LEMMA IdleType == Idle \in Saves /\ Idle.ret = "idle"
BY NoKeysType, ConfigsBound, PalettesBound DEF Idle, Saves

LEMMA StartType == \A c \in Configs, r \in {"idle", "clean", "free"} :
  LET b == [Idle EXCEPT !.path = c, !.ret = r] IN b \in Saves /\ b.path = c /\ b.ret = r
BY NoKeysType, ConfigsBound, PalettesBound DEF Idle, Saves

LEMMA BufType == \A b, m \in Macros, p \in Palettes : [b EXCEPT ![p] = m[p]] \in Macros
BY DEF Macros

LEMMA SaveFields == \A b \in Saves :
  /\ \A o \in 0..NPalettes : [b EXCEPT !.orig = o] \in Saves /\ [b EXCEPT !.orig = o].ret = b.ret
  /\ \A r \in {"idle", "save", "clean", "free"} : [b EXCEPT !.ret = r] \in Saves /\ [b EXCEPT !.ret = r].ret = r
  /\ \A m \in Macros, p \in Palettes :
       [b EXCEPT !.buf[p] = m[p]] \in Saves /\ [b EXCEPT !.buf[p] = m[p]].ret = b.ret
<1> SUFFICES ASSUME NEW b \in Saves
             PROVE  /\ \A o \in 0..NPalettes :
                         [b EXCEPT !.orig = o] \in Saves /\ [b EXCEPT !.orig = o].ret = b.ret
                    /\ \A r \in {"idle", "save", "clean", "free"} :
                         [b EXCEPT !.ret = r] \in Saves /\ [b EXCEPT !.ret = r].ret = r
                    /\ \A m \in Macros, p \in Palettes :
                         /\ [b EXCEPT !.buf[p] = m[p]] \in Saves
                         /\ [b EXCEPT !.buf[p] = m[p]].ret = b.ret
  OBVIOUS
<1>1. ASSUME NEW o \in 0..NPalettes
      PROVE  [b EXCEPT !.orig = o] \in Saves /\ [b EXCEPT !.orig = o].ret = b.ret
  BY DEF Saves
<1>2. ASSUME NEW r \in {"idle", "save", "clean", "free"}
      PROVE  [b EXCEPT !.ret = r] \in Saves /\ [b EXCEPT !.ret = r].ret = r
  BY DEF Saves
<1>3. ASSUME NEW m \in Macros, NEW p \in Palettes
      PROVE  [b EXCEPT !.buf[p] = m[p]] \in Saves /\ [b EXCEPT !.buf[p] = m[p]].ret = b.ret
  <2>1. [b.buf EXCEPT ![p] = m[p]] \in Macros
    BY BufType DEF Saves
  <2>2. [b EXCEPT !.buf[p] = m[p]] = [b EXCEPT !.buf = [b.buf EXCEPT ![p] = m[p]]]
    BY DEF Saves
  <2>3. QED
    BY <2>1, <2>2 DEF Saves
<1>4. QED
  BY <1>1, <1>2, <1>3

LEMMA TapeType == \A m \in Macros, p \in Palettes, g \in GKeys, r \in 0..MaxSteps,
                     u \in [1..MaxSteps -> Strokes \cup {Blank}] :
                    [m EXCEPT ![p][g] = SubSeq(u, 1, r)] \in Macros
<1> SUFFICES ASSUME NEW m \in Macros, NEW p \in Palettes, NEW g \in GKeys, NEW r \in 0..MaxSteps,
                    NEW u \in [1..MaxSteps -> Strokes \cup {Blank}]
             PROVE  [m EXCEPT ![p][g] = SubSeq(u, 1, r)] \in Macros
  OBVIOUS
<1>1. MaxSteps \in Nat
  BY SizesAssumption
<1>2. SubSeq(u, 1, r) \in [1..r -> Strokes \cup {Blank}]
  <2> DEFINE S == Strokes \cup {Blank}
  <2>1. \A i \in 1..r : u[i] \in S
    BY <1>1
  <2>2. r \in Int /\ 1 \in Int /\ (IF 1 <= r THEN r - 1 + 1 ELSE 0) = r
    BY <1>1
  <2> HIDE DEF S
  <2>3. SubSeq(u, 1, r) \in Seq(S) /\ Len(SubSeq(u, 1, r)) = r
    BY <2>1, <2>2, SubSeqProperties
  <2>4. SubSeq(u, 1, r) \in [1..r -> S]
    BY <2>3, LenProperties
  <2>5. QED
    BY <2>4 DEF S
<1>3. SubSeq(u, 1, r) \in UNION {[1..n -> Strokes \cup {Blank}] : n \in 0..MaxSteps}
  BY <1>2
<1>4. QED
  BY <1>3 DEF Macros

LEMMA WrittenType == \A v \in 1..Supported + 1 : Written(v) \in Files
<1> DEFINE k == CHOOSE x \in Strokes : TRUE
<1>1. k \in Strokes
  BY SizesAssumption
<1> HIDE DEF k
<1>2. <<k>> \in [1..1 -> Strokes \cup {Blank}] /\ 1 \in 0..MaxSteps
  BY <1>1, SizesAssumption
<1>3. [g \in GKeys |-> <<k>>] \in [GKeys -> UNION {[1..n -> Strokes \cup {Blank}] : n \in 0..MaxSteps}]
  BY <1>2
<1>4. [NoKeys EXCEPT ![0] = [g \in GKeys |-> <<k>>]] \in Macros
  BY <1>3, NoKeysType, PalettesBound DEF Macros
<1>5. \A e \in SUBSET GKeys : [NoPrograms EXCEPT ![0] = e] \in [Palettes -> SUBSET GKeys]
  BY NoKeysType
<1>6. QED
  BY <1>4, <1>5 DEF Written, Files, Supported, k

LEMMA ReturnField ==
  ASSUME NEW b \in Saves, NEW r \in {"idle", "save", "clean", "free"}
  PROVE  [b EXCEPT !.ret = r] \in Saves /\ [b EXCEPT !.ret = r].ret = r
BY DEF Saves

-----------------------------------------------------------------------------
(* Types and places. *)

\* TypeOK but for mixed, which every step sets in the same way.
TypeRest ==
  /\ mkey_state \in 0..NPalettes /\ mled_state \in Palettes
  /\ recording \in BOOLEAN /\ rec_index \in 0..MaxSteps
  /\ table \in [1..MaxSteps -> Strokes \cup {Blank}]
  /\ macros \in Macros /\ exec \in [Palettes -> SUBSET GKeys]
  /\ file \in [Configs -> Files] /\ unsaved \subseteq Configs
  /\ currConfig \in Configs /\ configpath \in Configs /\ freed \in BOOLEAN
  /\ gui_selectConfig \in Configs
  /\ config_mutex \in Threads \cup {NoThread}
  /\ keystate \in GKeys /\ leaving \in BOOLEAN /\ fault \in BOOLEAN

Types == TypeRest /\ Control

LEMMA Returns ==
  ASSUME Types, NEW r \in {"idle", "save", "clean", "free"}, save' = [save EXCEPT !["L"].ret = r]
  PROVE  /\ save' \in [Threads -> Saves] /\ save'["L"].ret = r
         /\ save'["X"] = save["X"] /\ save'["main"] = save["main"]
<1>1. save \in [Threads -> Saves] /\ "L" \in Threads
  BY DEF Types, Control, Threads
<1>2. PICK b \in Saves : b = save["L"]
  BY <1>1
<1> DEFINE v == [b EXCEPT !.ret = r]
<1>3. v \in Saves /\ v.ret = r
  BY ReturnField
<1>4. save' = [save EXCEPT !["L"] = v]
  BY <1>2
<1> HIDE DEF v
<1>5. QED
  BY <1>1, <1>3, <1>4 DEF Threads

LEMMA Starts ==
  ASSUME Types, NEW t \in Threads, NEW c \in Configs, NEW r \in {"idle", "clean", "free"},
         StartSave(t, c, r)
  PROVE  /\ save' \in [Threads -> Saves] /\ save'[t].ret = r /\ save'[t].path = c
         /\ \A u \in Threads \ {t} : save'[u] = save[u]
         /\ pc' = [pc EXCEPT ![t] = "open"]
<1>1. save \in [Threads -> Saves]
  BY DEF Types, Control
<1> DEFINE b == [Idle EXCEPT !.path = c, !.ret = r]
<1>2. b \in Saves /\ b.ret = r /\ b.path = c
  BY StartType
<1>3. save' = [save EXCEPT ![t] = b]
  BY DEF StartSave
<1> HIDE DEF b
<1>4. QED
  BY <1>1, <1>2, <1>3 DEF StartSave, Goto

LEMMA DumpBeginTypes == ASSUME Types, NEW t \in Threads, DumpBegin(t) PROVE Types'
<1> USE DEF DumpBegin, Types, Control, Goto, Again, Fault, StartSave, Press
<1>1. TypeRest'
  BY PalettesBound DEF TypeRest, PlacesOK, Threads, Saves, lit, tape, memory, place, files, budget
<1>2. PlacesOK'
  BY DEF PlacesOK, ReturnsOK, Threads, LPlaces, XPlaces, MainPlaces, Saving
<1>3. save' \in [Threads -> Saves]
  BY SaveFields DEF TypeRest, Threads
<1>4. ReturnsOK'
  BY SaveFields DEF TypeRest, PlacesOK, ReturnsOK, Threads, LPlaces, XPlaces, MainPlaces, Saving
<1>5. QED
  BY <1>1, <1>2, <1>3, <1>4

LEMMA DumpPaletteTypes == ASSUME Types, NEW t \in Threads, DumpPalette(t) PROVE Types'
<1> USE DEF DumpPalette, Types, Control, Goto, Again, Fault, StartSave, Press
<1>1. TypeRest'
  BY PalettesBound DEF TypeRest, PlacesOK, Threads, Saves, lit, tape, memory, place, files, budget
<1>2. PlacesOK'
  BY DEF PlacesOK, ReturnsOK, Threads, LPlaces, XPlaces, MainPlaces, Saving
<1>3. save' \in [Threads -> Saves]
  BY SaveFields DEF TypeRest, Threads
<1>4. ReturnsOK'
  BY SaveFields DEF TypeRest, PlacesOK, ReturnsOK, Threads, LPlaces, XPlaces, MainPlaces, Saving
<1>5. QED
  BY <1>1, <1>2, <1>3, <1>4

LEMMA handle_mkey_switchTypes == ASSUME Types, handle_mkey_switch PROVE Types'
<1> USE DEF Types, Control
<1>1. TypeRest'
  BY PalettesBound DEF handle_mkey_switch, TypeRest, Goto, tape, memory, place, files, budget
<1>2. CASE recording
  <2>1. pc' = [pc EXCEPT !["L"] = "reset"] /\ save' = [save EXCEPT !["L"].ret = "idle"]
    BY <1>2 DEF handle_mkey_switch, Goto
  <2>2. /\ save' \in [Threads -> Saves] /\ save'["L"].ret = "idle"
        /\ save'["X"] = save["X"] /\ save'["main"] = save["main"]
    BY <2>1, Returns
  <2>3. PlacesOK' /\ ReturnsOK'
    BY <2>1, <2>2 DEF ReturnsOK, Saving, PlacesOK, Threads, LPlaces, XPlaces, MainPlaces
  <2>4. QED
    BY <1>1, <2>2, <2>3
<1>3. CASE ~recording
  <2>1. pc' = [pc EXCEPT !["L"] = Again] /\ save' = save
    BY <1>3 DEF handle_mkey_switch, Goto
  <2>2. PlacesOK' /\ ReturnsOK'
    BY <2>1 DEF Again, ReturnsOK, Saving, PlacesOK, Threads, LPlaces, XPlaces, MainPlaces
  <2>3. QED
    BY <1>1, <2>1, <2>2
<1>4. QED
  BY <1>2, <1>3

LEMMA PressMRTypes == ASSUME Types, PressMR PROVE Types'
<1> USE DEF Types, Control
<1>1. TypeRest'
  BY DEF PressMR, Press, TypeRest, Goto, lit, memory, place, files
<1>2. CASE recording
  <2>1. pc' = [pc EXCEPT !["L"] = "reset"] /\ save' = [save EXCEPT !["L"].ret = "idle"]
    BY <1>2 DEF PressMR, Goto
  <2>2. /\ save' \in [Threads -> Saves] /\ save'["L"].ret = "idle"
        /\ save'["X"] = save["X"] /\ save'["main"] = save["main"]
    BY <2>1, Returns
  <2>3. PlacesOK' /\ ReturnsOK'
    BY <2>1, <2>2 DEF ReturnsOK, Saving, PlacesOK, Threads, LPlaces, XPlaces, MainPlaces
  <2>4. QED
    BY <1>1, <2>2, <2>3
<1>3. CASE ~recording
  <2>1. pc' = [pc EXCEPT !["L"] = "clear"] /\ save' = save
    BY <1>3 DEF PressMR, Goto
  <2>2. PlacesOK' /\ ReturnsOK'
    BY <2>1 DEF Again, ReturnsOK, Saving, PlacesOK, Threads, LPlaces, XPlaces, MainPlaces
  <2>3. QED
    BY <1>1, <2>1, <2>2
<1>4. QED
  BY <1>2, <1>3

LEMMA CompleteTypes == ASSUME Types, Complete PROVE Types'
<1> USE DEF Types, Control
<1>1. macros' \in Macros
  <2>1. macros \in Macros /\ keystate \in GKeys /\ rec_index \in 0..MaxSteps
        /\ table \in [1..MaxSteps -> Strokes \cup {Blank}]
    BY DEF TypeRest
  <2>2. CASE mkey_state \in Palettes
    BY <2>1, <2>2, TapeType DEF Complete
  <2>3. CASE mkey_state \notin Palettes
    BY <2>1, <2>3 DEF Complete, Macros
  <2>4. QED
    BY <2>2, <2>3
<1>2. TypeRest'
  BY <1>1 DEF Complete, TypeRest, Goto, lit, tape, place, files, budget
<1>3. pc' = [pc EXCEPT !["L"] = "reset"] /\ save' = [save EXCEPT !["L"].ret = "save"]
  BY DEF Complete, Goto
<1>4. /\ save' \in [Threads -> Saves] /\ save'["L"].ret = "save"
      /\ save'["X"] = save["X"] /\ save'["main"] = save["main"]
  BY <1>3, Returns
<1>5. PlacesOK' /\ ReturnsOK'
  BY <1>3, <1>4 DEF ReturnsOK, Saving, PlacesOK, Threads, LPlaces, XPlaces, MainPlaces
<1>6. QED
  BY <1>2, <1>4, <1>5

LEMMA StopRecordingTypes == ASSUME Types, StopRecording PROVE Types'
<1> USE DEF Types, Control
<1>1. TypeRest'
  BY DEF StopRecording, TypeRest, lit, memory, place, files, budget
<1>2. CASE save["L"].ret = "save"
  <2>1. StartSave("L", configpath, "idle") /\ configpath \in Configs /\ "L" \in Threads
    BY <1>2 DEF StopRecording, TypeRest, Threads
  <2>2. /\ save' \in [Threads -> Saves] /\ save'["L"].ret = "idle"
        /\ \A u \in Threads \ {"L"} : save'[u] = save[u]
        /\ pc' = [pc EXCEPT !["L"] = "open"]
    BY <2>1, Starts
  <2>3. PlacesOK' /\ ReturnsOK'
    BY <2>2 DEF ReturnsOK, Saving, PlacesOK, Threads, LPlaces, XPlaces, MainPlaces
  <2>4. QED
    BY <1>1, <2>2, <2>3
<1>3. CASE save["L"].ret # "save"
  <2>1. pc' = [pc EXCEPT !["L"] = Again] /\ save' = save
    BY <1>3 DEF StopRecording, Goto
  <2>2. PlacesOK' /\ ReturnsOK'
    BY <2>1 DEF Again, ReturnsOK, Saving, PlacesOK, Threads, LPlaces, XPlaces, MainPlaces
  <2>3. QED
    BY <1>1, <2>1, <2>2
<1>4. QED
  BY <1>2, <1>3

LEMMA CheckMacroTypes == ASSUME Types, CheckMacro PROVE Types'
<1> USE DEF CheckMacro, Types, Control, Goto, Again, Fault, StartSave, Press
<1>1. TypeRest'
  BY DEF TypeRest, PlacesOK, Threads, Saves, lit, tape, memory, place, files, budget
<1>2. PlacesOK'
  BY DEF PlacesOK, ReturnsOK, Threads, LPlaces, XPlaces, MainPlaces, Saving
<1>3. save' \in [Threads -> Saves]
  BY DEF TypeRest, Threads
<1>4. ReturnsOK'
  BY DEF TypeRest, PlacesOK, ReturnsOK, Threads, LPlaces, XPlaces, MainPlaces, Saving
<1>5. QED
  BY <1>1, <1>2, <1>3, <1>4

LEMMA PressL5Types == ASSUME Types, PressL5 PROVE Types'
<1> USE DEF Types, Control
<1>1. TypeRest'
  BY DEF PressL5, Press, TypeRest, lit, tape, memory, place, files
<1>2. CASE ~freed
  <2>1. StartSave("L", currConfig, "clean") /\ currConfig \in Configs /\ "L" \in Threads
    BY <1>2 DEF PressL5, TypeRest, Threads
  <2>2. /\ save' \in [Threads -> Saves] /\ save'["L"].ret = "clean"
        /\ \A u \in Threads \ {"L"} : save'[u] = save[u]
        /\ pc' = [pc EXCEPT !["L"] = "open"]
    BY <2>1, Starts
  <2>3. PlacesOK' /\ ReturnsOK'
    BY <2>2 DEF ReturnsOK, Saving, PlacesOK, Threads, LPlaces, XPlaces, MainPlaces
  <2>4. QED
    BY <1>1, <2>2, <2>3
<1>3. CASE freed
  <2>1. pc' = [pc EXCEPT !["L"] = Again] /\ save' = save
    BY <1>3 DEF PressL5, Goto
  <2>2. PlacesOK' /\ ReturnsOK'
    BY <2>1 DEF Again, ReturnsOK, Saving, PlacesOK, Threads, LPlaces, XPlaces, MainPlaces
  <2>3. QED
    BY <1>1, <2>1, <2>2
<1>4. QED
  BY <1>2, <1>3

LEMMA SetConfigpathTypes == ASSUME Types, SetConfigpath PROVE Types'
<1> USE DEF SetConfigpath, Types, Control, Goto, Again, Fault, StartSave, Press
<1>1. TypeRest'
  BY DEF TypeRest, PlacesOK, Threads, Saves, lit, tape, memory, place, files, budget
<1>2. PlacesOK'
  BY DEF PlacesOK, ReturnsOK, Threads, LPlaces, XPlaces, MainPlaces, Saving
<1>3. save' \in [Threads -> Saves]
  BY DEF TypeRest, Threads
<1>4. ReturnsOK'
  BY DEF TypeRest, PlacesOK, ReturnsOK, Threads, LPlaces, XPlaces, MainPlaces, Saving
<1>5. QED
  BY <1>1, <1>2, <1>3, <1>4

LEMMA CountStrokeTypes == ASSUME Types, CountStroke PROVE Types'
<1> USE DEF Types, Control
<1>1. MaxSteps \in Nat /\ rec_index \in 0..MaxSteps
  BY SizesAssumption DEF TypeRest
<1>2. rec_index' \in 0..MaxSteps /\ (recording' = recording \/ recording' = FALSE)
  BY <1>1 DEF CountStroke
<1>3. TypeRest'
  BY <1>2 DEF CountStroke, TypeRest, lit, memory, place, files, budget
<1>4. CASE ~(rec_index < MaxSteps)
  <2>1. StartSave("X", configpath, "idle") /\ configpath \in Configs /\ "X" \in Threads
    BY <1>4 DEF CountStroke, TypeRest, Threads
  <2>2. /\ save' \in [Threads -> Saves] /\ save'["X"].ret = "idle"
        /\ \A u \in Threads \ {"X"} : save'[u] = save[u]
        /\ pc' = [pc EXCEPT !["X"] = "open"]
    BY <2>1, Starts
  <2>3. PlacesOK' /\ ReturnsOK'
    BY <2>2 DEF ReturnsOK, Saving, PlacesOK, Threads, LPlaces, XPlaces, MainPlaces
  <2>4. QED
    BY <1>3, <2>2, <2>3
<1>5. CASE rec_index < MaxSteps
  <2>1. pc' = [pc EXCEPT !["X"] = "idle"] /\ save' = save
    BY <1>5 DEF CountStroke, Goto
  <2>2. PlacesOK' /\ ReturnsOK'
    BY <2>1 DEF ReturnsOK, Saving, PlacesOK, Threads, LPlaces, XPlaces, MainPlaces
  <2>3. QED
    BY <1>3, <2>1, <2>2
<1>6. QED
  BY <1>4, <1>5

LEMMA cleanupTypes == ASSUME Types, cleanup PROVE Types'
<1> USE DEF Types, Control
<1>1. CASE freed
  BY <1>1 DEF cleanup, Fault, TypeRest, PlacesOK, ReturnsOK, Saving, lit, tape, memory, place, files,
     budget
<1>2. CASE ~freed
  <2>1. StartSave("main", currConfig, "free") /\ currConfig \in Configs /\ "main" \in Threads
    BY <1>2 DEF cleanup, TypeRest, Threads
  <2>2. /\ save' \in [Threads -> Saves] /\ save'["main"].ret = "free"
        /\ \A u \in Threads \ {"main"} : save'[u] = save[u]
        /\ pc' = [pc EXCEPT !["main"] = "open"]
    BY <2>1, Starts
  <2>3. PlacesOK' /\ ReturnsOK'
    BY <2>2 DEF ReturnsOK, Saving, PlacesOK, Threads, LPlaces, XPlaces, MainPlaces
  <2>4. TypeRest'
    BY <1>2 DEF cleanup, TypeRest, lit, memory, files, budget
  <2>5. QED
    BY <2>2, <2>3, <2>4
<1>3. QED
  BY <1>1, <1>2

\* Every action keeps the types and the places.
LEMMA TypesStep ==
  ASSUME Types, Next
  PROVE  Types'
<1> USE DEF Types, TypeRest, Control, ReturnsOK, Saving, Saves, PlacesOK, Threads, LPlaces,
          XPlaces, MainPlaces, Goto, Again, Press, Fault, lit, tape, memory, place, files, budget
<1>1. ASSUME NEW t \in Threads, SaveOpen(t) PROVE Types'
  BY <1>1, TruncatedType DEF SaveOpen, StartSave
<1>2. ASSUME NEW t \in Threads, DumpBegin(t) PROVE Types'
  BY <1>2, DumpBeginTypes
<1>3. ASSUME NEW t \in Threads, DumpPalette(t) PROVE Types'
  BY <1>3, DumpPaletteTypes
<1>4. ASSUME NEW t \in Threads, DumpEnd(t) PROVE Types'
  BY <1>4 DEF DumpEnd, StartSave
<1>5. ASSUME NEW t \in Threads, SaveClose(t) PROVE Types'
  BY <1>5, FileOf, IdleType DEF SaveReturns, SaveClose, StartSave
<1>5a. ASSUME NEW t \in Threads, SaveOpenFails(t) PROVE Types'
  BY <1>5a, IdleType DEF SaveOpenFails, SaveReturns
<1>6. CASE PollTimesOut
  BY <1>6 DEF PollTimesOut
<1>7. ASSUME NEW m \in Palettes, PressM(m) PROVE Types'
  BY <1>7 DEF PressM
<1>8. CASE handle_mkey_switch
  BY <1>8, handle_mkey_switchTypes
<1>9. CASE PressMR
  BY <1>9, PressMRTypes
<1>10. CASE ClearTable
  BY <1>10 DEF ClearTable
<1>11. ASSUME NEW g \in GKeys, PressG(g) PROVE Types'
  BY <1>11 DEF PressG
<1>12. CASE PressTwo
  BY <1>12 DEF PressTwo
<1>13. CASE Complete
  BY <1>13, CompleteTypes
<1>14. CASE ResetIndex
  BY <1>14, SizesAssumption DEF ResetIndex
<1>15. CASE StopRecording
  BY <1>15, StopRecordingTypes
<1>16. CASE CheckMacro
  BY <1>16, CheckMacroTypes
<1>17. CASE PlayBegin
  BY <1>17 DEF PlayBegin
<1>18. CASE RunFails
  BY <1>18, TruncatedType DEF RunFails
<1>19. CASE PlayEnd
  BY <1>19 DEF PlayEnd
<1>20. ASSUME NEW c \in {-1, 0, 1}, PressScroll(c) PROVE Types'
  BY <1>20, ConfigsBound DEF PressScroll, gui_selectChange, Configs
<1>21. CASE PressL5
  BY <1>21, PressL5Types
<1>22. CASE cleanMstates
  BY <1>22, NoKeysType DEF cleanMstates
<1>23. CASE SelectConfig
  BY <1>23 DEF SelectConfig
<1>24. CASE restore_config
  BY <1>24, RestoredType DEF restore_config, StartSave
<1>24a. CASE RestoreHangs
  BY <1>24a DEF RestoreHangs
<1>25. CASE RefuseConfig
  BY <1>25, StartType DEF RefuseConfig, StartSave
<1>26. CASE SetConfigpath
  BY <1>26, SetConfigpathTypes
<1>27. ASSUME NEW k \in Strokes, Stroke(k) PROVE Types'
  BY <1>27, SizesAssumption DEF Stroke, StartSave
<1>28. CASE CountStroke
  BY <1>28, CountStrokeTypes
<1>29. CASE EndX
  BY <1>29 DEF EndX
<1>30. CASE g15macro_sighandler
  BY <1>30 DEF g15macro_sighandler
<1>31. CASE cleanup
  BY <1>31, cleanupTypes
<1>32. CASE FreeConfigs("main")
  BY <1>32 DEF FreeConfigs
<1>32a. CASE FreeConfigs("L")
  BY <1>32a DEF FreeConfigs
<1>33. CASE JoinThreads
  BY <1>33 DEF JoinThreads
<1>34. QED
  BY <1>1, <1>2, <1>3, <1>4, <1>5, <1>5a, <1>6, <1>7, <1>8, <1>9, <1>10, <1>11, <1>12, <1>13, <1>14,
     <1>15, <1>16, <1>17, <1>18, <1>19, <1>20, <1>21, <1>22, <1>23, <1>24, <1>24a, <1>25, <1>26, <1>27,
     <1>28, <1>29, <1>30, <1>31, <1>32, <1>32a, <1>33 DEF Next, LStep, Keyed, XStep, MainStep, Handle, Save

-----------------------------------------------------------------------------
(* The mutex, the palette and the path. *)

Owned == MutexOwned /\ PaletteBack /\ PathCurrent

\* Every action hands config_mutex, the palette and the path on as Owned says.
LEMMA OwnedStep ==
  ASSUME Types, Owned, Next
  PROVE  Owned'
<1> USE DEF Types, Control, TypeRest, Saves, Owned, MutexOwned, Refusing, ReturnsOK, Saving, PaletteBack, PathCurrent,
          NoThread, PlacesOK, Threads, LPlaces, XPlaces, MainPlaces, Goto, Again, Press, Fault,
          lit, tape, memory, place, files, budget
<1>1. ASSUME NEW t \in Threads, SaveOpen(t) PROVE Owned'
  BY <1>1 DEF SaveOpen
<1>2. ASSUME NEW t \in Threads, DumpBegin(t) PROVE Owned'
  BY <1>2 DEF DumpBegin
<1>3. ASSUME NEW t \in Threads, DumpPalette(t) PROVE Owned'
  BY <1>3 DEF DumpPalette
<1>4. ASSUME NEW t \in Threads, DumpEnd(t) PROVE Owned'
  BY <1>4 DEF DumpEnd
<1>5. ASSUME NEW t \in Threads, SaveClose(t) PROVE Owned'
  BY <1>5 DEF SaveReturns, SaveClose, Idle
<1>5a. ASSUME NEW t \in Threads, SaveOpenFails(t) PROVE Owned'
  BY <1>5a DEF SaveOpenFails, SaveReturns
<1>6. CASE PollTimesOut
  BY <1>6 DEF PollTimesOut
<1>7. ASSUME NEW m \in Palettes, PressM(m) PROVE Owned'
  BY <1>7 DEF PressM
<1>8. CASE handle_mkey_switch
  BY <1>8 DEF handle_mkey_switch
<1>9. CASE PressMR
  BY <1>9 DEF PressMR
<1>10. CASE ClearTable
  BY <1>10 DEF ClearTable
<1>11. ASSUME NEW g \in GKeys, PressG(g) PROVE Owned'
  BY <1>11 DEF PressG
<1>12. CASE PressTwo
  BY <1>12 DEF PressTwo
<1>13. CASE Complete
  BY <1>13 DEF Complete
<1>14. CASE ResetIndex
  BY <1>14 DEF ResetIndex
<1>15. CASE StopRecording
  BY <1>15 DEF StopRecording, StartSave
<1>16. CASE CheckMacro
  BY <1>16 DEF CheckMacro
<1>17. CASE PlayBegin
  BY <1>17 DEF PlayBegin
<1>18. CASE RunFails
  BY <1>18 DEF RunFails
<1>19. CASE PlayEnd
  BY <1>19 DEF PlayEnd
<1>20. ASSUME NEW c \in {-1, 0, 1}, PressScroll(c) PROVE Owned'
  BY <1>20 DEF PressScroll
<1>21. CASE PressL5
  BY <1>21 DEF PressL5, StartSave
<1>22. CASE cleanMstates
  BY <1>22 DEF cleanMstates
<1>23. CASE SelectConfig
  BY <1>23 DEF SelectConfig
<1>24. CASE restore_config
  BY <1>24 DEF restore_config
<1>24a. CASE RestoreHangs
  BY <1>24a DEF RestoreHangs
<1>25. CASE RefuseConfig
  BY <1>25 DEF RefuseConfig, StartSave
<1>26. CASE SetConfigpath
  BY <1>26 DEF SetConfigpath
<1>27. ASSUME NEW k \in Strokes, Stroke(k) PROVE Owned'
  BY <1>27 DEF Stroke
<1>28. CASE CountStroke
  BY <1>28 DEF CountStroke, StartSave
<1>29. CASE EndX
  BY <1>29 DEF EndX
<1>30. CASE g15macro_sighandler
  BY <1>30 DEF g15macro_sighandler
<1>31. CASE cleanup
  <2>1. CASE freed
    BY <1>31, <2>1 DEF cleanup
  <2>2. CASE ~freed
    <3>1. StartSave("main", currConfig, "free")
      BY <1>31, <2>2 DEF cleanup
    <3>2. /\ save'["L"] = save["L"] /\ save'["X"] = save["X"]
          /\ pc'["L"] = pc["L"] /\ pc'["X"] = pc["X"] /\ pc'["main"] = "open"
      BY <3>1, Starts
    <3>2a. pc["main"] = "idle"
      BY <1>31, <2>2 DEF cleanup
    <3>3. configpath' = currConfig /\ UNCHANGED <<currConfig, config_mutex, mkey_state>>
      BY <1>31, <2>2 DEF cleanup
    <3>4. MutexOwned'
      BY <3>2, <3>2a, <3>3
    <3>5. PaletteBack' /\ PathCurrent'
      BY <3>2, <3>2a, <3>3
    <3>6. QED
      BY <3>4, <3>5
  <2>3. QED
    BY <2>1, <2>2
<1>32. CASE FreeConfigs("main")
  BY <1>32 DEF FreeConfigs
<1>32a. CASE FreeConfigs("L")
  BY <1>32a DEF FreeConfigs
<1>33. CASE JoinThreads
  BY <1>33 DEF JoinThreads
<1>34. QED
  BY <1>1, <1>2, <1>3, <1>4, <1>5, <1>5a, <1>6, <1>7, <1>8, <1>9, <1>10, <1>11, <1>12, <1>13, <1>14,
     <1>15, <1>16, <1>17, <1>18, <1>19, <1>20, <1>21, <1>22, <1>23, <1>24, <1>24a, <1>25, <1>26, <1>27,
     <1>28, <1>29, <1>30, <1>31, <1>32, <1>32a, <1>33 DEF Next, LStep, Keyed, XStep, MainStep, Handle, Save

-----------------------------------------------------------------------------
(* What most steps leave alone. *)

\* Nobody comes to the end of a save, or gets past it.
Steady == \A t \in Threads : /\ pc'[t] = "close" <=> pc[t] = "close"
                             /\ pc[t] = "close" => save'[t] = save[t]

NotCalm == \/ Complete \/ cleanMstates \/ SelectConfig \/ restore_config \/ RefuseConfig
           \/ \E t \in Threads : DumpEnd(t) \/ SaveClose(t)

Calm == /\ Steady /\ UNCHANGED <<macros, currConfig>>
        /\ pc'["L"] \in Gone <=> pc["L"] \in Gone

LEMMA OneMoves ==
  ASSUME Types, NEW t \in Threads, pc[t] # "close", NEW l, l # "close", pc' = [pc EXCEPT ![t] = l],
         NEW b, save' = [save EXCEPT ![t] = b], t = "L" => (l \in Gone <=> pc["L"] \in Gone),
         UNCHANGED <<macros, currConfig>>
  PROVE  Calm
BY DEF Types, Control, PlacesOK, Calm, Steady, Gone, Threads

LEMMA CalmStep ==
  ASSUME Types, Next, ~NotCalm
  PROVE  Calm
<1> USE DEF Types, Control, PlacesOK, ReturnsOK, Saving, Threads, LPlaces, XPlaces, MainPlaces, Calm, Steady, Gone,
          Goto, Again, SaveReturns, StartSave, Press, Fault, lit, tape, memory, place, files, budget
<1>1. ASSUME NEW t \in Threads, SaveOpen(t)
      PROVE  Calm
  BY <1>1 DEF SaveOpen
<1>2. ASSUME NEW t \in Threads, SaveOpenFails(t)
      PROVE  Calm
  <2>1. pc[t] # "close" /\ save' = [save EXCEPT ![t] = Idle] /\ UNCHANGED <<macros, currConfig>>
    BY <1>2 DEF SaveOpenFails
  <2>2. PICK l \in {"poll", "ended", "idle", "save", "clean", "free"} : pc' = [pc EXCEPT ![t] = l]
    BY <1>2 DEF SaveOpenFails, Saves
  <2>3. pc[t] = "open"
    BY <1>2 DEF SaveOpenFails
  <2> HIDE DEF Types, Calm
  <2>4. QED
    BY <2>1, <2>2, <2>3, OneMoves
<1>3. ASSUME NEW t \in Threads, DumpBegin(t)
      PROVE  Calm
  <2>1. pc[t] = "lock" /\ pc' = [pc EXCEPT ![t] = "dump"] /\ UNCHANGED <<macros, currConfig>>
    BY <1>3 DEF DumpBegin
  <2>2. PICK b : save' = [save EXCEPT ![t] = b]
    BY <1>3 DEF DumpBegin
  <2>3. pc[t] # "close" /\ "dump" # "close" /\ (t = "L" => ("dump" \in Gone <=> pc["L"] \in Gone))
    BY <2>1
  <2> HIDE DEF Types, Calm, Gone, Steady
  <2>4. QED
    BY <2>1, <2>2, <2>3, OneMoves
<1>4. ASSUME NEW t \in Threads, DumpPalette(t)
      PROVE  Calm
  <2>1. pc[t] = "dump" /\ pc' = pc /\ UNCHANGED <<macros, currConfig>>
    BY <1>4 DEF DumpPalette
  <2>2. \A u \in Threads \ {t} : save'[u] = save[u]
    BY <1>4 DEF DumpPalette
  <2>3. QED
    BY <2>1, <2>2
<1>7. CASE PollTimesOut
  BY <1>7 DEF PollTimesOut
<1>8. ASSUME NEW m \in Palettes, PressM(m)
      PROVE  Calm
  BY <1>8 DEF PressM
<1>9. CASE handle_mkey_switch
  BY <1>9 DEF handle_mkey_switch
<1>10. CASE PressMR
  BY <1>10 DEF PressMR
<1>11. CASE ClearTable
  BY <1>11 DEF ClearTable
<1>12. ASSUME NEW g \in GKeys, PressG(g)
      PROVE  Calm
  BY <1>12 DEF PressG
<1>13. CASE PressTwo
  BY <1>13 DEF PressTwo
<1>15. CASE ResetIndex
  BY <1>15 DEF ResetIndex
<1>16. CASE StopRecording
  BY <1>16 DEF StopRecording
<1>17. CASE CheckMacro
  BY <1>17 DEF CheckMacro
<1>18. CASE PlayBegin
  BY <1>18 DEF PlayBegin
<1>19. CASE RunFails
  BY <1>19 DEF RunFails
<1>20. CASE PlayEnd
  BY <1>20 DEF PlayEnd
<1>21. ASSUME NEW c \in {-1, 0, 1}, PressScroll(c)
      PROVE  Calm
  BY <1>21 DEF PressScroll
<1>22. CASE PressL5
  BY <1>22 DEF PressL5
<1>26. CASE RestoreHangs
  BY <1>26 DEF RestoreHangs
<1>28. CASE SetConfigpath
  BY <1>28 DEF SetConfigpath
<1>29. ASSUME NEW k \in Strokes, Stroke(k)
      PROVE  Calm
  BY <1>29 DEF Stroke
<1>30. CASE CountStroke
  <2>1. CASE rec_index < MaxSteps
    BY <1>30, <2>1 DEF CountStroke
  <2>2. CASE ~(rec_index < MaxSteps)
    <3>1. /\ pc["X"] = "count" /\ pc' = [pc EXCEPT !["X"] = "open"]
          /\ save' = [save EXCEPT !["X"] = [Idle EXCEPT !.path = configpath, !.ret = "idle"]]
          /\ UNCHANGED <<macros, currConfig>>
      BY <1>30, <2>2 DEF CountStroke
    <3> HIDE DEF Types, Calm
    <3>2. QED
      BY <3>1, OneMoves
  <2>3. QED
    BY <2>1, <2>2
<1>31. CASE EndX
  BY <1>31 DEF EndX
<1>32. CASE g15macro_sighandler
  BY <1>32 DEF g15macro_sighandler
<1>33. CASE cleanup
  <2>1. CASE freed
    BY <1>33, <2>1 DEF cleanup
  <2>2. CASE ~freed
    <3>1. /\ pc["main"] = "idle" /\ pc' = [pc EXCEPT !["main"] = "open"]
          /\ save' = [save EXCEPT !["main"] = [Idle EXCEPT !.path = currConfig, !.ret = "free"]]
          /\ UNCHANGED <<macros, currConfig>>
      BY <1>33, <2>2 DEF cleanup
    <3> HIDE DEF Types, Calm
    <3>2. QED
      BY <3>1, OneMoves
  <2>3. QED
    BY <2>1, <2>2
<1>34. CASE FreeConfigs("main")
  BY <1>34 DEF FreeConfigs
<1>35. CASE FreeConfigs("L")
  BY <1>35 DEF FreeConfigs
<1>36. CASE JoinThreads
  BY <1>36 DEF JoinThreads
<1>99. QED
  BY <1>1, <1>2, <1>3, <1>4, <1>7, <1>8, <1>9, <1>10, <1>11, <1>12, <1>13, <1>15, <1>16,
     <1>17, <1>18, <1>19, <1>20, <1>21, <1>22, <1>26, <1>28, <1>29, <1>30, <1>31, <1>32,
     <1>33, <1>34, <1>35, <1>36
     DEF NotCalm, Next, LStep, Keyed, XStep, MainStep, Handle, Save, Threads

-----------------------------------------------------------------------------
(* What the saves about to end bring. *)

LEMMA BroughtStays ==
  ASSUME Brought, Steady, pc'["L"] \in Gone \/ (pc["L"] \notin Gone /\ UNCHANGED <<macros, currConfig>>)
  PROVE  Brought'
<1>1. ASSUME NEW t \in Threads, pc'[t] = "close"
      PROVE  pc[t] = "close" /\ save'[t] = save[t]
  BY <1>1 DEF Steady
<1>2. ASSUME NEW p, InMemory(p)'
      PROVE  InMemory(p) /\ macros' = macros
  BY <1>2 DEF InMemory
<1>3. QED
  BY <1>1, <1>2 DEF Brought

LEMMA DumpEndBrought ==
  ASSUME Types, Owned, Unmixed, NEW t \in Threads, DumpEnd(t)
  PROVE  Brought' /\ InMemory(save[t].path) /\ save[t].buf = macros
<1>1. save[t].buf = macros
  <2>1. \A p \in Palettes : p < mkey_state
    BY SizesAssumption DEF DumpEnd, Types, TypeRest, Palettes
  <2>2. \A p \in Palettes : save[t].buf[p] = macros[p]
    BY <2>1 DEF Unmixed, Tidy, Walked, DumpEnd
  <2>3. save[t].buf \in Macros /\ macros \in Macros
    BY DEF Types, Control, TypeRest, Saves
  <2>4. QED
    BY <2>2, <2>3 DEF Macros
<1>2. save[t].path = currConfig /\ pc["L"] \notin Gone
  BY DEF DumpEnd, Unmixed, Tidy, PathOfSave
<1>3. /\ pc'[t] = "close" /\ \A u \in Threads \ {t} : pc'[u] = pc[u]
      /\ save' = save /\ macros' = macros /\ currConfig' = currConfig
      /\ pc'["L"] \notin Gone
  BY <1>2 DEF DumpEnd, Goto, Types, Control, PlacesOK, Threads, Gone, memory, place
<1>4. \A u \in Threads : pc'[u] = "close" /\ save[u].path = currConfig => save[u].buf = macros
  BY <1>1, <1>2, <1>3 DEF Unmixed, Brought, InMemory
<1>5. \A u \in Threads : pc'[u] = "close" /\ InMemory(save[u].path)' => save[u].path = currConfig
  BY <1>3 DEF InMemory
<1>6. \A u, v \in Threads : pc'[u] = "close" /\ pc'[v] = "close" /\ save[u].path = save[v].path
                            => save[u].buf = save[v].buf
  BY <1>2, <1>3, <1>4 DEF Unmixed, Brought
<1>7. QED
  BY <1>1, <1>2, <1>3, <1>4, <1>5, <1>6 DEF Brought, InMemory

LEMMA SaveCloseBrought ==
  ASSUME Types, Unmixed, NEW t \in Threads, SaveClose(t)
  PROVE  Brought'
<1>1. /\ \A u \in Threads : pc'[u] = "close" => pc[u] = "close" /\ save'[u] = save[u]
      /\ UNCHANGED <<macros, currConfig>>
      /\ pc'["L"] \in Gone <=> pc["L"] \in Gone
  BY DEF SaveClose, SaveReturns, Goto, Again, Types, Control, PlacesOK, ReturnsOK, Saving, Saves, Threads, LPlaces,
     XPlaces, MainPlaces, Gone, memory, place
<1>2. QED
  BY <1>1 DEF Unmixed, Brought, InMemory

LEMMA BroughtStep ==
  ASSUME Types, Owned, Unmixed, Next, ~MixesUp
  PROVE  Brought'
<1>1. CASE ~NotCalm
  BY <1>1, CalmStep, BroughtStays DEF Unmixed, Calm
<1> USE DEF Types, Control, PlacesOK, Threads, LPlaces, XPlaces, MainPlaces, Steady, Gone, Goto, memory, place
<1>2. CASE Complete
  <2>1. \A t \in {"X", "main"} : ~(pc[t] = "close" /\ save[t].path = currConfig)
    BY <1>2 DEF Complete, MixesUp, Leaves
  <2>2. \A t \in Threads : /\ pc'[t] = "close" <=> pc[t] = "close"
                           /\ pc[t] = "close" => t \in {"X", "main"} /\ save'[t] = save[t]
    BY <1>2 DEF Complete, Saves
  <2>3. currConfig' = currConfig
    BY <1>2 DEF Complete
  <2>4. QED
    BY <2>1, <2>2, <2>3 DEF Unmixed, Brought, InMemory
<1>3. CASE cleanMstates
  BY <1>3, BroughtStays DEF cleanMstates, Unmixed
<1>4. CASE SelectConfig
  BY <1>4, BroughtStays DEF SelectConfig, Unmixed
<1>5. CASE restore_config \/ RefuseConfig
  <2>1. pc["L"] = "restore" /\ pc'["L"] # "restore"
    BY <1>5 DEF restore_config, RefuseConfig, StartSave
  <2>2. \A t \in {"X", "main"} : ~(pc[t] = "close" /\ save[t].path = currConfig)
    BY <2>1 DEF MixesUp, Leaves
  <2>3. \A t \in Threads : /\ pc'[t] = "close" <=> pc[t] = "close"
                           /\ pc[t] = "close" => t \in {"X", "main"} /\ save'[t] = save[t]
    BY <1>5 DEF restore_config, RefuseConfig, StartSave, Saves
  <2>4. currConfig' = currConfig
    BY <1>5 DEF restore_config, RefuseConfig
  <2>5. QED
    BY <2>2, <2>3, <2>4 DEF Unmixed, Brought, InMemory
<1>6. ASSUME NEW t \in Threads, DumpEnd(t) PROVE Brought'
  BY <1>6, DumpEndBrought
<1>7. ASSUME NEW t \in Threads, SaveClose(t) PROVE Brought'
  BY <1>7, SaveCloseBrought
<1>8. QED
  BY <1>1, <1>2, <1>3, <1>4, <1>5, <1>6, <1>7 DEF NotCalm

-----------------------------------------------------------------------------
(* Paths, palettes and what is on the disk. *)

LEMMA DumpBeginTidy ==
  ASSUME Types, Owned, Unmixed, NEW t \in Threads, DumpBegin(t), ~MixesUp
  PROVE  Tidy'
<1> USE DEF Types, Control, Owned, Unmixed, Tidy
<1>1. PathOfSave'
  BY DEF PathOfSave, Saves, DumpBegin, Goto, Gone, PlacesOK, Threads, LPlaces, XPlaces, MainPlaces,
     tape, memory, place, files, budget
<1>2. PaletteLit'
  BY DEF PaletteLit, PaletteBack, MutexOwned, NoThread, TypeRest, Saves, DumpBegin, Goto, PlacesOK, Threads,
     LPlaces, XPlaces, MainPlaces, lit, tape, memory, place, files, budget
<1>3. Walked'
  <2>1. ASSUME NEW u \in Threads, pc'[u] = "dump"
        PROVE  u = t
    BY <2>1 DEF DumpBegin, Goto, MutexOwned, NoThread, PlacesOK, Threads
  <2>2. mkey_state' = 0 /\ \A p \in Palettes : ~(p < 0)
    BY DEF DumpBegin, Palettes
  <2>3. QED
    BY <2>1, <2>2 DEF Walked
<1>4. Saved'
  BY DEF Saved, Held, Pending, Quiet, OnDisk, Emptied, TypeRest, Saves, PathOfSave, DumpBegin, Goto, PlacesOK,
     Threads, LPlaces, XPlaces, MainPlaces, tape, memory, place, files, budget
<1>5. QED
  BY <1>1, <1>2, <1>3, <1>4

LEMMA DumpPaletteTidy ==
  ASSUME Types, Owned, Unmixed, NEW t \in Threads, DumpPalette(t), ~MixesUp
  PROVE  Tidy'
<1> USE DEF Types, Control, Owned, Unmixed, Tidy
<1>1. PathOfSave'
  BY DEF PathOfSave, Saves, DumpPalette, Goto, Gone, PlacesOK, Threads, LPlaces, XPlaces, MainPlaces,
     tape, memory, place, files, budget
<1>2. PaletteLit'
  BY DEF PaletteLit, PaletteBack, MutexOwned, NoThread, TypeRest, Saves, DumpPalette, Goto, PlacesOK, Threads,
     LPlaces, XPlaces, MainPlaces, lit, tape, memory, place, files, budget
<1>3. Walked'
  <2>1. PICK b \in Saves : b = save[t]
    BY DEF Threads
  <2>2. save'[t].buf = [b.buf EXCEPT ![mkey_state] = macros[mkey_state]]
    BY <2>1 DEF DumpPalette, Saves
  <2>3. \A p \in Palettes : p < mkey_state => b.buf[p] = macros[p]
    BY <2>1 DEF Walked, DumpPalette
  <2>4. mkey_state' = mkey_state + 1 /\ macros' = macros /\ pc' = pc /\ pc[t] = "dump"
    BY DEF DumpPalette, memory
  <2>5. b.buf \in Macros /\ mkey_state \in Palettes
    BY DEF Saves, DumpPalette
  <2>6. \A p \in Palettes : p < mkey_state + 1 => p = mkey_state \/ p < mkey_state
    BY <2>5 DEF Palettes
  <2>7. \A p \in Palettes : p < mkey_state' => save'[t].buf[p] = macros'[p]
    BY <2>2, <2>3, <2>4, <2>5, <2>6 DEF Macros
  <2>8. \A u \in Threads : pc'[u] = "dump" => u = t
    BY <2>4 DEF MutexOwned
  <2>9. QED
    BY <2>7, <2>8 DEF Walked
<1>4. Saved'
  BY DEF Saved, Held, Pending, Quiet, OnDisk, Emptied, TypeRest, Saves, PathOfSave, DumpPalette, Goto, PlacesOK,
     Threads, LPlaces, XPlaces, MainPlaces, tape, memory, place, files, budget
<1>5. QED
  BY <1>1, <1>2, <1>3, <1>4

LEMMA SaveCloseTidy ==
  ASSUME Types, Owned, Unmixed, NEW t \in Threads, SaveClose(t), ~MixesUp
  PROVE  Tidy'
<1> USE DEF Types, Control, Owned, Unmixed, Tidy
<1>1. PathOfSave'
  BY DEF PathOfSave, Saves, SaveClose, SaveReturns, Goto, Again, ReturnsOK, Saving, Gone, PlacesOK,
     Threads, LPlaces, XPlaces, MainPlaces, lit, tape, memory, place, files, budget
<1>2. PaletteLit'
  BY DEF PaletteLit, Saves, SaveClose, SaveReturns, Goto, Again, ReturnsOK, Saving, PlacesOK,
     Threads, LPlaces, XPlaces, MainPlaces, lit, tape, memory, place, files, budget
<1>3. Walked'
  BY DEF Walked, Saves, SaveClose, SaveReturns, Goto, Again, ReturnsOK, Saving, PlacesOK,
     Threads, LPlaces, XPlaces, MainPlaces, lit, tape, memory, place, files, budget
<1>4. Saved'
  <2>1. CASE save[t].path = currConfig
    <3>1. CASE pc["L"] \in Gone
      BY <3>1 DEF Saved, Quiet, Gone, SaveClose, SaveReturns, Goto, PlacesOK, Threads
    <3>2. CASE pc["L"] \notin Gone
      <4>1. save[t].buf = macros
        BY <2>1, <3>2 DEF SaveClose, Brought, InMemory
      <4>2. macros \in Macros /\ file \in [Configs -> Files] /\ currConfig \in Configs
        BY DEF TypeRest
      <4>3. file' = [file EXCEPT ![currConfig] = [Truncated EXCEPT !.macros = macros]]
        BY <2>1, <4>1 DEF SaveClose
      <4>4. Restored(file'[currConfig]) = macros
        BY <4>2, <4>3, FileOf
      <4>5. OnDisk'
        BY <4>4 DEF OnDisk, SaveClose, memory, place
      <4>6. QED
        BY <4>5 DEF Saved, Held
    <3>3. QED
      BY <3>1, <3>2
  <2>2. CASE save[t].path # currConfig
    <3>1. t # "L"
      BY <2>2 DEF SaveClose, PathOfSave
    <3>2. file'[currConfig] = file[currConfig] /\ UNCHANGED <<macros, exec, currConfig, unsaved>>
      BY <2>2 DEF SaveClose, TypeRest, memory, place
    <3>3. /\ pc'["L"] = pc["L"] /\ save'["L"] = save["L"]
          /\ \A u \in Threads \ {t} : pc'[u] = pc[u] /\ save'[u] = save[u]
      BY <3>1 DEF SaveClose, SaveReturns, Goto, PlacesOK, Threads
    <3>4. Pending => Pending'
      BY <2>2, <3>2, <3>3 DEF Pending, Threads
    <3>5. QED
      BY <3>2, <3>3, <3>4 DEF Saved, Held, OnDisk, Emptied
  <2>3. QED
    BY <2>1, <2>2
<1>5. QED
  BY <1>1, <1>2, <1>3, <1>4

\* A save that begins for the configuration in memory.
LEMMA StartTidy ==
  ASSUME Types, Tidy, NEW t \in Threads, NEW r \in {"idle", "clean", "free"},
         StartSave(t, currConfig, r), ~Saving(t), pc'["L"] \notin Gone, t = "L" => pc["L"] # "switch",
         UNCHANGED <<mkey_state, mled_state, macros, exec, file, unsaved, currConfig>>
  PROVE  Tidy'
<1> USE DEF Types, Control, Tidy
<1>1. /\ save'[t].path = currConfig /\ pc' = [pc EXCEPT ![t] = "open"]
      /\ \A u \in Threads \ {t} : save'[u] = save[u]
  BY Starts DEF TypeRest
<1>2. pc'[t] = "open" /\ \A u \in Threads \ {t} : pc'[u] = pc[u]
  BY <1>1 DEF PlacesOK
<1>3. PathOfSave'
  BY <1>1, <1>2 DEF PathOfSave, Threads
<1>4. PaletteLit'
  BY <1>1, <1>2 DEF PaletteLit, Saving, Threads
<1>5. Walked'
  BY <1>1, <1>2 DEF Walked
<1>6. Saved'
  <2>1. Pending => Pending'
    BY <1>1, <1>2 DEF Pending, Saving, Threads
  <2>2. CASE t = "L"
    BY <1>2, <2>2 DEF Saved, Quiet
  <2>3. CASE t # "L"
    BY <1>1, <1>2, <2>1, <2>3 DEF Saved, Held, OnDisk, Emptied, Threads
  <2>4. QED
    BY <2>2, <2>3
<1>7. QED
  BY <1>3, <1>4, <1>5, <1>6

LEMMA StopRecordingTidy == ASSUME Types, Owned, Unmixed, StopRecording, ~MixesUp PROVE Tidy'
<1>1. CASE save["L"].ret = "save"
  <2>1. /\ StartSave("L", configpath, "idle") /\ ~Saving("L") /\ pc["L"] = "stop"
        /\ UNCHANGED <<mkey_state, mled_state, macros, exec, file, unsaved, currConfig>>
    BY <1>1 DEF StopRecording, Saving, lit, memory, place, files
  <2>2. pc'["L"] = "open"
    BY <2>1 DEF StartSave, Goto, Types, Control, PlacesOK, Threads
  <2>3. pc'["L"] \notin Gone /\ pc["L"] # "switch" /\ configpath = currConfig
    BY <2>1, <2>2 DEF Gone, Owned, PathCurrent
  <2>9. QED
    BY <2>1, <2>2, <2>3, StartTidy DEF Unmixed, Threads
<1>2. CASE ~(save["L"].ret = "save")
  BY <1>2 DEF StopRecording, Types, Control, TypeRest, ReturnsOK, Owned, MutexOwned, Unmixed, Tidy,
     PathOfSave, PaletteLit, Walked, Saved, Held, Pending, OnDisk, Quiet, Emptied, Gone, Saving, PlacesOK,
     Threads, LPlaces, XPlaces, MainPlaces, Goto, Again, Press, Fault, lit, tape, memory, place, files, budget
<1>3. QED
  BY <1>1, <1>2

LEMMA PressL5Tidy == ASSUME Types, Owned, Unmixed, PressL5, ~MixesUp PROVE Tidy'
<1>1. CASE ~freed
  <2>1. /\ StartSave("L", currConfig, "clean") /\ ~Saving("L") /\ pc["L"] = "poll"
        /\ UNCHANGED <<mkey_state, mled_state, macros, exec, file, unsaved, currConfig>>
    BY <1>1 DEF PressL5, Press, Saving, lit, tape, memory, place, files
  <2>2. pc'["L"] = "open"
    BY <2>1 DEF StartSave, Goto, Types, Control, PlacesOK, Threads
  <2>3. pc'["L"] \notin Gone /\ pc["L"] # "switch"
    BY <2>1, <2>2 DEF Gone
  <2>9. QED
    BY <2>1, <2>2, <2>3, StartTidy DEF Unmixed, Threads
<1>2. CASE ~(~freed)
  BY <1>2 DEF PressL5, Types, Control, TypeRest, ReturnsOK, Owned, MutexOwned, Unmixed, Tidy,
     PathOfSave, PaletteLit, Walked, Saved, Held, Pending, OnDisk, Quiet, Emptied, Gone, Saving, PlacesOK,
     Threads, LPlaces, XPlaces, MainPlaces, Goto, Again, Press, Fault, lit, tape, memory, place, files, budget
<1>3. QED
  BY <1>1, <1>2

LEMMA CountStrokeTidy == ASSUME Types, Owned, Unmixed, CountStroke, ~MixesUp PROVE Tidy'
<1>1. CASE ~(rec_index < MaxSteps)
  <2>1. /\ StartSave("X", configpath, "idle") /\ ~Saving("X") /\ pc["X"] = "count"
        /\ UNCHANGED <<mkey_state, mled_state, macros, exec, file, unsaved, currConfig>>
    BY <1>1 DEF CountStroke, Saving, lit, memory, place, files
  <2>2. pc'["X"] = "open" /\ pc["X"] # "open" /\ pc'["L"] = pc["L"]
    BY <2>1 DEF StartSave, Goto, Types, Control, PlacesOK, Threads
  <2>3. pc'["L"] \notin Gone /\ configpath = currConfig
    BY <2>1, <2>2 DEF MixesUp, Gone, Owned, PathCurrent
  <2>9. QED
    BY <2>1, <2>2, <2>3, StartTidy DEF Unmixed, Threads
<1>2. CASE ~(~(rec_index < MaxSteps))
  BY <1>2 DEF CountStroke, Types, Control, TypeRest, ReturnsOK, Owned, MutexOwned, Unmixed, Tidy,
     PathOfSave, PaletteLit, Walked, Saved, Held, Pending, OnDisk, Quiet, Emptied, Gone, Saving, PlacesOK,
     Threads, LPlaces, XPlaces, MainPlaces, Goto, Again, Press, Fault, lit, tape, memory, place, files, budget
<1>3. QED
  BY <1>1, <1>2

LEMMA cleanupTidy == ASSUME Types, Owned, Unmixed, cleanup, ~MixesUp PROVE Tidy'
<1>1. CASE ~freed
  <2>1. /\ StartSave("main", currConfig, "free") /\ ~Saving("main") /\ pc["main"] = "idle"
        /\ UNCHANGED <<mkey_state, mled_state, macros, exec, file, unsaved, currConfig>>
    BY <1>1 DEF cleanup, Saving, lit, tape, memory, place, files
  <2>2. pc'["main"] = "open" /\ pc["main"] # "open" /\ pc'["L"] = pc["L"]
    BY <2>1 DEF StartSave, Goto, Types, Control, PlacesOK, Threads
  <2>3. pc'["L"] \notin Gone
    BY <2>1, <2>2 DEF MixesUp, Gone
  <2>9. QED
    BY <2>1, <2>2, <2>3, StartTidy DEF Unmixed, Threads
<1>2. CASE ~(~freed)
  BY <1>2 DEF cleanup, Types, Control, TypeRest, ReturnsOK, Owned, MutexOwned, Unmixed, Tidy,
     PathOfSave, PaletteLit, Walked, Saved, Held, Pending, OnDisk, Quiet, Emptied, Gone, Saving, PlacesOK,
     Threads, LPlaces, XPlaces, MainPlaces, Goto, Again, Press, Fault, lit, tape, memory, place, files, budget
<1>3. QED
  BY <1>1, <1>2

LEMMA RefuseConfigTidy == ASSUME Types, Owned, Unmixed, RefuseConfig, ~MixesUp PROVE Tidy'
<1>1. /\ StartSave("L", currConfig, "free") /\ ~Saving("L") /\ pc["L"] = "restore"
      /\ UNCHANGED <<mkey_state, mled_state, macros, exec, file, unsaved, currConfig>>
  BY DEF RefuseConfig, Saving, lit, memory, place, files
<1>2. pc'["L"] = "open"
  BY <1>1 DEF StartSave, Goto, Types, Control, PlacesOK, Threads
<1>3. pc'["L"] \notin Gone
  BY <1>2 DEF Gone
<1>4. QED
  BY <1>1, <1>3, StartTidy DEF Unmixed, Threads

LEMMA RunFailsTidy == ASSUME Types, Owned, Unmixed, RunFails PROVE Tidy'
<1> USE DEF Types, Control, Owned, Unmixed, Tidy
<1>1. PathOfSave' /\ PaletteLit' /\ Walked'
  BY DEF PathOfSave, PaletteLit, Walked, RunFails, lit, tape, memory, place, budget
<1>2. mkey_state \in Palettes
  BY DEF RunFails, PaletteBack, MutexOwned, Threads
<1>3. exec # NoPrograms
  BY <1>2 DEF RunFails, NoPrograms
<1>4. Emptied'
  BY <1>3 DEF Emptied, RunFails, TypeRest, memory, place
<1>5. pc' = pc /\ pc["L"] = "playing"
  BY DEF RunFails
<1>6. QED
  BY <1>1, <1>4, <1>5 DEF Saved

\* No step mixes what is saved, but for those that MixesUp names.
LEMMA TidyStep ==
  ASSUME Types, Owned, Unmixed, Next, ~MixesUp
  PROVE  Tidy'
<1> USE DEF Types, Control, TypeRest, ReturnsOK, Owned, MutexOwned, NoThread, Refusing, PaletteBack,
          PathCurrent, Unmixed, Tidy, PathOfSave, PaletteLit, Walked, Saved, Held, Pending, OnDisk,
          Quiet, Emptied, Gone, MixesUp, Leaves, Saving, Saves, PlacesOK, Threads, LPlaces, XPlaces,
          MainPlaces, Goto, Again, SaveReturns, Press, Fault, lit, tape, memory, place, files, budget
<1>1. ASSUME NEW t \in Threads, SaveOpen(t)
      PROVE  Tidy'
  BY <1>1 DEF SaveOpen
<1>2. ASSUME NEW t \in Threads, SaveOpenFails(t)
      PROVE  Tidy'
  BY <1>2 DEF SaveOpenFails
<1>3. ASSUME NEW t \in Threads, DumpBegin(t)
      PROVE  Tidy'
  BY <1>3, DumpBeginTidy
<1>4. ASSUME NEW t \in Threads, DumpPalette(t)
      PROVE  Tidy'
  BY <1>4, DumpPaletteTidy
<1>5. ASSUME NEW t \in Threads, DumpEnd(t)
      PROVE  Tidy'
  BY <1>5 DEF DumpEnd
<1>6. ASSUME NEW t \in Threads, SaveClose(t)
      PROVE  Tidy'
  BY <1>6, SaveCloseTidy
<1>7. CASE PollTimesOut
  BY <1>7 DEF PollTimesOut
<1>8. ASSUME NEW m \in Palettes, PressM(m)
      PROVE  Tidy'
  BY <1>8 DEF PressM
<1>9. CASE handle_mkey_switch
  BY <1>9 DEF handle_mkey_switch
<1>10. CASE PressMR
  BY <1>10 DEF PressMR
<1>11. CASE ClearTable
  BY <1>11 DEF ClearTable
<1>12. ASSUME NEW g \in GKeys, PressG(g)
      PROVE  Tidy'
  BY <1>12 DEF PressG
<1>13. CASE PressTwo
  BY <1>13 DEF PressTwo
<1>14. CASE Complete
  BY <1>14 DEF Complete
<1>15. CASE ResetIndex
  BY <1>15 DEF ResetIndex
<1>16. CASE StopRecording
  BY <1>16, StopRecordingTidy
<1>17. CASE CheckMacro
  BY <1>17 DEF CheckMacro
<1>18. CASE PlayBegin
  BY <1>18 DEF PlayBegin
<1>19. CASE RunFails
  BY <1>19, RunFailsTidy
<1>20. CASE PlayEnd
  BY <1>20 DEF PlayEnd
<1>21. ASSUME NEW c \in {-1, 0, 1}, PressScroll(c)
      PROVE  Tidy'
  BY <1>21 DEF PressScroll
<1>22. CASE PressL5
  BY <1>22, PressL5Tidy
<1>23. CASE cleanMstates
  BY <1>23 DEF cleanMstates
<1>24. CASE SelectConfig
  BY <1>24 DEF SelectConfig
<1>25. CASE restore_config
  BY <1>25 DEF restore_config
<1>26. CASE RestoreHangs
  BY <1>26 DEF RestoreHangs
<1>27. CASE RefuseConfig
  BY <1>27, RefuseConfigTidy
<1>28. CASE SetConfigpath
  BY <1>28 DEF SetConfigpath
<1>29. ASSUME NEW k \in Strokes, Stroke(k)
      PROVE  Tidy'
  BY <1>29 DEF Stroke
<1>30. CASE CountStroke
  BY <1>30, CountStrokeTidy
<1>31. CASE EndX
  BY <1>31 DEF EndX
<1>32. CASE g15macro_sighandler
  BY <1>32 DEF g15macro_sighandler
<1>33. CASE cleanup
  BY <1>33, cleanupTidy
<1>34. CASE FreeConfigs("main")
  BY <1>34 DEF FreeConfigs
<1>35. CASE FreeConfigs("L")
  BY <1>35 DEF FreeConfigs
<1>36. CASE JoinThreads
  BY <1>36 DEF JoinThreads
<1>99. QED
  BY <1>1, <1>2, <1>3, <1>4, <1>5, <1>6, <1>7, <1>8, <1>9, <1>10, <1>11, <1>12, <1>13, <1>14,
     <1>15, <1>16, <1>17, <1>18, <1>19, <1>20, <1>21, <1>22, <1>23, <1>24, <1>25, <1>26,
     <1>27, <1>28, <1>29, <1>30, <1>31, <1>32, <1>33, <1>34, <1>35, <1>36
     DEF Next, LStep, Keyed, XStep, MainStep, Handle, Save, Threads

-----------------------------------------------------------------------------
(* The macros of each configuration. *)

\* What is not in memory is as the saves about to end, or else its file, have it.
LEMMA NotInMemory ==
  ASSUME NEW c \in Configs, ~InMemory(c), ~InMemory(c)', Closing(c)' = Closing(c),
         \A t \in Closing(c) : save'[t] = save[t], file'[c] = file[c]
  PROVE  Stored(c)' = Stored(c)
<1>1. CASE Closing(c) # {}
  <2>1. (CHOOSE t \in Closing(c) : TRUE) \in Closing(c)
    BY <1>1
  <2>2. save'[CHOOSE t \in Closing(c)' : TRUE] = save[CHOOSE t \in Closing(c) : TRUE]
    BY <2>1
  <2>3. QED
    BY <1>1, <2>2 DEF Stored
<1>2. CASE Closing(c) = {}
  BY <1>2 DEF Stored
<1>3. QED
  BY <1>1, <1>2

\* A step that writes neither macros nor files keeps them, unless it begins or
\* ends the time in which no configuration is in memory.
LEMMA Untouched ==
  ASSUME Steady, UNCHANGED <<macros, file, currConfig>>, pc'["L"] \in Gone <=> pc["L"] \in Gone
  PROVE  \A c \in Configs : Stored(c)' = Stored(c)
<1> SUFFICES ASSUME NEW c \in Configs
             PROVE  Stored(c)' = Stored(c)
  OBVIOUS
<1>1. InMemory(c)' = InMemory(c)
  BY DEF InMemory
<1>2. Closing(c)' = Closing(c)
  BY DEF Closing, Steady
<1>3. \A t \in Closing(c) : save'[t] = save[t]
  BY DEF Closing, Steady
<1>4. CASE InMemory(c)
  BY <1>1, <1>4 DEF Stored
<1>5. QED
  BY <1>1, <1>2, <1>3, <1>4, NotInMemory

\* The same of a step that writes the file of the configuration in memory.
LEMMA InUse ==
  ASSUME Types, Calm, pc["L"] \notin Gone, \A c \in Configs \ {currConfig} : file'[c] = file[c]
  PROVE  \A c \in Configs : Stored(c)' = Stored(c)
<1> SUFFICES ASSUME NEW c \in Configs
             PROVE  Stored(c)' = Stored(c)
  OBVIOUS
<1>1. InMemory(c)' = InMemory(c) /\ macros' = macros
  BY DEF InMemory, Calm
<1>2. CASE c = currConfig
  BY <1>1, <1>2 DEF Stored, InMemory
<1>3. CASE c # currConfig
  <2>1. Closing(c)' = Closing(c) /\ \A t \in Closing(c) : save'[t] = save[t]
    BY DEF Closing, Steady, Calm
  <2>2. ~InMemory(c)
    BY <1>3 DEF InMemory
  <2>3. QED
    BY <1>1, <1>3, <2>1, <2>2, NotInMemory
<1>4. QED
  BY <1>2, <1>3

\* What any one save that is about to end brings is what is stored.
LEMMA AsBrought ==
  ASSUME Brought, NEW t \in Threads, pc[t] = "close"
  PROVE  Stored(save[t].path) = save[t].buf
<1> DEFINE c == save[t].path
           u == CHOOSE v \in Closing(c) : TRUE
<1>1. t \in Closing(c)
  BY DEF Closing
<1>2. u \in Closing(c)
  BY <1>1
<1>3. save[u].buf = save[t].buf
  BY <1>1, <1>2 DEF Closing, Brought
<1>4. InMemory(c) => save[t].buf = macros
  BY DEF Brought
<1>5. QED
  BY <1>1, <1>3, <1>4 DEF Stored

\* A save that goes on or gives up, or a dump that ends, keeps them.
LEMMA DumpEndKept ==
  ASSUME Types, Owned, Unmixed, NEW t \in Threads, DumpEnd(t)
  PROVE  \A c \in Configs : Stored(c)' = Stored(c)
<1> SUFFICES ASSUME NEW c \in Configs
             PROVE  Stored(c)' = Stored(c)
  OBVIOUS
<1>1. save[t].path = currConfig /\ pc["L"] \notin Gone
  BY DEF DumpEnd, Unmixed, Tidy, PathOfSave
<1>2. /\ pc'[t] = "close" /\ \A u \in Threads \ {t} : pc'[u] = pc[u]
      /\ pc'["L"] \notin Gone /\ pc[t] # "close"
      /\ UNCHANGED <<save, macros, file, currConfig>>
  BY <1>1 DEF DumpEnd, Goto, Types, Control, PlacesOK, Threads, Gone, memory, place, files
<1>3. CASE c = currConfig
  BY <1>1, <1>2, <1>3 DEF Stored, InMemory
<1>4. CASE c # currConfig
  <2>1. Closing(c)' = Closing(c)
    BY <1>1, <1>2, <1>4 DEF Closing
  <2>2. ~InMemory(c) /\ ~InMemory(c)'
    BY <1>2, <1>4 DEF InMemory
  <2>3. QED
    BY <1>2, <2>1, <2>2, NotInMemory
<1>5. QED
  BY <1>3, <1>4

LEMMA SaveCloseKept ==
  ASSUME Types, Unmixed, NEW t \in Threads, SaveClose(t)
  PROVE  \A c \in Configs : Stored(c)' = Stored(c)
<1> SUFFICES ASSUME NEW c \in Configs
             PROVE  Stored(c)' = Stored(c)
  OBVIOUS
<1>1. /\ pc'[t] # "close" /\ pc[t] = "close"
      /\ \A u \in Threads \ {t} : pc'[u] = pc[u] /\ save'[u] = save[u]
      /\ pc'["L"] \in Gone <=> pc["L"] \in Gone
      /\ UNCHANGED <<macros, currConfig>>
  BY DEF SaveClose, SaveReturns, Goto, Again, Types, Control, PlacesOK, ReturnsOK, Saving, Saves,
     Threads, LPlaces, XPlaces, MainPlaces, Gone, memory, place
<1>2. InMemory(c)' = InMemory(c)
  BY <1>1 DEF InMemory
<1>3. Brought' /\ Brought
  BY SaveCloseBrought DEF Unmixed
<1>4. CASE InMemory(c)
  BY <1>1, <1>2, <1>4 DEF Stored
<1>5. CASE ~InMemory(c) /\ c = save[t].path
  <2>1. Stored(c) = save[t].buf
    BY <1>1, <1>3, <1>5, AsBrought
  <2>2. CASE Closing(c)' = {}
    <3>1. PICK b \in Macros : b = save[t].buf
      BY DEF Types, Control, Saves
    <3>2. file'[c] = [Truncated EXCEPT !.macros = b]
      BY <1>5, <3>1 DEF SaveClose, Types, TypeRest
    <3>3. Restored(file'[c]) = b
      BY <3>1, <3>2, FileOf
    <3>4. QED
      BY <1>2, <1>5, <2>1, <2>2, <3>1, <3>3 DEF Stored
  <2>3. CASE Closing(c)' # {}
    <3>1. PICK u \in Threads : pc'[u] = "close" /\ save'[u].path = c
      BY <2>3 DEF Closing
    <3>2. u # t /\ pc[u] = "close" /\ save'[u] = save[u]
      BY <1>1, <3>1
    <3>3. save[u].buf = save[t].buf
      BY <1>1, <1>3, <1>5, <3>1, <3>2 DEF Brought
    <3>4. (\A v \in Threads : pc'[v] = "close" /\ save'[v].path = c => save'[v].buf = save'[u].buf)
      BY <1>3, <3>1 DEF Brought
    <3>5. PICK v \in Closing(c)' : v = CHOOSE w \in Closing(c)' : TRUE
      BY <2>3
    <3>6. save'[v].buf = save[t].buf
      BY <3>2, <3>3, <3>4, <3>5 DEF Closing
    <3>7. QED
      BY <1>2, <1>5, <2>1, <2>3, <3>5, <3>6 DEF Stored
  <2>4. QED
    BY <2>2, <2>3
<1>6. CASE ~InMemory(c) /\ c # save[t].path
  <2>1. file'[c] = file[c]
    BY <1>6 DEF SaveClose, Types, TypeRest
  <2>2. Closing(c)' = Closing(c) /\ \A u \in Closing(c) : save'[u] = save[u]
    BY <1>1, <1>6 DEF Closing
  <2>3. QED
    BY <1>2, <1>6, <2>1, <2>2, NotInMemory
<1>7. QED
  BY <1>4, <1>5, <1>6

\* What is forgotten is on the disk, or on its way there, unless its file could
\* not be opened.
LEMMA cleanMstatesKept ==
  ASSUME Types, Owned, Unmixed, cleanMstates, ~MixesUp
  PROVE  \A c \in Configs : c # currConfig \/ c \notin unsaved => Stored(c)' = Stored(c)
<1>1. /\ pc["L"] = "clean" /\ pc'["L"] = "select" /\ config_mutex = NoThread
      /\ \A t \in Threads \ {"L"} : pc'[t] = pc[t]
      /\ UNCHANGED <<save, file, currConfig>>
  BY DEF cleanMstates, Goto, Types, Control, PlacesOK, Threads, place, files
<1>2. \A c : Closing(c)' = Closing(c)
  BY <1>1 DEF Closing, Threads
<1>3. \A c : InMemory(c) <=> c = currConfig
  BY <1>1 DEF InMemory, Gone
<1>4. \A c : ~InMemory(c)'
  BY <1>1 DEF InMemory, Gone
<1>5. \A c \in Configs \ {currConfig} : Stored(c)' = Stored(c)
  BY <1>1, <1>2, <1>3, <1>4, NotInMemory
<1>6. ASSUME NEW d \in Configs, d = currConfig, d \notin unsaved
      PROVE  Stored(d)' = Stored(d)
  <2>1. Stored(d) = macros
    BY <1>3, <1>6 DEF Stored
  <2>2. CASE Closing(d) # {}
    <3>1. PICK t \in Closing(d) : t = CHOOSE u \in Closing(d) : TRUE
      BY <2>2
    <3>2. save[t].buf = macros
      BY <1>3, <1>6, <3>1 DEF Closing, Unmixed, Brought
    <3>3. Closing(d)' = Closing(d) /\ ~InMemory(d)'
      BY <1>2, <1>4
    <3>4. Stored(d)' = save'[t].buf
      BY <1>1, <2>2, <3>1, <3>3 DEF Stored
    <3>5. QED
      BY <1>1, <2>1, <3>2, <3>4
  <2>3. CASE Closing(d) = {}
    <3>1. OnDisk \/ Pending
      BY <1>1, <1>6 DEF Unmixed, Tidy, Saved, Held
    <3>2. \A t \in {"X", "main"} : pc[t] \notin {"open", "lock"}
      BY <1>1 DEF MixesUp, Leaves
    <3>3. \A t \in {"X", "main"} : pc[t] # "dump"
      BY <1>1 DEF Owned, MutexOwned, NoThread, Threads
    <3>4. ~Pending
      BY <1>6, <2>3, <3>2, <3>3 DEF Pending, Closing, Threads
    <3>5. QED
      BY <1>1, <1>2, <1>4, <1>6, <2>1, <2>3, <3>1, <3>4 DEF Stored, OnDisk
  <2>4. QED
    BY <2>2, <2>3
<1>7. QED
  BY <1>5, <1>6

LEMMA restore_configKept ==
  ASSUME Types, Owned, Unmixed, restore_config, ~MixesUp
  PROVE  \A c \in Configs : Stored(c)' = Stored(c)
<1>1. /\ pc["L"] = "restore" /\ pc'["L"] = "path"
      /\ \A t \in Threads \ {"L"} : pc'[t] = pc[t]
      /\ macros' = Restored(file[currConfig])
      /\ UNCHANGED <<save, file, currConfig>>
  BY DEF restore_config, Goto, Types, Control, PlacesOK, Threads, place, files
<1>2. \A c : Closing(c)' = Closing(c)
  BY <1>1 DEF Closing, Threads
<1>3. Closing(currConfig) = {}
  BY <1>1 DEF Closing, MixesUp, Leaves, Threads
<1>4. \A c : ~InMemory(c) /\ (InMemory(c)' <=> c = currConfig)
  BY <1>1 DEF InMemory, Gone
<1>5. ASSUME NEW d \in Configs, d = currConfig
      PROVE  Stored(d)' = Stored(d)
  BY <1>1, <1>2, <1>3, <1>4, <1>5 DEF Stored
<1>6. \A c \in Configs \ {currConfig} : Stored(c)' = Stored(c)
  BY <1>1, <1>2, <1>4, NotInMemory
<1>7. QED
  BY <1>5, <1>6

\* What the step of every action of the system keeps.
LEMMA StepKept ==
  ASSUME Types, Owned, Unmixed, Next, ~MixesUp, ~Refusing'
  PROVE  \/ \A c \in Configs : Stored(c)' = Stored(c)
         \/ /\ Complete \/ (cleanMstates /\ currConfig \in unsaved)
            /\ \A c \in Configs \ {currConfig} : Stored(c)' = Stored(c)
<1>1. CASE ~NotCalm
  <2>1. Calm
    BY <1>1, CalmStep
  <2>2. CASE file' = file
    BY <2>1, <2>2, Untouched DEF Calm
  <2>3. ASSUME NEW t \in Threads, SaveOpen(t)
        PROVE  \A c \in Configs : Stored(c)' = Stored(c)
    <3>1. save[t].path = currConfig /\ pc["L"] \notin Gone
      BY <2>3 DEF SaveOpen, Unmixed, Tidy, PathOfSave
    <3>2. \A c \in Configs \ {currConfig} : file'[c] = file[c]
      BY <2>3, <3>1 DEF SaveOpen, Types, TypeRest
    <3>3. QED
      BY <2>1, <3>1, <3>2, InUse
  <2>4. CASE RunFails
    <3>1. pc["L"] \notin Gone /\ \A c \in Configs \ {currConfig} : file'[c] = file[c]
      BY <2>4 DEF RunFails, Types, TypeRest, Gone
    <3>2. QED
      BY <2>1, <3>1, InUse
  <2>5. file' = file \/ RunFails \/ \E t \in Threads : SaveOpen(t)
    BY <1>1 DEF NotCalm, SaveOpenFails, DumpBegin, DumpPalette, PollTimesOut, PressM, handle_mkey_switch,
       PressMR, ClearTable, PressG, PressTwo, ResetIndex, StopRecording, CheckMacro,
       PlayBegin, PlayEnd, PressScroll, PressL5, RestoreHangs, SetConfigpath, Stroke,
       CountStroke, EndX, g15macro_sighandler, cleanup, FreeConfigs, JoinThreads, Press,
       Fault, Next, LStep, Keyed, XStep, MainStep, Handle, Save, Threads, files
  <2>6. QED
    BY <2>2, <2>3, <2>4, <2>5
<1>2. CASE Complete
  <2>1. /\ pc["L"] = "complete" /\ pc'["L"] = "reset"
        /\ \A t \in Threads \ {"L"} : pc'[t] = pc[t] /\ save'[t] = save[t]
        /\ UNCHANGED <<file, currConfig>>
    BY <1>2 DEF Complete, Goto, Types, Control, PlacesOK, Threads, place, files
  <2>2. \A c : Closing(c)' = Closing(c) /\ \A t \in Closing(c) : save'[t] = save[t]
    BY <2>1 DEF Closing, Threads
  <2>3. \A c \in Configs \ {currConfig} : ~InMemory(c) /\ ~InMemory(c)'
    BY <2>1 DEF InMemory
  <2>4. ASSUME NEW c \in Configs \ {currConfig}
        PROVE  Stored(c)' = Stored(c)
    BY <2>1, <2>2, <2>3, NotInMemory
  <2>5. QED
    BY <1>2, <2>4
<1>3. CASE cleanMstates
  <2>1. CASE currConfig \in unsaved
    BY <1>3, <2>1, cleanMstatesKept
  <2>2. CASE currConfig \notin unsaved
    <3>1. \A c \in Configs : Stored(c)' = Stored(c)
      BY <1>3, <2>2, cleanMstatesKept
    <3>2. QED
      BY <3>1
  <2>3. QED
    BY <2>1, <2>2
<1>4. CASE SelectConfig
  <2>1. /\ pc["L"] \in Gone /\ pc'["L"] \in Gone /\ Steady /\ UNCHANGED <<save, file>>
    BY <1>4 DEF SelectConfig, Goto, Types, Control, PlacesOK, Gone, Steady, Threads, files
  <2>2. \A c : Closing(c)' = Closing(c) /\ ~InMemory(c) /\ ~InMemory(c)'
    BY <2>1 DEF Closing, Steady, InMemory
  <2>3. QED
    BY <2>1, <2>2, NotInMemory
<1>5. CASE restore_config
  BY <1>5, restore_configKept
<1>6. CASE RefuseConfig
  <2>1. pc'["L"] = "open" /\ config_mutex' = "L"
    BY <1>6 DEF RefuseConfig, StartSave, Goto, Types, Control, PlacesOK, Threads
  <2>2. QED
    BY <2>1 DEF Refusing
<1>7. ASSUME NEW t \in Threads, DumpEnd(t)
      PROVE  \A c \in Configs : Stored(c)' = Stored(c)
  BY <1>7, DumpEndKept
<1>8. ASSUME NEW t \in Threads, SaveClose(t)
      PROVE  \A c \in Configs : Stored(c)' = Stored(c)
  BY <1>8, SaveCloseKept
<1>9. QED
  BY <1>1, <1>2, <1>3, <1>4, <1>5, <1>6, <1>7, <1>8 DEF NotCalm

-----------------------------------------------------------------------------
(* The theorems. *)

LEMMA InvInit == Init => IInv
<1> SUFFICES ASSUME Init PROVE IInv
  OBVIOUS
<1> USE DEF Init
<1>1. file \in [Configs -> Files]
  BY WrittenType, TruncatedType
<1>2. TypeRest
  <2>1. rec_index \in 0..MaxSteps /\ table \in [1..MaxSteps -> Strokes \cup {Blank}]
    BY SizesAssumption
  <2>2. QED
    BY <1>1, <2>1, NoKeysType, ConfigsBound, PalettesBound DEF TypeRest
<1>3. save \in [Threads -> Saves] /\ \A t \in Threads : save[t].ret = "idle"
  BY IdleType
<1>4. Control
  BY <1>3 DEF Control, ReturnsOK, Saving, PlacesOK, Threads, LPlaces, XPlaces, MainPlaces
<1>5. TypeOK
  BY <1>2, <1>3 DEF TypeOK, TypeRest, Saves
<1>6. Restored(file[currConfig]) = macros
  BY ConfigsBound DEF Restored, Truncated
<1>7. MutexOwned /\ PaletteBack /\ PathCurrent
  BY PalettesBound DEF MutexOwned, Refusing, PaletteBack, PathCurrent, NoThread, Threads
<1>8. Unmixed
  BY <1>6 DEF Unmixed, Tidy, PathOfSave, PaletteLit, Walked, Brought, Saved, Held, OnDisk, Threads
<1>9. QED
  BY <1>4, <1>5, <1>7, <1>8 DEF IInv

LEMMA InvStep == IInv /\ [Next]_vars => IInv'
<1>1. ASSUME IInv, UNCHANGED vars
      PROVE  IInv'
  BY <1>1 DEF vars, IInv, TypeOK, Control, PlacesOK, ReturnsOK, MutexOwned, Refusing, PaletteBack,
     PathCurrent, Unmixed, Tidy, PathOfSave, PaletteLit, Walked, Brought, InMemory, Saved, Held,
     Pending, OnDisk, Emptied, Saving, lit, tape, memory, place, files, budget
<1>2. ASSUME IInv, Next
      PROVE  IInv'
  <2>1. Types /\ Owned /\ (~mixed => Unmixed)
    BY <1>2 DEF IInv, TypeOK, Types, TypeRest, Owned
  <2>2. mixed' = (mixed \/ MixesUp)
    BY <1>2 DEF Next, LatchMixed
  <2>3. ~mixed' => Unmixed /\ ~MixesUp
    BY <2>1, <2>2
  <2>4. Types' /\ Owned'
    BY <1>2, <2>1, TypesStep, OwnedStep
  <2>5. ~mixed' => Unmixed'
    BY <1>2, <2>1, <2>3, TidyStep, BroughtStep DEF Unmixed
  <2>6. mixed' \in BOOLEAN
    BY <2>2
  <2>7. TypeOK'
    BY <2>4, <2>6 DEF TypeOK, Types, TypeRest, Control, Saves
  <2>8. QED
    BY <2>4, <2>5, <2>7 DEF IInv, Types, Owned
<1>3. QED
  BY <1>1, <1>2

\* What the run checks of types and places, and what makes it inductive: who
\* has config_mutex, which file a save writes, and what its buffer holds, in
\* every order of the three threads but the few that MixesUp names.
THEOREM MacroInvariant == Spec => []IInv
<1>1. QED
  BY InvInit, InvStep, PTL DEF Spec

\* While L handles no key and nobody saves, the file of the configuration in
\* use holds what is in memory, for any number of keys, palettes and files.
THEOREM SavedOnDisk == Spec => []SavedAtRest
<1>1. IInv => SavedAtRest
  <2> SUFFICES ASSUME IInv PROVE SavedAtRest
    OBVIOUS
  <2>1. TypeOK
    BY DEF IInv
  <2>2. ASSUME ~mixed, pc["L"] \in {"poll", "ended"}, ~Saving("X"), ~Saving("main")
        PROVE  /\ configpath = currConfig /\ mkey_state = mled_state
               /\ \/ Restored(file[currConfig]) = macros
                  \/ Emptied \/ currConfig \in unsaved
    <3>1. Unmixed /\ PathCurrent /\ PlacesOK
      BY <2>2 DEF IInv, Control
    <3>2. configpath = currConfig
      BY <2>2, <3>1 DEF PathCurrent
    <3>3. mkey_state = mled_state
      BY <2>2, <3>1 DEF Unmixed, Tidy, PaletteLit, Saving, Threads
    <3>4. ~Pending
      BY <2>2 DEF Pending, Saving
    <3>5. Held \/ Emptied
      BY <2>2, <3>1 DEF Unmixed, Tidy, Saved, Quiet
    <3>6. QED
      BY <3>2, <3>3, <3>4, <3>5 DEF Held, OnDisk
  <2>3. QED
    BY <2>1, <2>2 DEF SavedAtRest
<1>2. QED
  BY <1>1, MacroInvariant, PTL

\* Recording changes the macro of one key of the configuration in use; nothing
\* else changes what any configuration holds, whichever threads save meanwhile,
\* unless the file of what is forgotten could not be opened for saving.
THEOREM MacrosStay == Spec => MacrosKept
<1>1. IInv /\ [Next]_vars =>
        [\/ mixed' \/ Refusing'
         \/ \A c \in Configs : Stored(c)' = Stored(c)
         \/ /\ Complete \/ (cleanMstates /\ currConfig \in unsaved)
            /\ \A c \in Configs \ {currConfig} : Stored(c)' = Stored(c)]_vars
  <2> SUFFICES ASSUME IInv, Next, ~mixed', ~Refusing'
               PROVE  \/ \A c \in Configs : Stored(c)' = Stored(c)
                      \/ /\ Complete \/ (cleanMstates /\ currConfig \in unsaved)
                         /\ \A c \in Configs \ {currConfig} : Stored(c)' = Stored(c)
    OBVIOUS
  <2>1. Types /\ Owned /\ (~mixed => Unmixed)
    BY DEF IInv, TypeOK, Types, TypeRest, Owned
  <2>2. ~mixed /\ ~MixesUp
    BY DEF Next, LatchMixed
  <2>3. QED
    BY <2>1, <2>2, StepKept
<1>2. QED
  BY <1>1, MacroInvariant, PTL DEF Spec, MacrosKept

=============================================================================
