------------------------------- MODULE Config -------------------------------
(* The configuration's sections and items as utility_funcs.c links them, and   *)
(* the file they are saved to and loaded from, line by line. The first item's  *)
(* head is the last item, by which the next one is appended; every other       *)
(* item's head is itself. What this promises to its callers is in ConfigMap.   *)
EXTENDS Integers, SequencesExt

CONSTANTS Sections, Keys, Values,
          Comments,     \* keys that begin with a semicolon
          Bracketed,    \* values that have a bracket
          Cut,          \* what a load takes of a value: it ends at a second separator
          Given,        \* values that programs write
          UserFiles,    \* files that a user wrote, as lines
          MaxItems      \* bound: items allocated

Global == "Global"
Title == "itle: ]"                           \* the section that a value with a bracket makes
Blank == "blank"                             \* a value without letters
NoSection == "no section"

Line(t, n, v) == [title |-> t, name |-> n, val |-> v]
Lines == [title : {TRUE}, name : Sections, val : {Blank}]
         \cup [title : {FALSE}, name : Keys, val : Values]

ConfigAssumption ==
  /\ Global \in Sections /\ Title \notin Sections /\ NoSection \notin Sections
  /\ Comments \subseteq Keys /\ Given \subseteq Values
  /\ Blank \in Values \ Bracketed
  /\ Cut \in [Values -> Values] /\ Cut[Blank] = Blank
  /\ UserFiles \subseteq Seq(Lines)

VARIABLES config,       \* [sections, first, node]: items are numbered as they are allocated
          file,         \* the lines that are being written or read
          saved,        \* history: while they are read, the configuration that was written
          io,           \* in uf_conf_write or uf_conf_open: what is done, and the section there
          broken        \* history: an item other than the last of its section was removed, an
                        \* item was freed twice, or a value with a bracket was loaded

vars == <<config, file, saved, io, broken>>

NULL == 0
Item(k, v, p, i) == [key |-> k, val |-> v, next |-> NULL, prev |-> p, head |-> i]
Empty == [sections |-> <<>>, first |-> [s \in Sections \cup {Title} |-> NULL], node |-> <<>>]

\* The items of a section, from the first one along next.
Spells(c, s, q) ==
  /\ q = <<>> <=> c.first[s] = NULL
  /\ q # <<>> => q[1] = c.first[s] /\ c.node[q[Len(q)]].next = NULL
  /\ \A i \in 1 .. Len(q) - 1 : c.node[q[i]].next = q[i + 1]
Chain(c, s) ==
  LET length == CHOOSE n \in 0 .. Len(c.node) : \E q \in [1 .. n -> DOMAIN c.node] : Spells(c, s, q)
  IN  CHOOSE q \in [1 .. length -> DOMAIN c.node] : Spells(c, s, q)

\* What a caller can read of the configuration.
Entries(c, s) == LET q == Chain(c, s)
                 IN  [n \in DOMAIN q |-> [key |-> c.node[q[n]].key, value |-> c.node[q[n]].val]]
Content(c) == [s \in ToSet(c.sections) |-> Entries(c, s)]

uf_search_confitem(c, s, k) ==
  LET q == Chain(c, s)
      found == {i \in DOMAIN q : c.node[q[i]].key = k}
  IN IF found = {} THEN NULL ELSE q[CHOOSE i \in found : \A j \in found : i <= j]

\* The sections' list is like the items', but nothing is ever taken from it.
g15daemon_cfg_load_section(c, s) ==
  IF s \in ToSet(c.sections) THEN c ELSE [c EXCEPT !.sections = Append(@, s)]

\* Mutant: the first item's head stays.
AppendItemOnce(c, s, k, v) ==
  LET new == Len(c.node) + 1
      first == c.first[s]
  IN IF first = NULL
     THEN [c EXCEPT !.node = Append(@, Item(k, v, NULL, new)), !.first[s] = new]
     ELSE [c EXCEPT !.node = Append([@ EXCEPT ![c.node[first].head].next = new],
                                    Item(k, v, c.node[first].head, new))]

AppendItem(c, s, k, v) ==
  LET new == Len(c.node) + 1
      first == c.first[s]
      last == c.node[first].head
  IN IF first = NULL
     THEN [c EXCEPT !.node = Append(@, Item(k, v, NULL, new)), !.first[s] = new]
     ELSE [c EXCEPT !.node = [Append([@ EXCEPT ![last].next = new], Item(k, v, last, new))
                              EXCEPT ![first].head = new]]

g15daemon_cfg_write_string(c, s, k, v) ==
  LET i == uf_search_confitem(c, s, k)
  IN IF i # NULL THEN [c EXCEPT !.node[i].val = v] ELSE AppendItem(c, s, k, v)

\* The read functions write the default of a key that is not there.
g15daemon_cfg_read_string(c, s, k, default) ==
  IF uf_search_confitem(c, s, k) # NULL THEN c ELSE g15daemon_cfg_write_string(c, s, k, default)

\* g15daemon_cfg_remove_key, of an item that is not alone in its section.
g15daemon_cfg_remove_key(c, s, k) ==
  LET i == uf_search_confitem(c, s, k)
      it == c.node[i]
      unlinked == IF it.prev # NULL THEN [c EXCEPT !.node[it.prev].next = it.next]
                  ELSE [c EXCEPT !.first[s] = it.next]
      headed == IF it.head = i /\ it.prev # NULL
                THEN [[unlinked EXCEPT !.node[it.prev].head = it.prev]
                      EXCEPT !.node[unlinked.first[s]].head = it.prev]
                ELSE unlinked
  IN IF it.next # NULL THEN [headed EXCEPT !.node[it.next].prev = it.prev] ELSE headed

-----------------------------------------------------------------------------
\* The daemon starts: the file is a user's, or of an older version.
Init == /\ file \in UserFiles
        /\ config = Empty /\ saved = Empty
        /\ io = [doing |-> "open", done |-> 0, at |-> NoSection]
        /\ broken = "no"

Running == io.doing = "run"
Known(c) == ToSet(c.sections)
Room == Len(config.node) < MaxItems

LoadSection(s) == /\ Running /\ s \notin Known(config)
                  /\ config' = g15daemon_cfg_load_section(config, s)
                  /\ UNCHANGED <<file, saved, io, broken>>

Write(s, k, v) == /\ Running /\ s \in Known(config) /\ Room
                  /\ config' = g15daemon_cfg_write_string(config, s, k, v)
                  /\ UNCHANGED <<file, saved, io, broken>>

Read(s, k, default) == /\ Running /\ s \in Known(config) /\ Room
                       /\ config' = g15daemon_cfg_read_string(config, s, k, default)
                       /\ UNCHANGED <<file, saved, io, broken>>

RemoveKey(s, k) ==
  LET i == uf_search_confitem(config, s, k)
      alone == config.node[i].prev = NULL /\ config.node[i].next = NULL
  IN /\ Running /\ s \in Known(config) /\ i # NULL
     /\ broken' = IF alone THEN "freed twice"
                  ELSE IF config.node[i].next # NULL THEN "removed" ELSE "no"
     /\ config' = IF alone THEN config ELSE g15daemon_cfg_remove_key(config, s, k)
     /\ UNCHANGED <<file, saved, io>>

\* The daemon ends: uf_conf_write empties the file, and writes section by section;
\* of a comment only the key.
Truncate == /\ Running
            /\ file' = <<>> /\ io' = [io EXCEPT !.doing = "write", !.done = 0]
            /\ UNCHANGED <<config, saved, broken>>

Written(k, v) == IF k \in Comments THEN Blank ELSE v

uf_conf_write ==
  /\ io.doing = "write" /\ io.done < Len(config.sections)
  /\ LET s == config.sections[io.done + 1]
         e == Entries(config, s)
     IN file' = Append(file, Line(TRUE, s, Blank))
                \o [n \in DOMAIN e |-> Line(FALSE, e[n].key, Written(e[n].key, e[n].value))]
  /\ io' = [io EXCEPT !.done = @ + 1]
  /\ UNCHANGED <<config, saved, broken>>

\* uf_conf_free, and the next start.
uf_conf_free ==
  /\ io.doing = "write" /\ io.done = Len(config.sections)
  /\ saved' = config /\ config' = Empty
  /\ io' = [doing |-> "reopen", done |-> 0, at |-> NoSection]
  /\ UNCHANGED <<file, broken>>

\* uf_conf_open takes each line with a bracket for a section's title, and puts what
\* comes before any title in Global.
Opening == io.doing \in {"open", "reopen"}

TitleLine(s) ==
  /\ config' = g15daemon_cfg_load_section(config, s)
  /\ io' = [io EXCEPT !.done = @ + 1, !.at = s]

uf_conf_open ==
  /\ Opening /\ io.done < Len(file)
  /\ LET line == file[io.done + 1]
         into == IF io.at = NoSection THEN Global ELSE io.at
     IN  \/ line.title /\ TitleLine(line.name) /\ UNCHANGED broken
         \/ ~line.title /\ line.val \in Bracketed /\ TitleLine(Title) /\ broken' = "split"
         \/ /\ ~line.title /\ line.val \notin Bracketed
            /\ config' = g15daemon_cfg_write_string(g15daemon_cfg_load_section(config, into),
                                                    into, line.name, Cut[line.val])
            /\ io' = [io EXCEPT !.done = @ + 1, !.at = into]
            /\ UNCHANGED broken
  /\ UNCHANGED <<file, saved>>

Opened == /\ Opening /\ io.done = Len(file)
          /\ io' = [doing |-> "run", done |-> 0, at |-> NoSection]
          /\ file' = <<>> /\ saved' = Empty
          /\ UNCHANGED <<config, broken>>

\* Bound: where nothing is promised any more, nothing more is looked at.
Next == /\ broken = "no"
        /\ \/ \E s \in Sections, k \in Keys, v \in Given : Write(s, k, v) \/ Read(s, k, v)
           \/ \E s \in Sections : LoadSection(s)
           \/ \E s \in Sections, k \in Keys : RemoveKey(s, k)
           \/ Truncate \/ uf_conf_write \/ uf_conf_free \/ uf_conf_open \/ Opened

Spec == Init /\ [][Next]_vars

-----------------------------------------------------------------------------
\* While a file of its own is read, the daemon counts for what it was when it ended.
MapContent == IF io.doing = "reopen" THEN Content(saved) ELSE Content(config)

Map == INSTANCE ConfigMap WITH
         content <- MapContent,
         Reread <- LAMBDA k, v : Cut[Written(k, v)]

(* Writes, reads with a default, removals, a user's file read line by line, and *)
(* a save with the load that follows do to the linked items what they promise,  *)
(* until an item other than the last of its section is removed (the next write  *)
(* then drops what follows), the only item of a section is removed (it is freed *)
(* twice), or a value has a bracket.                                            *)
KeepsMap == broken' # "no" \/ UNCHANGED MapContent \/ Map!Next
=============================================================================
