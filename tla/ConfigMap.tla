----------------------------- MODULE ConfigMap -----------------------------
(* What the configuration promises to the plugins: sections of keys in the     *)
(* order in which they came, each with the last value written to it. Values    *)
(* are kept over a save and a load as far as the file's format can hold them.  *)
EXTENDS Integers, SequencesExt

CONSTANTS Sections, Keys, Values,
          Reread(_, _)       \* what becomes of a key's value in the file

VARIABLE content            \* per section, its keys and values in order

KeysOf(entries) == {entries[i].key : i \in DOMAIN entries}
Known == DOMAIN content

Init == content = [s \in {} |-> <<>>]

NewSection(s) ==
  /\ s \notin Known
  /\ content' = [t \in Known \cup {s} |-> IF t = s THEN <<>> ELSE content[t]]

Updated(entries, k, v) ==
  IF k \in KeysOf(entries)
  THEN [i \in DOMAIN entries |-> IF entries[i].key = k THEN [key |-> k, value |-> v] ELSE entries[i]]
  ELSE Append(entries, [key |-> k, value |-> v])

\* A key that a file has before any section makes one.
Put(s, k, v) ==
  content' = [t \in Known \cup {s} |->
               IF t = s THEN Updated(IF s \in Known THEN content[s] ELSE <<>>, k, v) ELSE content[t]]

Delete(s, k) ==
  /\ s \in Known
  /\ \E i \in DOMAIN content[s] : content[s][i].key = k /\ content' = [content EXCEPT ![s] = RemoveAt(@, i)]

SaveAndLoad ==
  content' = [s \in Known |-> [i \in DOMAIN content[s] |->
               [content[s][i] EXCEPT !.value = Reread(content[s][i].key, @)]]]

Next == \/ \E s \in Sections : NewSection(s)
        \/ SaveAndLoad
        \/ \E s \in Sections, k \in Keys : Delete(s, k)
        \/ \E s \in Sections, k \in Keys, v \in Values : Put(s, k, v)
=============================================================================
