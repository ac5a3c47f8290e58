----------------------------- MODULE KeyPathProofs -----------------------------
(***************************************************************************)
(* Proofs about what is configured and what is typed: about the            *)
(* configuration of Parts, whose lists and file implement ConfigMap for    *)
(* every set of names and values, and about KeyPath for every set of keys, *)
(* of mapped keys and of clients.                                          *)
(***************************************************************************)
EXTENDS KeyPath, Parts, Sequences, FiniteSetTheorems, SequenceTheorems,
        WellFoundedInduction, TLAPS

(* The configuration.                                                      *)
\* A set of naturals has a least element: the form that induction takes here.
LEMMA LeastNat ==
  ASSUME NEW T, T \subseteq Nat, T # {}
  PROVE  \E k \in T : \A j \in T : k <= j
<1>1. \A R : IsWellFoundedOn(R, Nat) => \E k \in T : \A j \in T : <<j, k>> \notin R
  BY WFMin
<1>2. PICK k \in T : \A j \in T : <<j, k>> \notin OpToRel(<, Nat)
  BY <1>1, NatLessThanWellFounded
<1>3. \A j \in T : ~(j < k)
  BY <1>2 DEF OpToRel
<1>4. QED
  BY <1>3

ItemSet == [key : ConfKeys, val : ConfValues, next : Nat, prev : Nat, head : Nat]
Typed(c) ==
  /\ c \in [sections : Seq(ConfSections), first : [ConfSections \cup {Conf!Title} -> Nat], node : Seq(ItemSet)]
  /\ \A i, j \in 1 .. Len(c.sections) : c.sections[i] = c.sections[j] => i = j

\* q is the chain of s, and an item of it knows the one before, the first one the last.
Linked(c, s, q) ==
  /\ q \in Seq(1 .. Len(c.node))
  /\ Conf!Spells(c, s, q)
  /\ \A i, j \in 1 .. Len(q) : c.node[q[i]].key = c.node[q[j]].key => i = j
  /\ \A i \in 1 .. Len(q) :
       /\ c.node[q[i]].prev = IF i = 1 THEN 0 ELSE q[i - 1]
       /\ c.node[q[i]].head = IF i = 1 THEN q[Len(q)] ELSE q[i]

\* ch gives the chains of all sections, which have no item in common.
Laid(c, ch) ==
  /\ Typed(c)
  /\ ch \in [ConfSections -> Seq(1 .. Len(c.node))]
  /\ \A s \in ConfSections :
       /\ Linked(c, s, ch[s])
       /\ s \notin Conf!Known(c) => ch[s] = <<>>
  /\ \A s, t \in ConfSections : \A i \in 1 .. Len(ch[s]), j \in 1 .. Len(ch[t]) :
       ch[s][i] = ch[t][j] => s = t

LEMMA SectionLaid ==
  ASSUME NEW c, NEW ch, Laid(c, ch), NEW s \in ConfSections
  PROVE  /\ Typed(c) /\ Len(c.node) \in Nat /\ Linked(c, s, ch[s]) /\ Conf!Spells(c, s, ch[s])
         /\ ch[s] \in Seq(1 .. Len(c.node)) /\ Len(ch[s]) \in Nat
         /\ \A i \in 1 .. Len(ch[s]) : ch[s][i] \in 1 .. Len(c.node)
         /\ s \notin Conf!Known(c) => ch[s] = <<>>
<1> DEFINE N == Len(c.node)
           q == ch[s]
<1>1. Typed(c) /\ Linked(c, s, q) /\ (s \notin Conf!Known(c) => q = <<>>)
  BY DEF Laid
<1>2. N \in Nat
  BY <1>1 DEF Typed
<1>3. q \in Seq(1 .. N) /\ Conf!Spells(c, s, q)
  BY <1>1 DEF Linked
<1> HIDE DEF q, N
<1>4. Len(q) \in Nat
  BY <1>3, LenProperties
<1>5. \A i \in 1 .. Len(q) : q[i] \in 1 .. N
  BY <1>3, ElementOfSeq
<1>6. QED
  BY <1>1, <1>2, <1>3, <1>4, <1>5 DEF q, N

LEMMA NotEmpty == \A r : Len(r) # 0 => r # <<>>
<1>1. Len(<<>>) = 0
  OBVIOUS
<1>2. QED
  BY <1>1, Zenon

\* The links spell one sequence only.
LEMMA OneSpelling ==
  ASSUME NEW c, NEW s, NEW N \in Nat, NEW q \in Seq(1 .. N), NEW r \in Seq(1 .. N),
         Conf!Spells(c, s, q), Conf!Spells(c, s, r)
  PROVE  q = r
<1> DEFINE next == [i \in 1 .. N |-> c.node[i].next]
<1>1. /\ \A i \in 1 .. Len(q) : q[i] \in 1 .. N
      /\ \A i \in 1 .. Len(r) : r[i] \in 1 .. N
      /\ Len(q) \in Nat /\ Len(r) \in Nat
  OBVIOUS
<1>2. CASE q = <<>>
  BY <1>2 DEF Conf!Spells, Conf!NULL
<1>3. CASE r = <<>>
  BY <1>3 DEF Conf!Spells, Conf!NULL
<1>4. CASE q # <<>> /\ r # <<>>
  <2>1. Len(q) > 0 /\ Len(r) > 0
    BY <1>4, <1>1, EmptySeq
  <2>2. q[1] = r[1]
    BY <1>4 DEF Conf!Spells
  <2>3. /\ \A i \in 1 .. Len(q) - 1 : next[q[i]] = q[i + 1]
        /\ \A i \in 1 .. Len(r) - 1 : next[r[i]] = r[i + 1]
        /\ next[q[Len(q)]] = 0 /\ next[r[Len(r)]] = 0
    <3>1. /\ \A i \in 1 .. Len(q) - 1 : q[i] \in 1 .. N
          /\ \A i \in 1 .. Len(r) - 1 : r[i] \in 1 .. N
          /\ q[Len(q)] \in 1 .. N /\ r[Len(r)] \in 1 .. N
      BY <1>1, <2>1
    <3>2. QED
      BY <1>4, <3>1 DEF Conf!Spells, Conf!NULL
  <2> HIDE DEF next
  <2> DEFINE Differ == {i \in 1 .. Len(q) : i <= Len(r) /\ q[i] # r[i]}
  <2>4. Differ = {}
    <3> SUFFICES ASSUME Differ # {} PROVE FALSE
      OBVIOUS
    <3>1. Differ \subseteq Nat
      OBVIOUS
    <3> HIDE DEF Differ
    <3>2. PICK k \in Differ : \A j \in Differ : k <= j
      BY <3>1, LeastNat
    <3> USE DEF Differ
    <3>3. k # 1 /\ k \in 1 .. Len(q) /\ k <= Len(r)
      BY <2>2
    <3>4. k - 1 \in 1 .. Len(q) - 1 /\ k - 1 \in 1 .. Len(r) - 1 /\ k - 1 \notin Differ
      <4>1. k - 1 \in 1 .. Len(q) - 1 /\ k - 1 \in 1 .. Len(r) - 1 /\ ~(k <= k - 1)
        BY <3>3, <1>1
      <4>2. QED
        BY <3>2, <4>1
    <3>5. q[k - 1] = r[k - 1]
      BY <3>4
    <3>6. q[(k - 1) + 1] = r[(k - 1) + 1]
      BY <3>4, <3>5, <2>3
    <3>7. QED
      BY <3>3, <3>6
  <2>5. Len(q) = Len(r)
    <3>1. CASE Len(q) < Len(r)
      <4>1. q[Len(q)] = r[Len(q)] /\ Len(q) \in 1 .. Len(r) - 1
        <5>1. Len(q) \in 1 .. Len(r) - 1 /\ Len(q) \in 1 .. Len(q) /\ Len(q) <= Len(r)
          BY <2>1, <3>1, <1>1
        <5>2. Len(q) \notin Differ
          BY <2>4
        <5>3. QED
          BY <5>1, <5>2
      <4>2. r[Len(q) + 1] = 0 /\ Len(q) + 1 \in 1 .. Len(r)
        BY <4>1, <2>3, <1>1, <3>1
      <4>3. QED
        BY <4>2, <1>1
    <3>2. CASE Len(r) < Len(q)
      <4>1. q[Len(r)] = r[Len(r)] /\ Len(r) \in 1 .. Len(q) - 1 /\ Len(r) \in 1 .. Len(q)
        <5>1. Len(r) \in 1 .. Len(q) - 1 /\ Len(r) \in 1 .. Len(q) /\ Len(r) <= Len(r)
          BY <2>1, <3>2, <1>1
        <5>2. Len(r) \notin Differ
          BY <2>4
        <5>3. QED
          BY <5>1, <5>2
      <4>2. q[Len(r) + 1] = 0 /\ Len(r) + 1 \in 1 .. Len(q)
        BY <4>1, <2>3, <1>1, <3>2
      <4>3. QED
        BY <4>2, <1>1
    <3>3. QED
      BY <3>1, <3>2, <1>1
  <2>6. \A i \in 1 .. Len(q) : q[i] = r[i]
    BY <2>4, <2>5
  <2>7. QED
    BY <2>5, <2>6, SeqEqual
<1>5. QED
  BY <1>2, <1>3, <1>4

LEMMA ChainIs ==
  ASSUME NEW c, Typed(c), NEW s, NEW q, Linked(c, s, q)
  PROVE  Conf!Chain(c, s) = q
<1> DEFINE N == Len(c.node)
<1>1. q \in Seq(1 .. N) /\ Conf!Spells(c, s, q) /\ N \in Nat /\ DOMAIN c.node = 1 .. N
  BY DEF Linked, Typed
<1>2. \A i, j \in 1 .. Len(q) : q[i] = q[j] => i = j
  BY DEF Linked
<1>3. Len(q) \in 0 .. N
  <2> HIDE DEF N
  <2>1. SUFFICES ASSUME N < Len(q) PROVE FALSE
    BY <1>1
  <2>0. \A n \in Nat : IsFiniteSet(1 .. n) /\ Cardinality(1 .. n) = n
    <3>1. \A n \in Nat : IsFiniteSet(1 .. n) /\ Cardinality(1 .. n) = IF 1 > n THEN 0 ELSE n - 1 + 1
      BY FS_Interval
    <3>2. QED
      BY <3>1
  <2>2. IsFiniteSet(1 .. Len(q)) /\ IsFiniteSet(1 .. N)
        /\ Cardinality(1 .. Len(q)) = Len(q) /\ Cardinality(1 .. N) = N
    BY <1>1, <2>0
  <2>3. q \in [1 .. Len(q) -> 1 .. N]
    BY <1>1
  <2>4. \E i, j \in 1 .. Len(q) : i # j /\ q[i] = q[j]
    BY <2>1, <2>2, <2>3, FS_PigeonHole
  <2>5. QED
    BY <2>4, <1>2
<1>4. \A n \in 0 .. N : \A r \in [1 .. n -> DOMAIN c.node] : Conf!Spells(c, s, r) => r = q /\ n = Len(q)
  <2> HIDE DEF N
  <2> SUFFICES ASSUME NEW n \in 0 .. N, NEW r \in [1 .. n -> 1 .. N], Conf!Spells(c, s, r)
               PROVE  r = q /\ n = Len(q)
    BY <1>1
  <2>1. r \in Seq(1 .. N) /\ Len(r) = n
    <3>1. n \in Nat /\ \A i \in 1 .. n : r[i] \in 1 .. N
      BY <1>1
    <3>2. QED
      <4>1. r = [i \in 1 .. n |-> r[i]]
        OBVIOUS
      <4>2. QED
        BY <3>1, <4>1, IsASeq
  <2>2. QED
    BY <1>1, <2>1, OneSpelling
<1>5. q \in [1 .. Len(q) -> DOMAIN c.node]
  BY <1>1
<1>6. (CHOOSE n \in 0 .. N : \E r \in [1 .. n -> DOMAIN c.node] : Conf!Spells(c, s, r)) = Len(q)
  BY <1>1, <1>3, <1>4, <1>5
<1>7. (CHOOSE r \in [1 .. Len(q) -> DOMAIN c.node] : Conf!Spells(c, s, r)) = q
  BY <1>1, <1>3, <1>4, <1>5
<1>8. QED
  BY <1>6, <1>7 DEF Conf!Chain

\* What is read of a section: its chain's items.
EntrySet == [key : ConfKeys, value : ConfValues]
LEMMA EntriesAre ==
  ASSUME NEW c, NEW ch, Laid(c, ch), NEW s \in ConfSections
  PROVE  /\ Conf!Chain(c, s) = ch[s]
         /\ Conf!Entries(c, s) \in Seq(EntrySet)
         /\ Len(Conf!Entries(c, s)) = Len(ch[s])
         /\ \A n \in 1 .. Len(ch[s]) :
              Conf!Entries(c, s)[n] = [key |-> c.node[ch[s][n]].key, value |-> c.node[ch[s][n]].val]
         /\ \A i, j \in 1 .. Len(ch[s]) :
              Conf!Entries(c, s)[i].key = Conf!Entries(c, s)[j].key => i = j
<1>1. Typed(c) /\ Linked(c, s, ch[s])
  BY DEF Laid
<1>2. Conf!Chain(c, s) = ch[s]
  BY <1>1, ChainIs
<1>3. ch[s] \in Seq(1 .. Len(c.node)) /\ c.node \in Seq(ItemSet)
  BY <1>1 DEF Linked, Typed
<1>4. DOMAIN ch[s] = 1 .. Len(ch[s]) /\ Len(ch[s]) \in Nat
  BY <1>3
<1> DEFINE e(n) == [key |-> c.node[ch[s][n]].key, value |-> c.node[ch[s][n]].val]
<1>5. Conf!Entries(c, s) = [n \in 1 .. Len(ch[s]) |-> e(n)]
  BY <1>2, <1>4 DEF Conf!Entries
<1>6. \A n \in 1 .. Len(ch[s]) : e(n) \in EntrySet
  <2> SUFFICES ASSUME NEW n \in 1 .. Len(ch[s]) PROVE e(n) \in EntrySet
    OBVIOUS
  <2>1. ch[s][n] \in 1 .. Len(c.node)
    BY <1>3
  <2>2. c.node[ch[s][n]] \in ItemSet
    BY <2>1, <1>3
  <2>3. QED
    BY <2>2 DEF ItemSet, EntrySet
<1>7. \A i, j \in 1 .. Len(ch[s]) : e(i).key = e(j).key => i = j
  BY <1>1 DEF Linked
<1> HIDE DEF e
<1>8. [n \in 1 .. Len(ch[s]) |-> e(n)] \in Seq(EntrySet)
  BY <1>4, <1>6, IsASeq
<1>9. Len(Conf!Entries(c, s)) = Len(ch[s])
  BY <1>5, <1>8, <1>4
<1>10. QED
  BY <1>2, <1>5, <1>7, <1>8, <1>9 DEF e

\* A sequence that agrees with the chain's items is what is read.
LEMMA EntriesAs ==
  ASSUME NEW c, NEW ch, Laid(c, ch), NEW s \in ConfSections,
         NEW E \in Seq(EntrySet), Len(E) = Len(ch[s]),
         \A n \in 1 .. Len(ch[s]) : E[n].key = c.node[ch[s][n]].key /\ E[n].value = c.node[ch[s][n]].val
  PROVE  Conf!Entries(c, s) = E
<1> DEFINE F == Conf!Entries(c, s)
<1>1. /\ F \in Seq(EntrySet) /\ Len(F) = Len(ch[s])
      /\ \A n \in 1 .. Len(ch[s]) : F[n] = [key |-> c.node[ch[s][n]].key, value |-> c.node[ch[s][n]].val]
  BY EntriesAre
<1> HIDE DEF F
<1>2. ASSUME NEW n \in 1 .. Len(ch[s]) PROVE F[n] = E[n]
  <2>1. E[n] \in EntrySet
    OBVIOUS
  <2>2. E[n] = [key |-> E[n].key, value |-> E[n].value]
    BY <2>1 DEF EntrySet
  <2>3. QED
    BY <1>1, <2>2
<1>3. F = E
  BY <1>1, <1>2, SeqEqual
<1>4. QED
  BY <1>3 DEF F

LEMMA ItemChanged ==
  ASSUME NEW it \in ItemSet, NEW n \in Nat
  PROVE  [it EXCEPT !.next = n] \in ItemSet /\ [it EXCEPT !.head = n] \in ItemSet
BY DEF ItemSet

\* The nodes after an item was appended.
Appended(c, d, s, k, v) ==
  LET N == Len(c.node)
      f == c.first[s]
      last == c.node[f].head
  IN  /\ Typed(d) /\ d.sections = c.sections /\ Len(d.node) = N + 1
      /\ d.first = [c.first EXCEPT ![s] = IF f = 0 THEN N + 1 ELSE f]
      /\ \A i \in 1 .. N :
           /\ d.node[i].key = c.node[i].key /\ d.node[i].val = c.node[i].val
           /\ d.node[i].prev = c.node[i].prev
           /\ d.node[i].next = IF f # 0 /\ i = last THEN N + 1 ELSE c.node[i].next
           /\ d.node[i].head = IF f # 0 /\ i = f THEN N + 1 ELSE c.node[i].head
      /\ d.node[N + 1] = [key |-> k, val |-> v, next |-> 0, prev |-> IF f = 0 THEN 0 ELSE last, head |-> N + 1]

LEMMA NodesAppended ==
  ASSUME NEW c, Typed(c), NEW s \in ConfSections, NEW k \in ConfKeys, NEW v \in ConfValues,
         c.first[s] # 0 => /\ c.first[s] \in 1 .. Len(c.node)
                           /\ c.node[c.first[s]].head \in 1 .. Len(c.node)
  PROVE  Appended(c, Conf!AppendItem(c, s, k, v), s, k, v)
<1> DEFINE N == Len(c.node)
           f == c.first[s]
           last == c.node[f].head
           d == Conf!AppendItem(c, s, k, v)
<1>1. /\ c.node \in Seq(ItemSet) /\ N \in Nat /\ f \in Nat
      /\ c.first \in [ConfSections \cup {Conf!Title} -> Nat] /\ s \in DOMAIN c.first
      /\ c = [sections |-> c.sections, first |-> c.first, node |-> c.node]
  BY DEF Typed
<1>2. CASE f = 0
  <2> DEFINE new == Conf!Item(k, v, 0, N + 1)
  <2>1. d = [c EXCEPT !.node = Append(c.node, new), !.first[s] = N + 1]
    BY <1>2 DEF Conf!AppendItem, Conf!NULL
  <2>2. d = [sections |-> c.sections, first |-> [c.first EXCEPT ![s] = N + 1], node |-> Append(c.node, new)]
    BY <1>1, <2>1
  <2>3. new = [key |-> k, val |-> v, next |-> 0, prev |-> 0, head |-> N + 1] /\ new \in ItemSet
    BY <1>1 DEF Conf!Item, Conf!NULL, ItemSet
  <2> HIDE DEF new, N
  <2>4. /\ Append(c.node, new) \in Seq(ItemSet) /\ Len(Append(c.node, new)) = N + 1
        /\ \A i \in 1 .. N : Append(c.node, new)[i] = c.node[i]
        /\ Append(c.node, new)[N + 1] = new
    BY <1>1, <2>3, AppendProperties DEF N
  <2>5. [c.first EXCEPT ![s] = N + 1] \in [ConfSections \cup {Conf!Title} -> Nat]
    BY <1>1
  <2>6. Typed(d)
    BY <2>2, <2>4, <2>5 DEF Typed
  <2> HIDE DEF d
  <2>7. QED
    BY <1>2, <2>2, <2>3, <2>4, <2>6 DEF N, d, Appended
<1>3. CASE f # 0
  <2>1. f \in 1 .. N /\ last \in 1 .. N
    BY <1>3
  <2> DEFINE old == [c.node EXCEPT ![last].next = N + 1]
             new == Conf!Item(k, v, last, N + 1)
             more == Append(old, new)
             node == [more EXCEPT ![f].head = N + 1]
  <2>2. d = [c EXCEPT !.node = node]
    BY <1>3 DEF Conf!AppendItem, Conf!NULL
  <2>3. d = [sections |-> c.sections, first |-> c.first, node |-> node]
    BY <1>1, <2>2
  <2>4. new = [key |-> k, val |-> v, next |-> 0, prev |-> last, head |-> N + 1] /\ new \in ItemSet
    BY <1>1, <2>1 DEF Conf!Item, Conf!NULL, ItemSet
  <2>5. \A i \in 1 .. N : c.node[i] \in ItemSet
    BY <1>1
  <2>6. /\ old \in Seq(ItemSet) /\ Len(old) = N
        /\ \A i \in 1 .. N : old[i] = IF i = last THEN [c.node[i] EXCEPT !.next = N + 1] ELSE c.node[i]
    <3>1. [c.node[last] EXCEPT !.next = N + 1] \in ItemSet
      <4>1. c.node[last] \in ItemSet /\ N + 1 \in Nat
        BY <2>1, <2>5, <1>1
      <4> HIDE DEF N, last
      <4>2. QED
        BY <4>1, ItemChanged
    <3>2. old = [c.node EXCEPT ![last] = [c.node[last] EXCEPT !.next = N + 1]]
      BY <1>1, <2>1
    <3> DEFINE it == [c.node[last] EXCEPT !.next = N + 1]
    <3>3. \A j \in 1 .. N : old[j] = IF j = last THEN it ELSE c.node[j]
      <4> HIDE DEF it, last, old
      <4>1. \A j \in 1 .. Len(c.node) : [c.node EXCEPT ![last] = it][j] = IF j = last THEN it ELSE c.node[j]
        BY <1>1, <2>1, <3>1, ExceptSeq
      <4>2. QED
        BY <4>1, <3>2 DEF it
    <3>4. old \in Seq(ItemSet) /\ Len(old) = N
      <4> HIDE DEF it, last
      <4>1. QED
        BY <1>1, <2>1, <3>1, <3>2, ExceptSeq
    <3> HIDE DEF old, N
    <3>5. QED
      BY <3>3, <3>4
  <2> HIDE DEF new, old, N
  <2>7. /\ more \in Seq(ItemSet) /\ Len(more) = N + 1
        /\ \A i \in 1 .. N : more[i] = old[i]
        /\ more[N + 1] = new
    BY <1>1, <2>4, <2>6, AppendProperties
  <2> HIDE DEF more
  <2>8. /\ node \in Seq(ItemSet) /\ Len(node) = N + 1
        /\ \A i \in 1 .. N + 1 : node[i] = IF i = f THEN [more[i] EXCEPT !.head = N + 1] ELSE more[i]
    <3>1. f \in 1 .. Len(more) /\ more[f] \in ItemSet
      BY <1>1, <2>1, <2>7
    <3>2. [more[f] EXCEPT !.head = N + 1] \in ItemSet
      <4>1. N + 1 \in Nat
        BY <1>1
      <4> HIDE DEF N, f
      <4>2. QED
        BY <3>1, <4>1, ItemChanged
    <3>3. node = [more EXCEPT ![f] = [more[f] EXCEPT !.head = N + 1]]
      BY <2>7, <3>1
    <3> HIDE DEF node
    <3>4. QED
      BY SMTT(30), <2>7, <3>1, <3>2, <3>3, ExceptSeq
  <2> HIDE DEF node, d
  <2>9. Typed(d)
    BY <2>3, <2>8 DEF Typed
  <2>10. \A i \in 1 .. N :
           /\ node[i].key = c.node[i].key /\ node[i].val = c.node[i].val
           /\ node[i].prev = c.node[i].prev
           /\ node[i].next = IF i = last THEN N + 1 ELSE c.node[i].next
           /\ node[i].head = IF i = f THEN N + 1 ELSE c.node[i].head
    <3> SUFFICES ASSUME NEW i \in 1 .. N
                 PROVE  /\ node[i].key = c.node[i].key /\ node[i].val = c.node[i].val
                        /\ node[i].prev = c.node[i].prev
                        /\ node[i].next = IF i = last THEN N + 1 ELSE c.node[i].next
                        /\ node[i].head = IF i = f THEN N + 1 ELSE c.node[i].head
      OBVIOUS
    <3>1. c.node[i] \in ItemSet /\ i \in 1 .. N + 1
      BY <2>5, <1>1
    <3>2. old[i] = IF i = last THEN [c.node[i] EXCEPT !.next = N + 1] ELSE c.node[i]
      BY <2>6
    <3>3. node[i] = IF i = f THEN [old[i] EXCEPT !.head = N + 1] ELSE old[i]
      BY <2>7, <2>8, <3>1
    <3> HIDE DEF f, last
    <3>4. QED
      BY <3>1, <3>2, <3>3 DEF ItemSet
  <2>11. node[N + 1] = new
    BY <2>1, <2>7, <2>8, <1>1
  <2>12. [c.first EXCEPT ![s] = f] = c.first
    BY <1>1
  <2>13. /\ d.sections = c.sections /\ d.node = node /\ d.first = c.first
         /\ d.first = [c.first EXCEPT ![s] = IF f = 0 THEN N + 1 ELSE f]
    <3> HIDE DEF f
    <3>1. d.sections = c.sections /\ d.node = node /\ d.first = c.first
      BY <2>3
    <3>2. QED
      BY <1>3, <2>12, <3>1
  <2>14. /\ \A i \in 1 .. N :
              /\ d.node[i].key = c.node[i].key /\ d.node[i].val = c.node[i].val
              /\ d.node[i].prev = c.node[i].prev
              /\ d.node[i].next = IF f # 0 /\ i = last THEN N + 1 ELSE c.node[i].next
              /\ d.node[i].head = IF f # 0 /\ i = f THEN N + 1 ELSE c.node[i].head
         /\ d.node[N + 1] = [key |-> k, val |-> v, next |-> 0, prev |-> IF f = 0 THEN 0 ELSE last, head |-> N + 1]
    <3> HIDE DEF f, last
    <3>1. QED
      BY <1>3, <2>4, <2>10, <2>11, <2>13
  <2>15. Len(d.node) = N + 1
    BY <2>8, <2>13
  <2>16. QED
    BY <2>9, <2>13, <2>14, <2>15 DEF N, d, Appended
<1>4. QED
  BY <1>2, <1>3

\* An item that is appended is the last of its chain; other chains stay.
LEMMA AppendLaid ==
  ASSUME NEW c, NEW ch, Laid(c, ch), NEW s \in ConfSections, s \in Conf!Known(c),
         NEW k \in ConfKeys, NEW v \in ConfValues,
         \A i \in 1 .. Len(ch[s]) : c.node[ch[s][i]].key # k
  PROVE  LET d == Conf!AppendItem(c, s, k, v)
             dh == [ch EXCEPT ![s] = Append(ch[s], Len(c.node) + 1)]
         IN  /\ Laid(d, dh) /\ d.sections = c.sections
             /\ \A t \in ConfSections :
                  Conf!Entries(d, t) = IF t = s THEN Append(Conf!Entries(c, s), [key |-> k, value |-> v])
                                       ELSE Conf!Entries(c, t)
<1> DEFINE N == Len(c.node)
           f == c.first[s]
           last == c.node[f].head
           d == Conf!AppendItem(c, s, k, v)
           dh == [ch EXCEPT ![s] = Append(ch[s], N + 1)]
           q == ch[s]
           L == Len(q)
<1>1. /\ Typed(c) /\ Linked(c, s, q) /\ c.node \in Seq(ItemSet) /\ N \in Nat
      /\ q \in Seq(1 .. N) /\ L \in Nat /\ \A i \in 1 .. L : q[i] \in 1 .. N
      /\ \A i \in 1 .. N : c.node[i] \in ItemSet
  BY DEF Laid, Linked, Typed
<1>2. f = 0 <=> L = 0
  BY <1>1, EmptySeq DEF Linked, Conf!Spells, Conf!NULL
<1>3. L # 0 => f = q[1] /\ last = q[L] /\ f \in 1 .. N /\ last \in 1 .. N /\ c.node[q[L]].next = 0
  <2> SUFFICES ASSUME L # 0
               PROVE  f = q[1] /\ last = q[L] /\ f \in 1 .. N /\ last \in 1 .. N /\ c.node[q[L]].next = 0
    OBVIOUS
  <2>1. 1 \in 1 .. L /\ L \in 1 .. L /\ q # <<>>
    BY <1>1
  <2>2. f = q[1] /\ c.node[q[L]].next = 0
    BY <1>1, <2>1 DEF Linked, Conf!Spells, Conf!NULL
  <2>3. c.node[q[1]].head = q[L]
    BY <1>1, <2>1 DEF Linked
  <2>4. QED
    BY <1>1, <2>1, <2>2, <2>3
<1>4. \A i, j \in 1 .. L : q[i] = q[j] => i = j
  BY <1>1 DEF Linked
<1>5. /\ Typed(d) /\ d.sections = c.sections /\ Len(d.node) = N + 1
      /\ d.first = [c.first EXCEPT ![s] = IF f = 0 THEN N + 1 ELSE f]
      /\ \A i \in 1 .. N :
           /\ d.node[i].key = c.node[i].key /\ d.node[i].val = c.node[i].val
           /\ d.node[i].prev = c.node[i].prev
           /\ d.node[i].next = IF f # 0 /\ i = last THEN N + 1 ELSE c.node[i].next
           /\ d.node[i].head = IF f # 0 /\ i = f THEN N + 1 ELSE c.node[i].head
      /\ d.node[N + 1] = [key |-> k, val |-> v, next |-> 0, prev |-> IF f = 0 THEN 0 ELSE last, head |-> N + 1]
  <2>1. f # 0 => f \in 1 .. Len(c.node) /\ c.node[f].head \in 1 .. Len(c.node)
    BY <1>2, <1>3
  <2>2. Appended(c, d, s, k, v)
    BY <1>1, <2>1, NodesAppended
  <2> HIDE DEF d
  <2>3. QED
    BY <2>2 DEF Appended
<1> HIDE DEF d
<1> DEFINE r == Append(q, N + 1)
<1>6. /\ r \in Seq(1 .. N + 1) /\ Len(r) = L + 1 /\ r[L + 1] = N + 1
      /\ \A i \in 1 .. L : r[i] = q[i]
  <2>1. q \in Seq(1 .. N + 1) /\ N + 1 \in 1 .. N + 1
    <3>1. (1 .. N) \subseteq (1 .. N + 1) /\ N + 1 \in 1 .. N + 1
      BY <1>1
    <3>2. QED
      BY <1>1, <3>1, SeqMonotonic
  <2> HIDE DEF q, N
  <2>2. QED
    BY <2>1, AppendProperties DEF L
<1>7. Linked(d, s, r)
  <2>1. Conf!Spells(d, s, r)
    <3>1. r # <<>> /\ d.first[s] # 0 /\ r[1] = d.first[s]
      <4>1. d.first[s] = IF f = 0 THEN N + 1 ELSE f
        BY <1>1, <1>5 DEF Typed
      <4>2. CASE L = 0
        <5>1. r[1] = N + 1 /\ Len(r) = 1 /\ f = 0
          BY <4>2, <1>2, <1>6
        <5> HIDE DEF r
        <5>2. r # <<>>
          <6>1. Len(r) # 0
            BY <5>1
          <6>2. QED
            BY <6>1, NotEmpty
        <5>3. d.first[s] = N + 1
          BY <4>1, <5>1
        <5> HIDE DEF N
        <5>4. QED
          BY <5>1, <5>2, <5>3, <1>1
      <4>3. CASE L # 0
        <5>1. 1 \in 1 .. L /\ Len(r) # 0
          BY <4>3, <1>1, <1>6
        <5>2. f = q[1] /\ f \in 1 .. N /\ f # 0
          BY <4>3, <1>1, <1>3
        <5>3. r[1] = q[1]
          BY <5>1, <1>6
        <5> HIDE DEF r, f, q, N
        <5>4. r # <<>>
          BY <5>1, NotEmpty
        <5>5. QED
          BY <4>1, <5>2, <5>3, <5>4
      <4>4. QED
        BY <4>2, <4>3
    <3>2. d.node[r[Len(r)]].next = 0
      BY <1>5, <1>6
    <3>3. ASSUME NEW i \in 1 .. Len(r) - 1 PROVE d.node[r[i]].next = r[i + 1]
      <4>1. i \in 1 .. L /\ L # 0 /\ r[i] = q[i] /\ q[i] \in 1 .. N
        BY <1>1, <1>6, <3>3
      <4>2. CASE i = L
        <5>1. q[i] = last /\ f # 0
          BY <4>1, <4>2, <1>2, <1>3
        <5> HIDE DEF last, f, q, r, L, N
        <5>2. QED
          BY <4>1, <4>2, <5>1, <1>5, <1>6
      <4>3. CASE i # L
        <5>1. i \in 1 .. L - 1 /\ i + 1 \in 1 .. L /\ L \in 1 .. L
          BY <4>1, <4>3, <1>1
        <5>2. c.node[q[i]].next = q[i + 1]
          BY <5>1, <1>1 DEF Linked, Conf!Spells
        <5>3. q[i] # last
          BY <5>1, <4>1, <4>3, <1>3, <1>4
        <5>4. r[i + 1] = q[i + 1]
          BY <5>1, <1>6
        <5> HIDE DEF last, f, q, r, L, N
        <5>5. QED
          BY <4>1, <5>2, <5>3, <5>4, <1>5
      <4>4. QED
        BY <4>2, <4>3
    <3>4. QED
      BY <3>1, <3>2, <3>3 DEF Conf!Spells, Conf!NULL
  <2>2. ASSUME NEW i \in 1 .. L + 1, NEW j \in 1 .. L + 1, d.node[r[i]].key = d.node[r[j]].key
        PROVE  i = j
    <3>1. \A n \in 1 .. L : d.node[r[n]].key = c.node[q[n]].key
      BY <1>1, <1>5, <1>6
    <3>2. d.node[r[L + 1]].key = k
      BY <1>5, <1>6
    <3>3. \A n, m \in 1 .. L : c.node[q[n]].key = c.node[q[m]].key => n = m
      BY <1>1 DEF Linked
    <3>4. \A n \in 1 .. L : c.node[q[n]].key # k
      OBVIOUS
    <3> HIDE DEF q, L, r
    <3>5. (i \in 1 .. L \/ i = L + 1) /\ (j \in 1 .. L \/ j = L + 1)
      BY <1>1
    <3>6. QED
      BY <2>2, <3>1, <3>2, <3>3, <3>4, <3>5
  <2>3. ASSUME NEW i \in 1 .. L + 1
        PROVE  /\ d.node[r[i]].prev = IF i = 1 THEN 0 ELSE r[i - 1]
               /\ d.node[r[i]].head = IF i = 1 THEN r[L + 1] ELSE r[i]
    <3>1. CASE i = L + 1
      <4>1. d.node[r[i]].prev = (IF f = 0 THEN 0 ELSE last) /\ d.node[r[i]].head = N + 1
        BY <3>1, <1>5, <1>6
      <4>2. CASE L = 0
        BY <4>1, <4>2, <3>1, <1>2, <1>6
      <4>3. CASE L # 0
        <5>1. i # 1 /\ i - 1 = L /\ L \in 1 .. L
          BY <3>1, <4>3, <1>1
        <5>2. r[i - 1] = last /\ f # 0
          BY <5>1, <1>2, <1>3, <1>6
        <5>3. QED
          BY <4>1, <5>1, <5>2, <3>1, <1>6
      <4>4. QED
        BY <4>2, <4>3
    <3>2. CASE i # L + 1
      <4>1. i \in 1 .. L /\ L # 0 /\ r[i] = q[i] /\ q[i] \in 1 .. N /\ 1 \in 1 .. L
        BY <1>1, <1>6, <3>2
      <4>2. /\ c.node[q[i]].prev = IF i = 1 THEN 0 ELSE q[i - 1]
            /\ c.node[q[i]].head = IF i = 1 THEN q[L] ELSE q[i]
        BY <1>1, <4>1 DEF Linked
      <4>3. i # 1 => i - 1 \in 1 .. L
        BY <4>1, <1>1
      <4>4. q[i] = f <=> i = 1
        BY <4>1, <1>3, <1>4
      <4>5. f # 0
        BY <4>1, <1>2
      <4>6. d.node[q[i]].prev = c.node[q[i]].prev /\ d.node[q[i]].head = IF q[i] = f THEN N + 1 ELSE c.node[q[i]].head
        BY <4>1, <4>5, <1>5
      <4>7. i # 1 => r[i - 1] = q[i - 1]
        BY <4>3, <1>6
      <4> HIDE DEF q, r, f, L, N
      <4>8. QED
        BY <4>1, <4>2, <4>4, <4>6, <4>7, <1>6
    <3>3. QED
      BY <3>1, <3>2
  <2>4. r \in Seq(1 .. Len(d.node)) /\ Len(r) = L + 1
    <3> HIDE DEF r, L, N
    <3>1. QED
      BY <1>5, <1>6
  <2>5. /\ \A i, j \in 1 .. Len(r) : d.node[r[i]].key = d.node[r[j]].key => i = j
        /\ \A i \in 1 .. Len(r) :
             /\ d.node[r[i]].prev = IF i = 1 THEN 0 ELSE r[i - 1]
             /\ d.node[r[i]].head = IF i = 1 THEN r[Len(r)] ELSE r[i]
    <3> HIDE DEF r, L
    <3>1. QED
      BY <2>2, <2>3, <2>4
  <2>6. QED
    BY <2>1, <2>4, <2>5 DEF Linked
<1>8. ASSUME NEW t \in ConfSections, t # s PROVE Linked(d, t, ch[t])
  <2> DEFINE p == ch[t]
  <2>1. p \in Seq(1 .. N) /\ Len(p) \in Nat /\ (\A i \in 1 .. Len(p) : p[i] \in 1 .. N) /\ Linked(c, t, p)
    BY SectionLaid
  <2>2. p \in Seq(1 .. N + 1)
    <3>1. (1 .. N) \subseteq (1 .. N + 1)
      BY <1>1
    <3>2. QED
      BY <2>1, <3>1, SeqMonotonic
  <2>3. \A i \in 1 .. Len(p) : f # 0 => p[i] # f /\ p[i] # last
    <3>1. \A i \in 1 .. Len(p), j \in 1 .. L : p[i] # q[j]
      BY <1>8 DEF Laid
    <3>2. f # 0 => 1 \in 1 .. L /\ L \in 1 .. L
      BY <1>1, <1>2
    <3>3. QED
      BY <3>1, <3>2, <1>2, <1>3
  <2>4. \A i \in 1 .. Len(p) : /\ d.node[p[i]].key = c.node[p[i]].key /\ d.node[p[i]].prev = c.node[p[i]].prev
                               /\ d.node[p[i]].next = c.node[p[i]].next /\ d.node[p[i]].head = c.node[p[i]].head
    <3> HIDE DEF p, f, last, N
    <3>1. QED
      BY <2>1, <2>3, <1>5
  <2>5. d.first[t] = c.first[t]
    BY <1>5, <1>8, <1>1 DEF Typed
  <2> HIDE DEF p
  <2>6. Conf!Spells(d, t, p)
    <3>1. p # <<>> => Len(p) \in 1 .. Len(p)
      BY <2>1, EmptySeq
    <3>2. \A i \in 1 .. Len(p) - 1 : i \in 1 .. Len(p)
      BY <2>1
    <3>3. QED
      BY <2>1, <2>4, <2>5, <3>1, <3>2 DEF Linked, Conf!Spells
  <2>7. Linked(d, t, p)
    <3>1. p \in Seq(1 .. Len(d.node))
      BY <2>2, <1>5
    <3>2. \A i, j \in 1 .. Len(p) : d.node[p[i]].key = d.node[p[j]].key => i = j
      BY <2>1, <2>4 DEF Linked
    <3>3. \A i \in 1 .. Len(p) : /\ d.node[p[i]].prev = IF i = 1 THEN 0 ELSE p[i - 1]
                                 /\ d.node[p[i]].head = IF i = 1 THEN p[Len(p)] ELSE p[i]
      BY <2>1, <2>4 DEF Linked
    <3>4. QED
      BY <2>6, <3>1, <3>2, <3>3 DEF Linked
  <2>8. QED
    BY <2>7 DEF p
<1>9. dh[s] = r /\ \A t \in ConfSections : t # s => dh[t] = ch[t]
  BY DEF Laid
<1> HIDE DEF dh
<1>10. dh \in [ConfSections -> Seq(1 .. N + 1)]
  <2>1. \A t \in ConfSections : ch[t] \in Seq(1 .. N + 1)
    <3>1. (1 .. N) \subseteq (1 .. N + 1)
      BY <1>1
    <3>2. QED
      BY <3>1, SeqMonotonic DEF Laid
  <2> HIDE DEF r
  <2>2. QED
    BY <1>6, <2>1 DEF dh, Laid
<1>11. ASSUME NEW t \in ConfSections, NEW u \in ConfSections,
              NEW i \in 1 .. Len(dh[t]), NEW j \in 1 .. Len(dh[u]), dh[t][i] = dh[u][j]
       PROVE  t = u
  <2>1. ASSUME NEW w \in ConfSections, NEW n \in 1 .. Len(dh[w])
        PROVE  \/ n \in 1 .. Len(ch[w]) /\ dh[w][n] = ch[w][n] /\ ch[w][n] \in 1 .. N
               \/ w = s /\ dh[w][n] = N + 1
    <3>1. CASE w # s
      <4>1. dh[w] = ch[w] /\ ch[w] \in Seq(1 .. N)
        BY <3>1, <1>9 DEF Laid
      <4>2. QED
        BY <4>1
    <3>2. CASE w = s
      <4>1. dh[w] = r /\ ch[w] = q
        BY <3>2, <1>9
      <4>2. n \in 1 .. L + 1
        BY <4>1, <1>6
      <4>3. n \in 1 .. L \/ n = L + 1
        BY <4>2, <1>1
      <4> HIDE DEF r, q, N
      <4>4. QED
        BY <4>1, <4>3, <3>2, <1>1, <1>6
    <3>3. QED
      BY <3>1, <3>2
  <2>2. N + 1 \notin 1 .. N
    BY <1>1
  <2>3. \A w, x \in ConfSections : \A n \in 1 .. Len(ch[w]), m \in 1 .. Len(ch[x]) :
           ch[w][n] = ch[x][m] => w = x
    BY DEF Laid
  <2>4. /\ (i \in 1 .. Len(ch[t]) /\ dh[t][i] = ch[t][i] /\ ch[t][i] \in 1 .. N) \/ (t = s /\ dh[t][i] = N + 1)
        /\ (j \in 1 .. Len(ch[u]) /\ dh[u][j] = ch[u][j] /\ ch[u][j] \in 1 .. N) \/ (u = s /\ dh[u][j] = N + 1)
    BY <2>1
  <2> HIDE DEF N
  <2>5. QED
    BY <2>2, <2>3, <2>4, <1>11
<1>12. Conf!Known(d) = Conf!Known(c)
  BY <1>5 DEF Conf!Known, Conf!ToSet
<1>13. Laid(d, dh)
  <2>1. dh \in [ConfSections -> Seq(1 .. Len(d.node))]
    BY <1>5, <1>10
  <2>2. ASSUME NEW t \in ConfSections PROVE Linked(d, t, dh[t]) /\ (t \notin Conf!Known(d) => dh[t] = <<>>)
    <3>1. CASE t = s
      <4>1. dh[t] = r
        BY <3>1, <1>9
      <4> HIDE DEF r
      <4>2. QED
        BY <3>1, <4>1, <1>7, <1>12
    <3>2. CASE t # s
      BY <3>2, <1>8, <1>9, <1>12 DEF Laid
    <3>3. QED
      BY <3>1, <3>2
  <2>3. QED
    BY <1>5, <1>11, <2>1, <2>2 DEF Laid
<1>14. ASSUME NEW t \in ConfSections
       PROVE  Conf!Entries(d, t) = IF t = s THEN Append(Conf!Entries(c, s), [key |-> k, value |-> v])
                                   ELSE Conf!Entries(c, t)
  <2> DEFINE E == Conf!Entries(c, t)
             e == [key |-> k, value |-> v]
  <2>1. /\ E \in Seq(EntrySet) /\ Len(E) = Len(ch[t])
        /\ \A n \in 1 .. Len(ch[t]) : E[n] = [key |-> c.node[ch[t][n]].key, value |-> c.node[ch[t][n]].val]
    BY EntriesAre
  <2>2. ch[t] \in Seq(1 .. N)
    BY DEF Laid
  <2>3. \A n \in 1 .. Len(ch[t]) : ch[t][n] \in 1 .. N
    BY <2>2
  <2> HIDE DEF E
  <2>4. \A n \in 1 .. Len(ch[t]) : /\ E[n].key = d.node[ch[t][n]].key
                                   /\ E[n].value = d.node[ch[t][n]].val
    <3> SUFFICES ASSUME NEW n \in 1 .. Len(ch[t])
                 PROVE  E[n].key = d.node[ch[t][n]].key /\ E[n].value = d.node[ch[t][n]].val
      OBVIOUS
    <3>1. \A i \in 1 .. N : d.node[i].key = c.node[i].key /\ d.node[i].val = c.node[i].val
      BY <1>5
    <3> HIDE DEF N
    <3>2. /\ d.node[ch[t][n]].key = c.node[ch[t][n]].key
          /\ d.node[ch[t][n]].val = c.node[ch[t][n]].val
      BY <2>3, <3>1
    <3>3. E[n] = [key |-> c.node[ch[t][n]].key, value |-> c.node[ch[t][n]].val]
      BY <2>1
    <3>4. QED
      BY <3>2, <3>3
  <2>5. CASE t # s
    <3>1. dh[t] = ch[t]
      BY <2>5, <1>9
    <3>2. Conf!Entries(d, t) = E
      <4> DEFINE p == dh[t]
      <4>1. Len(E) = Len(p) /\ \A n \in 1 .. Len(p) : E[n].key = d.node[p[n]].key /\ E[n].value = d.node[p[n]].val
        BY <2>1, <2>4, <3>1
      <4> HIDE DEF dh, d
      <4>2. QED
        BY <1>13, <2>1, <4>1, EntriesAs
    <3>3. QED
      BY <3>2, <2>5 DEF E
  <2>6. CASE t = s
    <3>1. e \in EntrySet
      BY DEF EntrySet
    <3>2. dh[t] = r /\ ch[t] = q
      BY <2>6, <1>9
    <3> HIDE DEF e
    <3> DEFINE A == Append(E, e)
    <3>3. /\ A \in Seq(EntrySet) /\ Len(A) = L + 1
          /\ A[L + 1] = e /\ \A n \in 1 .. L : A[n] = E[n]
      BY <2>1, <3>1, <3>2, AppendProperties
    <3>4. d.node[r[L + 1]].key = e.key /\ d.node[r[L + 1]].val = e.value
      BY <1>5, <1>6 DEF e
    <3> HIDE DEF A, r
    <3>5. ASSUME NEW n \in 1 .. L + 1
          PROVE  A[n].key = d.node[r[n]].key /\ A[n].value = d.node[r[n]].val
      <4>1. n \in 1 .. L \/ n = L + 1
        BY <1>1
      <4> HIDE DEF q, L
      <4>2. CASE n \in 1 .. L
        <5>1. A[n] = E[n] /\ r[n] = q[n]
          BY <4>2, <3>3, <1>6
        <5>2. n \in 1 .. Len(ch[t]) /\ ch[t][n] = q[n]
          BY <4>2, <3>2 DEF L
        <5>3. QED
          BY <5>1, <5>2, <2>4
      <4>3. CASE n = L + 1
        BY <4>3, <3>3, <3>4
      <4>4. QED
        BY <4>1, <4>2, <4>3
    <3>7. Conf!Entries(d, t) = A
      <4> DEFINE p == dh[t]
      <4>1. Len(A) = Len(p) /\ \A n \in 1 .. Len(p) : A[n].key = d.node[p[n]].key /\ A[n].value = d.node[p[n]].val
        <5> HIDE DEF L
        <5>1. QED
          BY <3>2, <3>3, <3>5, <1>6
      <4>2. A \in Seq(EntrySet)
        BY <3>3
      <4> HIDE DEF dh, d
      <4>3. QED
        BY <1>13, <4>1, <4>2, EntriesAs
    <3>8. QED
      BY <3>7, <2>6 DEF A, E, e
  <2>7. QED
    BY <2>5, <2>6
<1>15. QED
  BY <1>5, <1>13, <1>14 DEF d, dh

\* The first item of a key in the chain is the only one.
LEMMA SearchIs ==
  ASSUME NEW c, NEW ch, Laid(c, ch), NEW s \in ConfSections, NEW k \in ConfKeys
  PROVE  \/ /\ Conf!uf_search_confitem(c, s, k) = 0
            /\ \A i \in 1 .. Len(ch[s]) : c.node[ch[s][i]].key # k
         \/ \E i \in 1 .. Len(ch[s]) :
              /\ Conf!uf_search_confitem(c, s, k) = ch[s][i] /\ ch[s][i] \in 1 .. Len(c.node)
              /\ c.node[ch[s][i]].key = k
<1> DEFINE q == ch[s]
           found == {i \in 1 .. Len(q) : c.node[q[i]].key = k}
<1>1. /\ q \in Seq(1 .. Len(c.node)) /\ Conf!Chain(c, s) = q /\ DOMAIN q = 1 .. Len(q)
      /\ \A i, j \in 1 .. Len(q) : c.node[q[i]].key = c.node[q[j]].key => i = j
  <2>1. Conf!Chain(c, s) = q
    BY EntriesAre
  <2>2. Linked(c, s, q)
    BY DEF Laid
  <2>3. QED
    BY <2>1, <2>2 DEF Linked
<1>2. Conf!uf_search_confitem(c, s, k) =
        IF found = {} THEN 0 ELSE q[CHOOSE i \in found : \A j \in found : i <= j]
  BY <1>1 DEF Conf!uf_search_confitem, Conf!NULL
<1>3. CASE found = {}
  BY <1>2, <1>3
<1>4. CASE found # {}
  <2>1. PICK i \in 1 .. Len(q) : c.node[q[i]].key = k
    BY <1>4
  <2>2. found = {i}
    BY <1>1, <2>1
  <2>3. (CHOOSE m \in {i} : \A j \in {i} : m <= j) = i
    OBVIOUS
  <2> HIDE DEF found
  <2>4. Conf!uf_search_confitem(c, s, k) = q[i]
    BY <1>2, <2>2, <2>3
  <2>5. q[i] \in 1 .. Len(c.node)
    BY <1>1
  <2>6. QED
    BY <2>1, <2>4, <2>5
<1>5. QED
  BY <1>3, <1>4

\* As long as the links and the keys stay, so do the chains.
LEMMA SameLinks ==
  ASSUME NEW c, NEW ch, Laid(c, ch), NEW d, Typed(d), Conf!Known(c) \subseteq Conf!Known(d),
         d.first = c.first, Len(d.node) = Len(c.node),
         \A n \in 1 .. Len(c.node) :
            /\ d.node[n].key = c.node[n].key /\ d.node[n].prev = c.node[n].prev
            /\ d.node[n].next = c.node[n].next /\ d.node[n].head = c.node[n].head
  PROVE  Laid(d, ch)
<1>1. ASSUME NEW s \in ConfSections PROVE Linked(d, s, ch[s]) /\ (s \notin Conf!Known(d) => ch[s] = <<>>)
  <2> DEFINE p == ch[s]
  <2>1. /\ p \in Seq(1 .. Len(c.node)) /\ Len(p) \in Nat /\ (\A i \in 1 .. Len(p) : p[i] \in 1 .. Len(c.node))
        /\ Linked(c, s, p) /\ (s \notin Conf!Known(c) => p = <<>>)
    BY SectionLaid
  <2> HIDE DEF p
  <2>2. \A i \in 1 .. Len(p) : /\ d.node[p[i]].key = c.node[p[i]].key /\ d.node[p[i]].prev = c.node[p[i]].prev
                               /\ d.node[p[i]].next = c.node[p[i]].next /\ d.node[p[i]].head = c.node[p[i]].head
    BY <2>1
  <2>3. Conf!Spells(d, s, p)
    <3>1. p # <<>> => Len(p) \in 1 .. Len(p)
      BY <2>1, EmptySeq
    <3>2. \A i \in 1 .. Len(p) - 1 : i \in 1 .. Len(p)
      BY <2>1
    <3> DEFINE first == c.first[s]
               After(n) == c.node[n].next
    <3>3. /\ p = <<>> <=> first = Conf!NULL
          /\ p # <<>> => p[1] = first /\ After(p[Len(p)]) = Conf!NULL
          /\ \A i \in 1 .. Len(p) - 1 : After(p[i]) = p[i + 1]
      BY <2>1 DEF Linked, Conf!Spells
    <3>4. d.first[s] = first /\ (\A i \in 1 .. Len(p) : d.node[p[i]].next = After(p[i]))
      BY <2>2
    <3> HIDE DEF first, After
    <3>5. p # <<>> => p[1] = d.first[s] /\ d.node[p[Len(p)]].next = Conf!NULL
      BY <3>1, <3>3, <3>4
    <3>6. \A i \in 1 .. Len(p) - 1 : d.node[p[i]].next = p[i + 1]
      BY <3>2, <3>3, <3>4
    <3>7. QED
      BY <3>3, <3>4, <3>5, <3>6 DEF Conf!Spells
  <2>4. \A i, j \in 1 .. Len(p) : d.node[p[i]].key = d.node[p[j]].key => i = j
    BY <2>1, <2>2 DEF Linked
  <2>5. \A i \in 1 .. Len(p) : /\ d.node[p[i]].prev = IF i = 1 THEN 0 ELSE p[i - 1]
                               /\ d.node[p[i]].head = IF i = 1 THEN p[Len(p)] ELSE p[i]
    BY <2>1, <2>2 DEF Linked
  <2>6. Linked(d, s, p)
    BY <2>1, <2>3, <2>4, <2>5 DEF Linked
  <2>7. QED
    BY <2>1, <2>6 DEF p
<1>2. QED
  BY <1>1 DEF Laid

LEMMA LoadKeeps ==
  ASSUME NEW c, NEW ch, Laid(c, ch), NEW s \in ConfSections, NEW d,
         d = Conf!g15daemon_cfg_load_section(c, s)
  PROVE  /\ Laid(d, ch) /\ d.node = c.node
         /\ d.sections = IF s \in Conf!Known(c) THEN c.sections ELSE Append(c.sections, s)
         /\ Conf!Known(d) = Conf!Known(c) \cup {s}
         /\ \A t \in ConfSections : Conf!Entries(d, t) = Conf!Entries(c, t)
<1>1. CASE s \in Conf!Known(c)
  BY <1>1 DEF Conf!g15daemon_cfg_load_section, Conf!Known
<1>2. CASE s \notin Conf!Known(c)
  <2>1. Typed(c)
    BY DEF Laid
  <2>2. d = [sections |-> Append(c.sections, s), first |-> c.first, node |-> c.node]
    BY <1>2, <2>1 DEF Conf!g15daemon_cfg_load_section, Conf!Known, Typed
  <2> DEFINE S == c.sections
             T == Append(S, s)
  <2>3. S \in Seq(ConfSections) /\ Len(S) \in Nat
    BY <2>1 DEF Typed
  <2> HIDE DEF S
  <2>4. T \in Seq(ConfSections) /\ Len(T) = Len(S) + 1 /\ T[Len(S) + 1] = s /\ \A i \in 1 .. Len(S) : T[i] = S[i]
    BY <2>3, AppendProperties
  <2> HIDE DEF T
  <2>5. Conf!Known(c) = {S[i] : i \in 1 .. Len(S)} /\ Conf!Known(d) = {T[i] : i \in 1 .. Len(T)}
    BY <2>2, <2>3, <2>4 DEF S, T, Conf!Known, Conf!ToSet
  <2>6. \A i \in 1 .. Len(T) : i \in 1 .. Len(S) \/ i = Len(S) + 1
    BY <2>3, <2>4
  <2>7. \A i \in 1 .. Len(S) : i \in 1 .. Len(T)
    BY <2>3, <2>4
  <2>8. Len(S) + 1 \in 1 .. Len(T)
    BY <2>3, <2>4
  <2>9. Conf!Known(d) = Conf!Known(c) \cup {s}
    BY <2>4, <2>5, <2>6, <2>7, <2>8
  <2>10. ASSUME NEW i \in 1 .. Len(T), NEW j \in 1 .. Len(T), T[i] = T[j] PROVE i = j
    <3>1. \A a, b \in 1 .. Len(S) : S[a] = S[b] => a = b
      BY <2>1 DEF Typed, S
    <3>2. \A a \in 1 .. Len(S) : S[a] # s
      BY <1>2, <2>5
    <3>3. QED
      BY <2>4, <2>6, <2>10, <3>1, <3>2
  <2>11. Typed(d)
    BY <2>1, <2>2, <2>4, <2>10 DEF Typed, T, S
  <2>12. Laid(d, ch)
    BY <2>2, <2>9, <2>11, SameLinks
  <2>13. ASSUME NEW t \in ConfSections PROVE Conf!Entries(d, t) = Conf!Entries(c, t)
    <3>1. Conf!Chain(d, t) = ch[t] /\ Conf!Chain(c, t) = ch[t]
      BY <2>12, EntriesAre
    <3>2. d.node = c.node
      BY <2>2
    <3> HIDE DEF Conf!Chain
    <3>3. QED
      BY <3>1, <3>2, Zenon DEF Conf!Entries
  <2>14. d.node = c.node /\ d.sections = Append(c.sections, s)
    BY <2>2 DEF T, S
  <2>15. QED
    BY <1>2, <2>9, <2>12, <2>13, <2>14
<1>3. QED
  BY <1>1, <1>2

\* An item whose value is written again stays where it is.
Rewritten(c, d, m, v) ==
  /\ Typed(d) /\ d.sections = c.sections /\ d.first = c.first /\ Len(d.node) = Len(c.node)
  /\ \A n \in 1 .. Len(c.node) :
       /\ d.node[n].key = c.node[n].key /\ d.node[n].prev = c.node[n].prev
       /\ d.node[n].next = c.node[n].next /\ d.node[n].head = c.node[n].head
       /\ d.node[n].val = IF n = m THEN v ELSE c.node[n].val

LEMMA NodeRewritten ==
  ASSUME NEW c, Typed(c), NEW m \in 1 .. Len(c.node), NEW v \in ConfValues
  PROVE  Rewritten(c, [c EXCEPT !.node[m].val = v], m, v)
<1> DEFINE it == [c.node[m] EXCEPT !.val = v]
           node == [c.node EXCEPT ![m] = it]
           d == [c EXCEPT !.node[m].val = v]
<1>1. /\ c.node \in Seq(ItemSet) /\ c.sections \in Seq(ConfSections)
      /\ c.first \in [ConfSections \cup {Conf!Title} -> Nat]
      /\ \A i, j \in 1 .. Len(c.sections) : c.sections[i] = c.sections[j] => i = j
      /\ c = [sections |-> c.sections, first |-> c.first, node |-> c.node]
  BY DEF Typed
<1>2. c.node[m] \in ItemSet
  BY <1>1
<1>3. it \in ItemSet /\ it.key = c.node[m].key /\ it.prev = c.node[m].prev /\ it.next = c.node[m].next
      /\ it.head = c.node[m].head /\ it.val = v
  BY <1>2 DEF ItemSet
<1>4. d = [sections |-> c.sections, first |-> c.first, node |-> node]
  <2>1. d = [c EXCEPT !.node = [c.node EXCEPT ![m] = it]]
    BY <1>1
  <2> HIDE DEF it, d
  <2>2. QED
    BY <1>1, <2>1
<1> HIDE DEF it, d
<1>5. /\ node \in Seq(ItemSet) /\ Len(node) = Len(c.node)
      /\ \A j \in 1 .. Len(c.node) : node[j] = IF j = m THEN it ELSE c.node[j]
  BY <1>1, <1>3, ExceptSeq
<1> HIDE DEF node
<1>6. Typed(d)
  BY <1>1, <1>4, <1>5 DEF Typed
<1>7. \A n \in 1 .. Len(c.node) :
         /\ node[n].key = c.node[n].key /\ node[n].prev = c.node[n].prev
         /\ node[n].next = c.node[n].next /\ node[n].head = c.node[n].head
         /\ node[n].val = IF n = m THEN v ELSE c.node[n].val
  BY <1>3, <1>5
<1>8. d.node = node /\ d.first = c.first /\ d.sections = c.sections
  BY <1>4
<1>9. Rewritten(c, d, m, v)
  BY <1>5, <1>6, <1>7, <1>8 DEF Rewritten
<1>10. QED
  BY <1>9 DEF d

LEMMA Overwritten ==
  ASSUME NEW c, NEW ch, Laid(c, ch), NEW s \in ConfSections, NEW k \in ConfKeys, NEW v \in ConfValues,
         NEW i \in 1 .. Len(ch[s]), c.node[ch[s][i]].key = k,
         NEW d, Rewritten(c, d, ch[s][i], v)
  PROVE  /\ Laid(d, ch)
         /\ \A t \in ConfSections :
              Conf!Entries(d, t) = IF t = s THEN [Conf!Entries(c, s) EXCEPT ![i] = [key |-> k, value |-> v]]
                                   ELSE Conf!Entries(c, t)
<1> DEFINE q == ch[s]
           m == q[i]
<1>1. /\ Typed(c) /\ c.node \in Seq(ItemSet) /\ q \in Seq(1 .. Len(c.node)) /\ m \in 1 .. Len(c.node)
  BY DEF Laid, Linked, Typed
<1>7. \A n \in 1 .. Len(c.node) :
         /\ d.node[n].key = c.node[n].key /\ d.node[n].prev = c.node[n].prev
         /\ d.node[n].next = c.node[n].next /\ d.node[n].head = c.node[n].head
         /\ d.node[n].val = IF n = m THEN v ELSE c.node[n].val
  BY DEF Rewritten
<1>8. d.first = c.first /\ d.sections = c.sections /\ Typed(d) /\ Len(d.node) = Len(c.node)
  BY DEF Rewritten
<1> HIDE DEF m
<1>9. Laid(d, ch)
  <2>1. Conf!Known(c) \subseteq Conf!Known(d)
    BY <1>8 DEF Conf!Known
  <2>2. QED
    BY <1>7, <1>8, <2>1, SameLinks
<1>10. ASSUME NEW t \in ConfSections
       PROVE  Conf!Entries(d, t) = IF t = s THEN [Conf!Entries(c, s) EXCEPT ![i] = [key |-> k, value |-> v]]
                                   ELSE Conf!Entries(c, t)
  <2> DEFINE p == ch[t]
             E == Conf!Entries(c, t)
             e == [key |-> k, value |-> v]
             A == IF t = s THEN [E EXCEPT ![i] = e] ELSE E
  <2>1. /\ E \in Seq(EntrySet) /\ Len(E) = Len(p)
        /\ \A n \in 1 .. Len(p) : E[n] = [key |-> c.node[p[n]].key, value |-> c.node[p[n]].val]
    BY EntriesAre
  <2>2. p \in Seq(1 .. Len(c.node)) /\ \A n \in 1 .. Len(p) : p[n] \in 1 .. Len(c.node)
    BY DEF Laid
  <2>3. e \in EntrySet /\ e.key = k /\ e.value = v
    BY DEF EntrySet
  <2> HIDE DEF E, e
  <2>4. /\ A \in Seq(EntrySet) /\ Len(A) = Len(p)
        /\ \A n \in 1 .. Len(p) : A[n] = IF t = s /\ n = i THEN e ELSE E[n]
    <3>1. CASE t = s
      BY <2>1, <2>3, <3>1, ExceptSeq
    <3>2. CASE t # s
      BY <2>1, <3>2
    <3>3. QED
      BY <3>1, <3>2
  <2> HIDE DEF A
  <2>5. ASSUME NEW n \in 1 .. Len(p) PROVE A[n].key = d.node[p[n]].key /\ A[n].value = d.node[p[n]].val
    <3>1. p[n] \in 1 .. Len(c.node)
      BY <2>2
    <3>2. /\ d.node[p[n]].key = c.node[p[n]].key
          /\ d.node[p[n]].val = IF p[n] = m THEN v ELSE c.node[p[n]].val
      BY <1>7, <3>1
    <3>3. p[n] = m <=> t = s /\ n = i
      <4>1. \A a, b \in ConfSections : \A x \in 1 .. Len(ch[a]), y \in 1 .. Len(ch[b]) : ch[a][x] = ch[b][y] => a = b
        BY DEF Laid
      <4>2. \A x, y \in 1 .. Len(q) : q[x] = q[y] => x = y
        <5>1. Linked(c, s, q)
          BY DEF Laid
        <5>2. QED
          BY <5>1 DEF Linked
      <4>3. QED
        BY <4>1, <4>2 DEF m
    <3>4. E[n] = [key |-> c.node[p[n]].key, value |-> c.node[p[n]].val]
      BY <2>1
    <3>5. CASE t = s /\ n = i
      <4>1. A[n] = e /\ p[n] = m /\ c.node[m].key = k
        BY <3>5, <2>4, <3>3 DEF m
      <4>2. QED
        BY <4>1, <3>2, <2>3
    <3>6. CASE ~(t = s /\ n = i)
      <4>1. A[n] = E[n] /\ p[n] # m
        BY <3>6, <2>4, <3>3
      <4>2. QED
        <5>1. A[n] = [key |-> c.node[p[n]].key, value |-> c.node[p[n]].val]
          BY <4>1, <3>4
        <5>2. d.node[p[n]].key = c.node[p[n]].key /\ d.node[p[n]].val = c.node[p[n]].val
          BY <4>1, <3>2
        <5>3. QED
          BY <5>1, <5>2
    <3>7. QED
      BY <3>5, <3>6
  <2>6. Conf!Entries(d, t) = A
    <3>1. A \in Seq(EntrySet) /\ Len(A) = Len(ch[t])
      BY <2>4
    <3>2. \A n \in 1 .. Len(ch[t]) : A[n].key = d.node[ch[t][n]].key /\ A[n].value = d.node[ch[t][n]].val
      BY <2>5
    <3>3. QED
      BY <1>9, <3>1, <3>2, EntriesAs
  <2>7. QED
    BY <2>6 DEF A, E, e
<1>11. QED
  BY <1>9, <1>10

\* What a write does to a section is what the map promises of it.
LEMMA UpdatedNew ==
  ASSUME NEW E \in Seq(EntrySet), NEW k \in ConfKeys, NEW v \in ConfValues,
         \A i \in 1 .. Len(E) : E[i].key # k
  PROVE  Conf!Map!Updated(E, k, v) = Append(E, [key |-> k, value |-> v])
<1>1. Conf!Map!KeysOf(E) = {E[i].key : i \in 1 .. Len(E)}
  BY DEF Conf!Map!KeysOf
<1>2. QED
  BY <1>1 DEF Conf!Map!Updated

LEMMA UpdatedOld ==
  ASSUME NEW E \in Seq(EntrySet), NEW k \in ConfKeys, NEW v \in ConfValues,
         \A i, j \in 1 .. Len(E) : E[i].key = E[j].key => i = j,
         NEW n \in 1 .. Len(E), E[n].key = k
  PROVE  Conf!Map!Updated(E, k, v) = [E EXCEPT ![n] = [key |-> k, value |-> v]]
<1>1. DOMAIN E = 1 .. Len(E) /\ Conf!Map!KeysOf(E) = {E[i].key : i \in 1 .. Len(E)}
  BY DEF Conf!Map!KeysOf
<1>2. Conf!Map!Updated(E, k, v) =
        [j \in 1 .. Len(E) |-> IF E[j].key = k THEN [key |-> k, value |-> v] ELSE E[j]]
  BY <1>1 DEF Conf!Map!Updated
<1>3. \A j \in 1 .. Len(E) : E[j].key = k <=> j = n
  OBVIOUS
<1>4. [E EXCEPT ![n] = [key |-> k, value |-> v]] =
        [j \in 1 .. Len(E) |-> IF j = n THEN [key |-> k, value |-> v] ELSE E[j]]
  BY <1>1
<1>5. QED
  BY <1>2, <1>3, <1>4

LEMMA WriteKeeps ==
  ASSUME NEW c, NEW ch, Laid(c, ch), NEW s \in ConfSections, s \in Conf!Known(c),
         NEW k \in ConfKeys, NEW v \in ConfValues,
         NEW d, d = Conf!g15daemon_cfg_write_string(c, s, k, v)
  PROVE  /\ \E dh : Laid(d, dh)
         /\ d.sections = c.sections
         /\ \A t \in ConfSections :
              Conf!Entries(d, t) = IF t = s THEN Conf!Map!Updated(Conf!Entries(c, s), k, v)
                                   ELSE Conf!Entries(c, t)
<1> DEFINE E == Conf!Entries(c, s)
           i == Conf!uf_search_confitem(c, s, k)
<1>1. /\ E \in Seq(EntrySet) /\ Len(E) = Len(ch[s])
      /\ \A n \in 1 .. Len(E) : E[n].key = c.node[ch[s][n]].key
      /\ \A n, m \in 1 .. Len(E) : E[n].key = E[m].key => n = m
  <2>1. /\ E \in Seq(EntrySet) /\ Len(E) = Len(ch[s])
        /\ \A n \in 1 .. Len(ch[s]) : E[n] = [key |-> c.node[ch[s][n]].key, value |-> c.node[ch[s][n]].val]
        /\ \A n, m \in 1 .. Len(ch[s]) : E[n].key = E[m].key => n = m
    <3> HIDE DEF E, i
    <3>1. Conf!Entries(c, s) \in Seq(EntrySet) /\ Len(Conf!Entries(c, s)) = Len(ch[s])
      BY EntriesAre
    <3>2. \A n \in 1 .. Len(ch[s]) :
            Conf!Entries(c, s)[n] = [key |-> c.node[ch[s][n]].key, value |-> c.node[ch[s][n]].val]
      BY EntriesAre
    <3>3. \A n, m \in 1 .. Len(ch[s]) : Conf!Entries(c, s)[n].key = Conf!Entries(c, s)[m].key => n = m
      BY EntriesAre
    <3>4. QED
      BY <3>1, <3>2, <3>3 DEF E
  <2> HIDE DEF E
  <2>2. ASSUME NEW n \in 1 .. Len(E) PROVE E[n].key = c.node[ch[s][n]].key
    <3>1. E[n] = [key |-> c.node[ch[s][n]].key, value |-> c.node[ch[s][n]].val]
      BY <2>1
    <3>2. QED
      BY <3>1
  <2>3. QED
    BY <2>1, <2>2
<1>2. d = IF i # 0 THEN [c EXCEPT !.node[i].val = v] ELSE Conf!AppendItem(c, s, k, v)
  BY DEF Conf!g15daemon_cfg_write_string, Conf!NULL
<1> HIDE DEF E, i
<1>3. CASE i = 0 /\ \A n \in 1 .. Len(ch[s]) : c.node[ch[s][n]].key # k
  <2>1. \A n \in 1 .. Len(E) : E[n].key # k
    BY <1>1, <1>3
  <2>2. Conf!Map!Updated(E, k, v) = Append(E, [key |-> k, value |-> v])
    BY <1>1, <2>1, UpdatedNew
  <2>3. d = Conf!AppendItem(c, s, k, v)
    BY <1>2, <1>3
  <2> DEFINE dh == [ch EXCEPT ![s] = Append(ch[s], Len(c.node) + 1)]
  <2>4. /\ Laid(d, dh) /\ d.sections = c.sections
        /\ \A t \in ConfSections :
              Conf!Entries(d, t) = IF t = s THEN Append(Conf!Entries(c, s), [key |-> k, value |-> v])
                                   ELSE Conf!Entries(c, t)
    <3> DEFINE b == Conf!AppendItem(c, s, k, v)
    <3>1. /\ Laid(b, dh) /\ b.sections = c.sections
          /\ \A t \in ConfSections :
                Conf!Entries(b, t) = IF t = s THEN Append(Conf!Entries(c, s), [key |-> k, value |-> v])
                                     ELSE Conf!Entries(c, t)
      BY <1>3, AppendLaid
    <3>2. d = b
      BY <2>3
    <3> HIDE DEF b, dh
    <3>3. QED
      BY <3>1, <3>2
  <2> HIDE DEF dh
  <2>5. QED
    BY <2>2, <2>4 DEF E
<1>4. ASSUME NEW n \in 1 .. Len(ch[s]), i = ch[s][n], ch[s][n] \in 1 .. Len(c.node), c.node[ch[s][n]].key = k
      PROVE  /\ Laid(d, ch) /\ d.sections = c.sections
             /\ \A t \in ConfSections :
                  Conf!Entries(d, t) = IF t = s THEN Conf!Map!Updated(E, k, v) ELSE Conf!Entries(c, t)
  <2>1. n \in 1 .. Len(E) /\ E[n].key = k
    BY <1>1, <1>4
  <2>2. Conf!Map!Updated(E, k, v) = [E EXCEPT ![n] = [key |-> k, value |-> v]]
    <3>1. E \in Seq(EntrySet) /\ \A x, y \in 1 .. Len(E) : E[x].key = E[y].key => x = y
      BY <1>1
    <3>2. QED
      BY <2>1, <3>1, UpdatedOld
  <2> DEFINE m == ch[s][n]
  <2>3. d = [c EXCEPT !.node[m].val = v]
    <3>1. i # 0 /\ i = m
      BY <1>4
    <3>2. QED
      BY <1>2, <3>1
  <2>4. m \in 1 .. Len(c.node) /\ Typed(c)
    BY <1>4 DEF Laid
  <2>5. Rewritten(c, d, m, v)
    <3>1. Rewritten(c, [c EXCEPT !.node[m].val = v], m, v)
      <4> HIDE DEF m
      <4>1. QED
        BY <2>4, NodeRewritten
    <3> HIDE DEF m
    <3>2. QED
      BY <2>3, <3>1
  <2>6. /\ Laid(d, ch)
        /\ \A t \in ConfSections :
              Conf!Entries(d, t) = IF t = s THEN [E EXCEPT ![n] = [key |-> k, value |-> v]]
                                   ELSE Conf!Entries(c, t)
    BY <1>4, <2>5, Overwritten DEF E
  <2>7. d.sections = c.sections
    BY <2>5 DEF Rewritten
  <2>8. QED
    BY <2>2, <2>6, <2>7
<1>5. QED
  <2>1. \/ i = 0 /\ \A n \in 1 .. Len(ch[s]) : c.node[ch[s][n]].key # k
        \/ \E n \in 1 .. Len(ch[s]) : i = ch[s][n] /\ ch[s][n] \in 1 .. Len(c.node) /\ c.node[ch[s][n]].key = k
    BY SearchIs DEF i
  <2>2. QED
    BY <2>1, <1>3, <1>4 DEF E

\* The last item of a chain, when it is not the first one: it is taken from the chain.
Shortened(c, d, f, p) ==
  /\ Typed(d) /\ d.sections = c.sections /\ d.first = c.first /\ Len(d.node) = Len(c.node)
  /\ \A n \in 1 .. Len(c.node) :
       /\ d.node[n].key = c.node[n].key /\ d.node[n].val = c.node[n].val
       /\ d.node[n].prev = c.node[n].prev
       /\ d.node[n].next = IF n = p THEN 0 ELSE c.node[n].next
       /\ d.node[n].head = IF n = f \/ n = p THEN p ELSE c.node[n].head

LEMMA NodesShortened ==
  ASSUME NEW c, Typed(c), NEW s \in ConfSections, NEW k \in ConfKeys,
         NEW i \in 1 .. Len(c.node), Conf!uf_search_confitem(c, s, k) = i,
         c.node[i].next = 0, c.node[i].prev \in 1 .. Len(c.node), c.node[i].head = i,
         c.first[s] \in 1 .. Len(c.node)
  PROVE  Shortened(c, Conf!g15daemon_cfg_remove_key(c, s, k), c.first[s], c.node[i].prev)
<1> DEFINE N == Len(c.node)
           p == c.node[i].prev
           f == c.first[s]
           A == [c.node EXCEPT ![p].next = 0]
           B == [A EXCEPT ![p].head = p]
           C == [B EXCEPT ![f].head = p]
           d == Conf!g15daemon_cfg_remove_key(c, s, k)
<1>1. /\ c.node \in Seq(ItemSet) /\ c.sections \in Seq(ConfSections) /\ N \in Nat
      /\ c.first \in [ConfSections \cup {Conf!Title} -> Nat]
      /\ \A m, j \in 1 .. Len(c.sections) : c.sections[m] = c.sections[j] => m = j
      /\ c = [sections |-> c.sections, first |-> c.first, node |-> c.node]
  BY DEF Typed
<1>2. p \in 1 .. N /\ f \in 1 .. N /\ p # 0 /\ p \in Nat
  BY <1>1
<1>3. d = [c EXCEPT !.node = C]
  <2> DEFINE un == [c EXCEPT !.node[p].next = 0]
  <2>1. d = [[un EXCEPT !.node[p].head = p] EXCEPT !.node[un.first[s]].head = p]
    BY <1>2 DEF Conf!g15daemon_cfg_remove_key, Conf!NULL
  <2>2. un = [c EXCEPT !.node = A]
    BY <1>1, <1>2
  <2> HIDE DEF un, A, d, p
  <2>3. un = [sections |-> c.sections, first |-> c.first, node |-> A]
    BY <1>1, <2>2
  <2>4. un.first[s] = f
    BY <2>3
  <2> HIDE DEF f
  <2>5. d = [[un EXCEPT !.node[p].head = p] EXCEPT !.node[f].head = p]
    BY <2>1, <2>4
  <2>6. [un EXCEPT !.node[p].head = p] = [sections |-> c.sections, first |-> c.first, node |-> B]
    BY <2>3
  <2> HIDE DEF B
  <2>7. d = [sections |-> c.sections, first |-> c.first, node |-> C]
    BY <2>5, <2>6
  <2> HIDE DEF C
  <2>8. QED
    BY <1>1, <2>7
<1>4. d = [sections |-> c.sections, first |-> c.first, node |-> C]
  <2> HIDE DEF C, d
  <2>1. QED
    BY <1>1, <1>3
<1> HIDE DEF d, p, f, N
<1>5. \A n \in 1 .. N : c.node[n] \in ItemSet
  BY <1>1 DEF N
<1>6. /\ A \in Seq(ItemSet) /\ Len(A) = N
      /\ \A n \in 1 .. N : A[n] = IF n = p THEN [c.node[n] EXCEPT !.next = 0] ELSE c.node[n]
  <2> DEFINE it == [c.node[p] EXCEPT !.next = 0]
  <2>1. c.node[p] \in ItemSet /\ 0 \in Nat
    BY <1>2, <1>5
  <2>2. it \in ItemSet
    BY <2>1, ItemChanged
  <2>3. A = [c.node EXCEPT ![p] = it]
    BY <1>1, <1>2
  <2> HIDE DEF it, A
  <2>4. A \in Seq(ItemSet) /\ Len(A) = N /\ \A n \in 1 .. N : A[n] = IF n = p THEN it ELSE c.node[n]
    BY <1>1, <1>2, <2>2, <2>3, ExceptSeq DEF N
  <2>5. QED
    BY <2>4 DEF it
<1> HIDE DEF A
<1>7. /\ B \in Seq(ItemSet) /\ Len(B) = N
      /\ \A n \in 1 .. N : B[n] = IF n = p THEN [A[n] EXCEPT !.head = p] ELSE A[n]
  <2> DEFINE it == [A[p] EXCEPT !.head = p]
  <2>1. A[p] \in ItemSet
    BY <1>2, <1>6
  <2>2. it \in ItemSet
    BY <1>2, <2>1, ItemChanged
  <2>3. B = [A EXCEPT ![p] = it]
    BY <1>2, <1>6
  <2> HIDE DEF it, B
  <2>4. B \in Seq(ItemSet) /\ Len(B) = N /\ \A n \in 1 .. N : B[n] = IF n = p THEN it ELSE A[n]
    BY <1>2, <1>6, <2>2, <2>3, ExceptSeq
  <2>5. QED
    BY <2>4 DEF it
<1> HIDE DEF B
<1>8. /\ C \in Seq(ItemSet) /\ Len(C) = N
      /\ \A n \in 1 .. N : C[n] = IF n = f THEN [B[n] EXCEPT !.head = p] ELSE B[n]
  <2> DEFINE it == [B[f] EXCEPT !.head = p]
  <2>1. B[f] \in ItemSet
    BY <1>2, <1>7
  <2>2. it \in ItemSet
    BY <1>2, <2>1, ItemChanged
  <2>3. C = [B EXCEPT ![f] = it]
    BY <1>2, <1>7
  <2> HIDE DEF it, C
  <2>4. C \in Seq(ItemSet) /\ Len(C) = N /\ \A n \in 1 .. N : C[n] = IF n = f THEN it ELSE B[n]
    BY <1>2, <1>7, <2>2, <2>3, ExceptSeq
  <2>5. QED
    BY <2>4 DEF it
<1> HIDE DEF C
<1>9. Typed(d)
  BY <1>1, <1>4, <1>8 DEF Typed
<1>10. ASSUME NEW n \in 1 .. N
       PROVE  /\ C[n].key = c.node[n].key /\ C[n].val = c.node[n].val
              /\ C[n].prev = c.node[n].prev
              /\ C[n].next = IF n = p THEN 0 ELSE c.node[n].next
              /\ C[n].head = IF n = f \/ n = p THEN p ELSE c.node[n].head
  <2>1. c.node[n] \in ItemSet
    BY <1>5
  <2>2. A[n] = IF n = p THEN [c.node[n] EXCEPT !.next = 0] ELSE c.node[n]
    BY <1>6
  <2>3. B[n] = IF n = p THEN [A[n] EXCEPT !.head = p] ELSE A[n]
    BY <1>7
  <2>4. C[n] = IF n = f THEN [B[n] EXCEPT !.head = p] ELSE B[n]
    BY <1>8
  <2>5. QED
    BY <2>1, <2>2, <2>3, <2>4 DEF ItemSet
<1>11. d.sections = c.sections /\ d.first = c.first /\ d.node = C
  BY <1>4
<1>12. Shortened(c, d, f, p)
  BY <1>8, <1>9, <1>10, <1>11 DEF Shortened, N
<1>13. QED
  BY <1>12 DEF d, f, p

LEMMA LastRemoved ==
  ASSUME NEW S, NEW E \in Seq(S), Len(E) > 0
  PROVE  Conf!Map!RemoveAt(E, Len(E)) = SubSeq(E, 1, Len(E) - 1)
<1> DEFINE L == Len(E)
           F == SubSeq(E, 1, L - 1)
           G == SubSeq(E, L + 1, L)
<1>1. L \in Nat /\ L > 0
  OBVIOUS
<1>2. F \in Seq(S)
  BY <1>1
<1>3. G = <<>>
  BY <1>1
<1>4. Conf!Map!RemoveAt(E, L) = F \o G
  BY DEF Conf!Map!RemoveAt
<1> HIDE DEF F, G, L
<1>5. F \o <<>> = F
  BY <1>2, ConcatEmptySeq
<1>6. QED
  BY <1>3, <1>4, <1>5 DEF F, L

LEMMA ShortenedLaid ==
  ASSUME NEW c, NEW ch, Laid(c, ch), NEW s \in ConfSections, Len(ch[s]) >= 2,
         NEW d, Shortened(c, d, ch[s][1], ch[s][Len(ch[s]) - 1])
  PROVE  /\ \E dh : Laid(d, dh)
         /\ \A t \in ConfSections :
              Conf!Entries(d, t) = IF t = s THEN SubSeq(Conf!Entries(c, s), 1, Len(Conf!Entries(c, s)) - 1)
                                   ELSE Conf!Entries(c, t)
<1> DEFINE N == Len(c.node)
           q == ch[s]
           L == Len(q)
           f == q[1]
           p == q[L - 1]
           r == SubSeq(q, 1, L - 1)
           dh == [ch EXCEPT ![s] = r]
<1>1. /\ Typed(c) /\ Linked(c, s, q) /\ N \in Nat /\ L \in Nat /\ L >= 2
      /\ q \in Seq(1 .. N) /\ \A i \in 1 .. L : q[i] \in 1 .. N
  BY SectionLaid
<1>2. /\ Typed(d) /\ d.sections = c.sections /\ d.first = c.first /\ Len(d.node) = N
      /\ \A n \in 1 .. N :
           /\ d.node[n].key = c.node[n].key /\ d.node[n].val = c.node[n].val
           /\ d.node[n].prev = c.node[n].prev
           /\ d.node[n].next = IF n = p THEN 0 ELSE c.node[n].next
           /\ d.node[n].head = IF n = f \/ n = p THEN p ELSE c.node[n].head
  BY DEF Shortened
<1>3. \A i, j \in 1 .. L : q[i] = q[j] => i = j
  BY <1>1 DEF Linked
<1>4. r \in Seq(1 .. N) /\ Len(r) = L - 1 /\ \A i \in 1 .. L - 1 : r[i] = q[i]
  <2> HIDE DEF q, N
  <2>1. L - 1 \in 1 .. L /\ 1 \in 1 .. L
    BY <1>1
  <2>2. QED
    BY <1>1, <2>1
<1> HIDE DEF r
<1>5. L - 1 \in 1 .. L /\ L \in 1 .. L /\ 1 \in 1 .. L /\ 1 \in 1 .. L - 1 /\ L - 1 \in 1 .. L - 1
      /\ L - 1 # 0 /\ \A i \in 1 .. L - 1 : i \in 1 .. L
  BY <1>1
<1>6. Linked(d, s, r)
  <2>1. Conf!Spells(d, s, r)
    <3>1. r # <<>>
      <4>1. Len(<<>>) = 0
        OBVIOUS
      <4> SUFFICES ASSUME r = <<>> PROVE FALSE
        OBVIOUS
      <4>2. Len(r) = 0
        BY <4>1, Zenon
      <4>3. QED
        BY <4>2, <1>4, <1>5
    <3>2. q # <<>>
      BY <1>1
    <3>3. d.first[s] = q[1] /\ c.first[s] # 0
      BY <1>1, <1>2, <3>2 DEF Linked, Conf!Spells, Conf!NULL
    <3>4. r[1] = d.first[s] /\ d.first[s] # 0
      BY <1>2, <1>4, <1>5, <3>3
    <3>5. d.node[r[Len(r)]].next = 0
      <4>1. r[Len(r)] = p /\ p \in 1 .. N
        BY <1>1, <1>4, <1>5
      <4> HIDE DEF p, N
      <4>2. QED
        BY <4>1, <1>2
    <3>6. ASSUME NEW i \in 1 .. Len(r) - 1 PROVE d.node[r[i]].next = r[i + 1]
      <4>1. i \in 1 .. L - 1 /\ i + 1 \in 1 .. L - 1 /\ i # L - 1 /\ i \in 1 .. L
        <5>1. i \in 1 .. (L - 1) - 1
          BY <1>4
        <5>2. L \in Nat
          BY <1>1
        <5> HIDE DEF L
        <5>3. QED
          BY <5>1, <5>2
      <4>2. c.node[q[i]].next = q[i + 1]
        BY <1>1, <4>1 DEF Linked, Conf!Spells
      <4>3. q[i] \in 1 .. N /\ q[i] # p
        BY <1>1, <1>3, <1>5, <4>1
      <4>4. d.node[q[i]].next = q[i + 1]
        BY <1>2, <4>2, <4>3
      <4>5. QED
        BY <1>4, <4>1, <4>4
    <3>7. QED
      BY <3>1, <3>4, <3>5, <3>6 DEF Conf!Spells, Conf!NULL
  <2>2. ASSUME NEW i \in 1 .. L - 1, NEW j \in 1 .. L - 1, d.node[r[i]].key = d.node[r[j]].key
        PROVE  i = j
    <3>1. d.node[q[i]].key = c.node[q[i]].key /\ d.node[q[j]].key = c.node[q[j]].key
      BY <1>1, <1>2, <1>5
    <3>2. r[i] = q[i] /\ r[j] = q[j] /\ i \in 1 .. L /\ j \in 1 .. L
      BY <1>4, <1>5
    <3>3. c.node[q[i]].key = c.node[q[j]].key
      BY <2>2, <3>1, <3>2
    <3>4. QED
      BY <1>1, <3>2, <3>3 DEF Linked
  <2>3. ASSUME NEW i \in 1 .. L - 1
        PROVE  /\ d.node[r[i]].prev = IF i = 1 THEN 0 ELSE r[i - 1]
               /\ d.node[r[i]].head = IF i = 1 THEN r[L - 1] ELSE r[i]
    <3>1. i \in 1 .. L /\ r[i] = q[i] /\ q[i] \in 1 .. N
      BY <1>1, <1>4, <1>5
    <3>2. /\ c.node[q[i]].prev = IF i = 1 THEN 0 ELSE q[i - 1]
          /\ c.node[q[i]].head = IF i = 1 THEN q[L] ELSE q[i]
      BY <1>1, <3>1 DEF Linked
    <3>3. i # 1 => r[i - 1] = q[i - 1]
      <4>1. i # 1 => i - 1 \in 1 .. L - 1
        BY <1>1
      <4>2. QED
        BY <4>1, <1>4
    <3>4. (q[i] = f <=> i = 1) /\ (q[i] = p <=> i = L - 1)
      BY <1>3, <1>5, <3>1
    <3>5. r[L - 1] = p
      BY <1>4, <1>5
    <3>6. /\ d.node[q[i]].prev = c.node[q[i]].prev
          /\ d.node[q[i]].head = IF q[i] = f \/ q[i] = p THEN p ELSE c.node[q[i]].head
      BY <1>2, <3>1
    <3>7. q[i] = p => r[i] = p
      BY <3>1
    <3> HIDE DEF q, L, N, p, f
    <3>8. d.node[r[i]].prev = IF i = 1 THEN 0 ELSE r[i - 1]
      BY <3>1, <3>2, <3>3, <3>6
    <3>9. d.node[r[i]].head = IF i = 1 THEN r[L - 1] ELSE r[i]
      BY <3>1, <3>2, <3>4, <3>5, <3>6, <3>7
    <3>10. QED
      BY <3>8, <3>9
  <2>4. r \in Seq(1 .. Len(d.node)) /\ Len(r) = L - 1
    BY <1>2, <1>4
  <2>5. /\ \A i, j \in 1 .. Len(r) : d.node[r[i]].key = d.node[r[j]].key => i = j
        /\ \A i \in 1 .. Len(r) :
             /\ d.node[r[i]].prev = IF i = 1 THEN 0 ELSE r[i - 1]
             /\ d.node[r[i]].head = IF i = 1 THEN r[Len(r)] ELSE r[i]
    BY <2>2, <2>3, <2>4
  <2>6. QED
    BY <2>1, <2>4, <2>5 DEF Linked
<1>7. ASSUME NEW t \in ConfSections, t # s PROVE Linked(d, t, ch[t])
  <2> DEFINE w == ch[t]
  <2>1. w \in Seq(1 .. N) /\ Len(w) \in Nat /\ (\A i \in 1 .. Len(w) : w[i] \in 1 .. N) /\ Linked(c, t, w)
    BY SectionLaid
  <2>2. \A i \in 1 .. Len(w) : w[i] # f /\ w[i] # p
    <3>1. \A i \in 1 .. Len(w), j \in 1 .. L : w[i] # q[j]
      BY <1>7 DEF Laid
    <3>2. QED
      BY <3>1, <1>5
  <2> HIDE DEF w
  <2>3. \A i \in 1 .. Len(w) : /\ d.node[w[i]].key = c.node[w[i]].key /\ d.node[w[i]].prev = c.node[w[i]].prev
                               /\ d.node[w[i]].next = c.node[w[i]].next /\ d.node[w[i]].head = c.node[w[i]].head
    <3> HIDE DEF p, f, N
    <3>1. QED
      BY <2>1, <2>2, <1>2
  <2>4. Conf!Spells(d, t, w)
    <3>1. w # <<>> => Len(w) \in 1 .. Len(w)
      BY <2>1, EmptySeq
    <3>2. \A i \in 1 .. Len(w) - 1 : i \in 1 .. Len(w)
      BY <2>1
    <3>3. Conf!Spells(c, t, w) /\ d.first[t] = c.first[t]
      BY <1>2, <2>1 DEF Linked
    <3>4. QED
      BY <2>3, <3>1, <3>2, <3>3 DEF Conf!Spells
  <2>5. \A i, j \in 1 .. Len(w) : d.node[w[i]].key = d.node[w[j]].key => i = j
    BY <2>1, <2>3 DEF Linked
  <2>6. \A i \in 1 .. Len(w) : /\ d.node[w[i]].prev = IF i = 1 THEN 0 ELSE w[i - 1]
                               /\ d.node[w[i]].head = IF i = 1 THEN w[Len(w)] ELSE w[i]
    BY <2>1, <2>3 DEF Linked
  <2>7. Linked(d, t, w)
    BY <1>2, <2>1, <2>4, <2>5, <2>6 DEF Linked
  <2>8. QED
    BY <2>7 DEF w
<1>8. dh[s] = r /\ \A t \in ConfSections : t # s => dh[t] = ch[t]
  BY DEF Laid
<1>9. dh \in [ConfSections -> Seq(1 .. Len(d.node))]
  BY <1>2, <1>4 DEF Laid
<1> HIDE DEF dh
<1>10. ASSUME NEW t \in ConfSections, NEW u \in ConfSections,
              NEW i \in 1 .. Len(dh[t]), NEW j \in 1 .. Len(dh[u]), dh[t][i] = dh[u][j]
       PROVE  t = u
  <2>1. ASSUME NEW w \in ConfSections, NEW n \in 1 .. Len(dh[w])
        PROVE  n \in 1 .. Len(ch[w]) /\ dh[w][n] = ch[w][n]
    <3>1. CASE w # s
      BY <3>1, <1>8
    <3>2. CASE w = s
      <4>1. dh[w] = r /\ ch[w] = q
        BY <3>2, <1>8
      <4>2. n \in 1 .. L - 1
        BY <4>1, <1>4
      <4>3. n \in 1 .. L
        BY <4>2, <1>5
      <4>4. QED
        BY <4>1, <4>2, <4>3, <1>4
    <3>3. QED
      BY <3>1, <3>2
  <2>2. \A w, x \in ConfSections : \A n \in 1 .. Len(ch[w]), m \in 1 .. Len(ch[x]) :
           ch[w][n] = ch[x][m] => w = x
    BY DEF Laid
  <2>3. i \in 1 .. Len(ch[t]) /\ dh[t][i] = ch[t][i] /\ j \in 1 .. Len(ch[u]) /\ dh[u][j] = ch[u][j]
    BY <2>1
  <2>4. QED
    BY <2>2, <2>3, <1>10
<1>11. Laid(d, dh)
  <2>1. Conf!Known(d) = Conf!Known(c)
    BY <1>2 DEF Conf!Known
  <2>2. ASSUME NEW t \in ConfSections PROVE Linked(d, t, dh[t]) /\ (t \notin Conf!Known(d) => dh[t] = <<>>)
    <3>1. CASE t = s
      <4>1. ch[s] # <<>>
        BY <1>1
      <4>2. s \in Conf!Known(c)
        BY <4>1 DEF Laid
      <4>3. QED
        BY <3>1, <4>2, <1>6, <1>8, <2>1
    <3>2. CASE t # s
      BY <3>2, <1>7, <1>8, <2>1 DEF Laid
    <3>3. QED
      BY <3>1, <3>2
  <2>3. QED
    BY <1>2, <1>9, <1>10, <2>2 DEF Laid
<1>12. ASSUME NEW t \in ConfSections
       PROVE  Conf!Entries(d, t) = IF t = s THEN SubSeq(Conf!Entries(c, s), 1, Len(Conf!Entries(c, s)) - 1)
                                   ELSE Conf!Entries(c, t)
  <2> DEFINE E == Conf!Entries(c, t)
             A == IF t = s THEN SubSeq(E, 1, Len(E) - 1) ELSE E
  <2>1. /\ E \in Seq(EntrySet) /\ Len(E) = Len(ch[t])
        /\ \A n \in 1 .. Len(ch[t]) : E[n] = [key |-> c.node[ch[t][n]].key, value |-> c.node[ch[t][n]].val]
    BY EntriesAre
  <2>2. ch[t] \in Seq(1 .. N) /\ \A n \in 1 .. Len(ch[t]) : ch[t][n] \in 1 .. N
    BY SectionLaid
  <2> HIDE DEF E
  <2>3. /\ A \in Seq(EntrySet) /\ Len(A) = Len(dh[t])
        /\ \A n \in 1 .. Len(dh[t]) : A[n] = E[n] /\ dh[t][n] = ch[t][n] /\ n \in 1 .. Len(ch[t])
    <3>1. CASE t = s
      <4>1. dh[t] = r /\ ch[t] = q /\ Len(E) = L
        BY <3>1, <1>8, <2>1
      <4>2. L - 1 \in 1 .. L /\ 1 \in 1 .. L
        BY <1>5
      <4> HIDE DEF q
      <4>3. A = SubSeq(E, 1, L - 1)
        BY <3>1, <4>1
      <4> HIDE DEF A, L
      <4>4. A \in Seq(EntrySet) /\ Len(A) = L - 1 /\ \A n \in 1 .. L - 1 : A[n] = E[n]
        BY <2>1, <4>1, <4>2, <4>3, <1>1
      <4>5. Len(dh[t]) = L - 1 /\ Len(A) = L - 1 /\ Len(ch[t]) = L
        BY <4>1, <4>4, <1>4 DEF L, q
      <4>6. \A n \in 1 .. L - 1 : A[n] = E[n] /\ dh[t][n] = ch[t][n] /\ n \in 1 .. L
        BY <4>1, <4>4, <1>4, <1>5
      <4>7. QED
        BY <4>4, <4>5, <4>6
    <3>2. CASE t # s
      BY <3>2, <2>1, <1>8
    <3>3. QED
      BY <3>1, <3>2
  <2> HIDE DEF A
  <2>4. ASSUME NEW n \in 1 .. Len(dh[t])
        PROVE  A[n].key = d.node[dh[t][n]].key /\ A[n].value = d.node[dh[t][n]].val
    <3>1. A[n] = E[n] /\ dh[t][n] = ch[t][n] /\ n \in 1 .. Len(ch[t])
      BY <2>3
    <3>2. E[n] = [key |-> c.node[ch[t][n]].key, value |-> c.node[ch[t][n]].val]
      BY <2>1, <3>1
    <3>3. d.node[ch[t][n]].key = c.node[ch[t][n]].key /\ d.node[ch[t][n]].val = c.node[ch[t][n]].val
      BY <2>2, <3>1, <1>2
    <3>4. QED
      BY <3>1, <3>2, <3>3
  <2>5. Conf!Entries(d, t) = A
    BY <1>11, <2>3, <2>4, EntriesAs
  <2>6. QED
    BY <2>5 DEF A, E
<1>13. QED
  BY <1>11, <1>12

LEMMA RemoveKeeps ==
  ASSUME NEW c, NEW ch, Laid(c, ch), NEW s \in ConfSections, NEW k \in ConfKeys,
         Conf!uf_search_confitem(c, s, k) # 0,
         c.node[Conf!uf_search_confitem(c, s, k)].next = 0,
         c.node[Conf!uf_search_confitem(c, s, k)].prev # 0
  PROVE  LET d == Conf!g15daemon_cfg_remove_key(c, s, k)
             E == Conf!Entries(c, s)
         IN  /\ \E dh : Laid(d, dh)
             /\ d.sections = c.sections
             /\ E \in Seq(EntrySet) /\ Len(E) > 0 /\ E[Len(E)].key = k
             /\ \A t \in ConfSections :
                  Conf!Entries(d, t) = IF t = s THEN SubSeq(E, 1, Len(E) - 1) ELSE Conf!Entries(c, t)
<1> DEFINE i == Conf!uf_search_confitem(c, s, k)
           q == ch[s]
           L == Len(q)
           N == Len(c.node)
           d == Conf!g15daemon_cfg_remove_key(c, s, k)
           E == Conf!Entries(c, s)
<1>1. PICK n \in 1 .. L : i = q[n] /\ q[n] \in 1 .. N /\ c.node[q[n]].key = k
  BY SearchIs
<1>2. Typed(c) /\ Linked(c, s, q) /\ N \in Nat /\ q \in Seq(1 .. N) /\ L \in Nat
  BY SectionLaid
<1>3. c.node[i].next = 0 /\ c.node[i].prev # 0
  OBVIOUS
<1> HIDE DEF d, i, N
<1>4. n = L
  <2> SUFFICES ASSUME n # L PROVE FALSE
    OBVIOUS
  <2>1. n \in 1 .. L - 1 /\ n + 1 \in 1 .. L
    BY <1>2
  <2>2. c.node[q[n]].next = q[n + 1] /\ q[n + 1] \in 1 .. N
    <3>1. Conf!Spells(c, s, q) /\ q[n + 1] \in 1 .. N
      BY <2>1, SectionLaid DEF N
    <3>2. QED
      BY <2>1, <3>1 DEF Conf!Spells
  <2>3. 0 \notin 1 .. N
    BY <1>2
  <2>4. QED
    BY <1>1, <1>3, <2>2, <2>3
<1>5. /\ c.node[q[n]].prev = IF n = 1 THEN 0 ELSE q[n - 1]
      /\ c.node[q[n]].head = IF n = 1 THEN q[L] ELSE q[n]
  BY <1>2 DEF Linked
<1>6. n # 1 /\ n - 1 \in 1 .. L /\ 1 \in 1 .. L /\ L >= 2
  BY <1>1, <1>2, <1>3, <1>5
<1>7. c.node[i].prev = q[L - 1] /\ q[L - 1] \in 1 .. N /\ c.node[i].head = i
  BY SMTT(30), <1>1, <1>2, <1>4, <1>5, <1>6
<1>8. c.first[s] = q[1] /\ q[1] \in 1 .. N
  <2>1. q # <<>>
    BY <1>6
  <2>2. Conf!Spells(c, s, q) /\ q[1] \in 1 .. N
    BY <1>6, SectionLaid DEF N
  <2>3. QED
    BY <2>1, <2>2 DEF Conf!Spells
<1>9. Shortened(c, d, q[1], q[L - 1])
  <2>1. Shortened(c, d, c.first[s], c.node[i].prev)
    <3>1. i \in 1 .. Len(c.node) /\ c.first[s] \in 1 .. Len(c.node) /\ c.node[i].prev \in 1 .. Len(c.node)
      BY <1>1, <1>7, <1>8 DEF N
    <3>2. Conf!uf_search_confitem(c, s, k) = i
      BY DEF i
    <3>3. QED
      BY <1>2, <1>3, <1>7, <3>1, <3>2, NodesShortened DEF d
  <2>2. QED
    BY <2>1, <1>7, <1>8
<1>10. /\ \E dh : Laid(d, dh)
       /\ \A t \in ConfSections :
            Conf!Entries(d, t) = IF t = s THEN SubSeq(E, 1, Len(E) - 1) ELSE Conf!Entries(c, t)
  <2>1. Len(ch[s]) >= 2 /\ Shortened(c, d, ch[s][1], ch[s][Len(ch[s]) - 1])
    BY <1>6, <1>9
  <2> HIDE DEF q, L
  <2>2. QED
    BY SMTT(30), <2>1, ShortenedLaid
<1>11. E \in Seq(EntrySet) /\ Len(E) = L /\ E[L].key = k
  <2>1. /\ E \in Seq(EntrySet) /\ Len(E) = L
        /\ \A m \in 1 .. L : E[m] = [key |-> c.node[q[m]].key, value |-> c.node[q[m]].val]
    BY EntriesAre
  <2> HIDE DEF E
  <2>2. E[L] = [key |-> c.node[q[L]].key, value |-> c.node[q[L]].val]
    BY <2>1, <1>6, <1>4
  <2>3. QED
    BY <2>1, <2>2, <1>1, <1>4
<1>12. d.sections = c.sections
  BY <1>9 DEF Shortened
<1> HIDE DEF E
<1>13. Len(E) > 0 /\ E[Len(E)].key = k
  BY <1>11, <1>6
<1>14. QED
  BY <1>10, <1>11, <1>12, <1>13 DEF d, E

LEMMA EmptyLaid == Laid(Conf!Empty, [s \in ConfSections |-> <<>>])
<1> DEFINE c == Conf!Empty
           ch == [s \in ConfSections |-> <<>>]
<1>1. /\ c.sections = <<>> /\ c.node = <<>>
      /\ c = [sections |-> <<>>, first |-> [s \in ConfSections \cup {Conf!Title} |-> 0], node |-> <<>>]
  BY DEF Conf!Empty, Conf!NULL
<1>2. Typed(c)
  BY <1>1 DEF Typed
<1>3. \A s \in ConfSections : c.first[s] = 0
  BY <1>1
<1>4. ASSUME NEW s \in ConfSections PROVE Linked(c, s, <<>>)
  <2>1. Conf!Spells(c, s, <<>>)
    BY <1>3 DEF Conf!Spells, Conf!NULL
  <2>2. <<>> \in Seq(1 .. Len(c.node)) /\ Len(<<>>) = 0
    OBVIOUS
  <2>3. QED
    BY <2>1, <2>2 DEF Linked
<1>5. ch \in [ConfSections -> Seq(1 .. Len(c.node))]
  OBVIOUS
<1>6. QED
  BY <1>2, <1>4, <1>5 DEF Laid

\* What is known of a configuration is its content's domain.
LEMMA ContentIs ==
  ASSUME NEW c
  PROVE  /\ DOMAIN Conf!Content(c) = Conf!Known(c)
         /\ \A s \in Conf!Known(c) : Conf!Content(c)[s] = Conf!Entries(c, s)
BY DEF Conf!Content, Conf!Known

LEMMA KnownSections ==
  ASSUME NEW c, Typed(c)
  PROVE  /\ Conf!Known(c) = {c.sections[i] : i \in 1 .. Len(c.sections)}
         /\ Conf!Known(c) \subseteq ConfSections
<1>1. c.sections \in Seq(ConfSections) /\ DOMAIN c.sections = 1 .. Len(c.sections)
  BY DEF Typed
<1>2. \A i \in 1 .. Len(c.sections) : c.sections[i] \in ConfSections
  BY <1>1
<1>3. QED
  BY <1>1, <1>2 DEF Conf!Known, Conf!ToSet

\* A section that is not known yet has no items.
LEMMA UnknownEmpty ==
  ASSUME NEW c, NEW ch, Laid(c, ch), NEW s \in ConfSections, s \notin Conf!Known(c)
  PROVE  Conf!Entries(c, s) = <<>>
<1>1. ch[s] = <<>>
  BY DEF Laid
<1>2. Conf!Entries(c, s) \in Seq(EntrySet) /\ Len(Conf!Entries(c, s)) = Len(ch[s])
  BY EntriesAre
<1>3. Len(ch[s]) = 0
  BY <1>1
<1> DEFINE E == Conf!Entries(c, s)
<1> HIDE DEF E
<1>4. E = <<>>
  <2>1. E \in Seq(EntrySet) /\ Len(E) = 0
    BY <1>2, <1>3 DEF E
  <2>2. QED
    BY <2>1, EmptySeq
<1>5. QED
  BY <1>4 DEF E

\* The file has c's first n sections: st[j] lines come before the j-th.
ItemLine(e) == Conf!Line(FALSE, e.key, Conf!Written(e.key, e.value))
FileOf(c, f, n, st) ==
  /\ f \in Seq(Conf!Lines) /\ n \in 0 .. Len(c.sections)
  /\ st \in [1 .. n + 1 -> Nat] /\ st[1] = 0 /\ st[n + 1] = Len(f)
  /\ \A i, j \in 1 .. n + 1 : i < j => st[i] < st[j]
  /\ \A j \in 1 .. n :
       /\ st[j + 1] = st[j] + 1 + Len(Conf!Entries(c, c.sections[j]))
       /\ f[st[j] + 1] = Conf!Line(TRUE, c.sections[j], Conf!Blank)
       /\ \A m \in 1 .. Len(Conf!Entries(c, c.sections[j])) :
            f[st[j] + 1 + m] = ItemLine(Conf!Entries(c, c.sections[j])[m])

\* What the file makes of a section's items.
Kept(e) == [key |-> e.key, value |-> Cut[Conf!Written(e.key, e.value)]]
Reread(c, s) == [n \in DOMAIN Conf!Entries(c, s) |-> Kept(Conf!Entries(c, s)[n])]

\* Of that file D lines are read: j titles, and m items after the last of them.
HalfRead(c, st, d, D, at, j, m) ==
  /\ j \in 0 .. Len(c.sections) /\ m \in Nat
  /\ Len(d.sections) = j /\ \A i \in 1 .. j : d.sections[i] = c.sections[i]
  /\ j = 0 => D = 0 /\ m = 0 /\ at = Conf!NoSection
  /\ j > 0 => /\ at = c.sections[j] /\ D = st[j] + 1 + m /\ m <= Len(Conf!Entries(c, at))
              /\ Len(Conf!Entries(d, at)) = m
              /\ \A i \in 1 .. m : Conf!Entries(d, at)[i] = Reread(c, at)[i]
  /\ \A i \in 1 .. j - 1 : Conf!Entries(d, c.sections[i]) = Reread(c, c.sections[i])

LEMMA LinesTyped ==
  ASSUME NEW E \in Seq(EntrySet), NEW s \in ConfSections
  PROVE  /\ \A m \in 1 .. Len(E) : ItemLine(E[m]) \in Conf!Lines
         /\ Conf!Line(TRUE, s, Conf!Blank) \in Conf!Lines
<1>1. Conf!Blank \in ConfValues
  BY ConfAssumption DEF Conf!ConfigAssumption
<1>2. ASSUME NEW m \in 1 .. Len(E) PROVE ItemLine(E[m]) \in Conf!Lines
  <2>1. E[m].key \in ConfKeys /\ E[m].value \in ConfValues
    <3>1. E[m] \in EntrySet
      OBVIOUS
    <3>2. QED
      BY <3>1 DEF EntrySet
  <2> DEFINE k == E[m].key
             v == Conf!Written(k, E[m].value)
  <2>2. k \in ConfKeys /\ v \in ConfValues
    BY <1>1, <2>1 DEF Conf!Written
  <2> HIDE DEF k, v
  <2>3. Conf!Line(FALSE, k, v) \in Conf!Lines
    BY <2>2 DEF Conf!Line, Conf!Lines
  <2>4. QED
    BY <2>3 DEF ItemLine, k, v
<1>3. Conf!Line(TRUE, s, Conf!Blank) \in Conf!Lines
  BY DEF Conf!Line, Conf!Lines
<1>4. QED
  BY <1>2, <1>3

LEMMA FileWritten ==
  ASSUME NEW c, NEW ch, Laid(c, ch), NEW f, NEW n \in Nat, NEW st, FileOf(c, f, n, st), n < Len(c.sections)
  PROVE  LET s == c.sections[n + 1]
             e == Conf!Entries(c, s)
             g == Append(f, Conf!Line(TRUE, s, Conf!Blank)) \o [m \in DOMAIN e |-> ItemLine(e[m])]
         IN  \E su : FileOf(c, g, n + 1, su)
<1> DEFINE s == c.sections[n + 1]
           e == Conf!Entries(c, s)
           title == Conf!Line(TRUE, s, Conf!Blank)
           items == [m \in DOMAIN e |-> ItemLine(e[m])]
           h == Append(f, title)
           g == h \o items
           F == Len(f)
           su == [j \in 1 .. n + 2 |-> IF j = n + 2 THEN F + 1 + Len(e) ELSE st[j]]
<1>1. c.sections \in Seq(ConfSections) /\ Len(c.sections) \in Nat
  BY DEF Laid, Typed
<1>2. n + 1 \in 1 .. Len(c.sections) /\ s \in ConfSections
  BY <1>1
<1>3. e \in Seq(EntrySet) /\ Len(e) \in Nat /\ DOMAIN e = 1 .. Len(e)
  BY <1>2, EntriesAre
<1>4. /\ f \in Seq(Conf!Lines) /\ F \in Nat /\ st \in [1 .. n + 1 -> Nat] /\ st[1] = 0 /\ st[n + 1] = F
      /\ \A i, j \in 1 .. n + 1 : i < j => st[i] < st[j]
      /\ \A j \in 1 .. n :
           /\ st[j + 1] = st[j] + 1 + Len(Conf!Entries(c, c.sections[j]))
           /\ f[st[j] + 1] = Conf!Line(TRUE, c.sections[j], Conf!Blank)
           /\ \A m \in 1 .. Len(Conf!Entries(c, c.sections[j])) :
                f[st[j] + 1 + m] = ItemLine(Conf!Entries(c, c.sections[j])[m])
  <2>1. f \in Seq(Conf!Lines) /\ st \in [1 .. n + 1 -> Nat] /\ st[1] = 0 /\ st[n + 1] = F
    BY DEF FileOf
  <2>2. F \in Nat
    BY <2>1
  <2>3. \A i, j \in 1 .. n + 1 : i < j => st[i] < st[j]
    BY DEF FileOf
  <2>4. \A j \in 1 .. n :
           /\ st[j + 1] = st[j] + 1 + Len(Conf!Entries(c, c.sections[j]))
           /\ f[st[j] + 1] = Conf!Line(TRUE, c.sections[j], Conf!Blank)
           /\ \A m \in 1 .. Len(Conf!Entries(c, c.sections[j])) :
                f[st[j] + 1 + m] = ItemLine(Conf!Entries(c, c.sections[j])[m])
    BY Zenon DEF FileOf
  <2>5. QED
    BY <2>1, <2>2, <2>3, <2>4
<1> HIDE DEF e, s
<1>5. title \in Conf!Lines /\ \A m \in 1 .. Len(e) : ItemLine(e[m]) \in Conf!Lines
  BY <1>2, <1>3, LinesTyped
<1> HIDE DEF title
<1>6. items \in Seq(Conf!Lines) /\ Len(items) = Len(e) /\ \A m \in 1 .. Len(e) : items[m] = ItemLine(e[m])
  <2>1. items = [m \in 1 .. Len(e) |-> ItemLine(e[m])]
    BY <1>3
  <2>2. items \in Seq(Conf!Lines)
    BY <1>3, <1>5, <2>1, IsASeq
  <2>3. DOMAIN items = 1 .. Len(e)
    BY <1>3
  <2> HIDE DEF items
  <2>4. Len(items) = Len(e)
    BY <1>3, <2>2, <2>3
  <2>5. QED
    BY <2>1, <2>2, <2>4
<1> HIDE DEF items
<1>7. h \in Seq(Conf!Lines) /\ Len(h) = F + 1 /\ h[F + 1] = title /\ \A i \in 1 .. F : h[i] = f[i]
  BY <1>4, <1>5, AppendProperties
<1> HIDE DEF h, F
<1>8. /\ g \in Seq(Conf!Lines) /\ Len(g) = F + 1 + Len(e)
      /\ \A i \in 1 .. F + 1 : g[i] = h[i]
      /\ \A m \in 1 .. Len(e) : g[F + 1 + m] = items[m]
  <2>1. g \in Seq(Conf!Lines) /\ Len(g) = Len(h) + Len(items)
    <3>1. \A x, y \in Seq(Conf!Lines) : x \o y \in Seq(Conf!Lines) /\ Len(x \o y) = Len(x) + Len(y)
      OBVIOUS
    <3>2. QED
      BY <1>6, <1>7, <3>1
  <2>2. \A i \in 1 .. Len(h) : g[i] = h[i]
    BY <1>6, <1>7
  <2>3. \A m \in 1 .. Len(items) : g[Len(h) + m] = items[m]
    <3> SUFFICES ASSUME NEW m \in 1 .. Len(items) PROVE g[Len(h) + m] = items[m]
      OBVIOUS
    <3>1. Len(h) + m \in 1 .. Len(h) + Len(items) /\ ~(Len(h) + m <= Len(h)) /\ (Len(h) + m) - Len(h) = m
      BY <1>3, <1>4, <1>6, <1>7
    <3>2. QED
      BY <3>1, <1>6, <1>7
  <2>4. QED
    BY <2>1, <2>2, <2>3, <1>6, <1>7
<1> HIDE DEF g
<1>9. /\ su \in [1 .. n + 2 -> Nat] /\ su[n + 2] = Len(g)
      /\ \A j \in 1 .. n + 1 : su[j] = st[j]
  <2>1. \A j \in 1 .. n + 2 : j # n + 2 => j \in 1 .. n + 1
    OBVIOUS
  <2>2. \A j \in 1 .. n + 1 : j # n + 2 /\ j \in 1 .. n + 2
    OBVIOUS
  <2>3. F + 1 + Len(e) \in Nat /\ n + 2 \in 1 .. n + 2
    BY <1>3, <1>4
  <2>4. QED
    BY <1>4, <1>8, <2>1, <2>2, <2>3
<1> HIDE DEF su
<1>10. su[1] = 0 /\ su[n + 1] = F
  BY <1>4, <1>9
<1>11. ASSUME NEW i \in 1 .. n + 2, NEW j \in 1 .. n + 2, i < j PROVE su[i] < su[j]
  <2>1. i \in 1 .. n + 1 /\ su[i] = st[i]
    <3>1. i \in 1 .. n + 1
      BY <1>11
    <3>2. QED
      BY <3>1, <1>9
  <2>2. st[i] <= F
    <3>1. i = n + 1 \/ i < n + 1
      BY <2>1
    <3>2. n + 1 \in 1 .. n + 1 /\ st[i] \in Nat
      BY <1>4, <2>1
    <3>3. QED
      BY <1>4, <2>1, <3>1, <3>2
  <2>3. CASE j = n + 2
    <3>1. st[i] \in Nat /\ su[j] = F + 1 + Len(e)
      BY <1>4, <1>8, <1>9, <2>1, <2>3
    <3>2. QED
      BY <1>3, <1>4, <2>1, <2>2, <3>1
  <2>4. CASE j # n + 2
    <3>1. j \in 1 .. n + 1
      BY <2>4
    <3>2. QED
      BY <3>1, <2>1, <1>4, <1>9, <1>11
  <2>5. QED
    BY <2>3, <2>4
<1>12. ASSUME NEW j \in 1 .. n + 1
       PROVE  /\ su[j + 1] = su[j] + 1 + Len(Conf!Entries(c, c.sections[j]))
              /\ g[su[j] + 1] = Conf!Line(TRUE, c.sections[j], Conf!Blank)
              /\ \A m \in 1 .. Len(Conf!Entries(c, c.sections[j])) :
                   g[su[j] + 1 + m] = ItemLine(Conf!Entries(c, c.sections[j])[m])
  <2>1. CASE j = n + 1
    <3>1. su[j] = F /\ su[j + 1] = F + 1 + Len(e)
      <4>1. j + 1 = n + 2
        BY <2>1
      <4>2. QED
        BY <4>1, <2>1, <1>8, <1>9, <1>10
    <3>2. Conf!Entries(c, c.sections[j]) = e /\ Conf!Line(TRUE, c.sections[j], Conf!Blank) = title
      BY <2>1 DEF e, s, title
    <3>3. g[F + 1] = title
      <4>1. F + 1 \in 1 .. F + 1
        BY <1>4
      <4>2. QED
        BY <4>1, <1>7, <1>8
    <3>4. QED
      BY <3>1, <3>2, <3>3, <1>6, <1>8
  <2>2. CASE j # n + 1
    <3> DEFINE E == Conf!Entries(c, c.sections[j])
    <3>1. j \in 1 .. n /\ j + 1 \in 1 .. n + 1 /\ n + 1 \in 1 .. n + 1
      BY <2>2
    <3>2. su[j] = st[j] /\ su[j + 1] = st[j + 1] /\ st[j] \in Nat /\ st[j + 1] \in Nat
      BY <3>1, <1>4, <1>9
    <3>3. st[j + 1] <= F
      BY <3>1, <3>2, <1>4
    <3>4. Len(E) \in Nat
      <4>1. c.sections[j] \in ConfSections
        BY <3>1, <1>1
      <4>2. E \in Seq(EntrySet)
        BY <4>1, EntriesAre
      <4>3. QED
        BY <4>2
    <3>5. /\ st[j + 1] = st[j] + 1 + Len(E)
          /\ f[st[j] + 1] = Conf!Line(TRUE, c.sections[j], Conf!Blank)
          /\ \A m \in 1 .. Len(E) : f[st[j] + 1 + m] = ItemLine(E[m])
      BY <3>1, <1>4
    <3> HIDE DEF E
    <3>6. \A m \in 0 .. Len(E) : st[j] + 1 + m \in 1 .. F
      <4> DEFINE a == st[j]
                 b == Len(E)
      <4>1. a \in Nat /\ b \in Nat /\ F \in Nat /\ a + 1 + b <= F
        BY <3>2, <3>3, <3>4, <3>5, <1>4
      <4> HIDE DEF a, b
      <4>2. \A m \in 0 .. b : a + 1 + m \in 1 .. F
        BY <4>1
      <4>3. QED
        BY <4>2 DEF a, b
    <3>7. \A i \in 1 .. F : g[i] = f[i]
      <4>1. \A i \in 1 .. F : i \in 1 .. F + 1
        BY <1>4
      <4>2. QED
        BY <4>1, <1>7, <1>8
    <3>8. st[j] + 1 \in 1 .. F
      BY <3>2, <3>3, <3>4, <3>5, <1>4
    <3>9. \A m \in 1 .. Len(E) : g[st[j] + 1 + m] = f[st[j] + 1 + m]
      <4>1. \A m \in 1 .. Len(E) : m \in 0 .. Len(E)
        BY <3>4
      <4>2. QED
        BY <4>1, <3>6, <3>7
    <3>10. QED
      BY <3>2, <3>5, <3>7, <3>8, <3>9 DEF E
  <2>3. QED
    BY <2>1, <2>2
<1>13. FileOf(c, g, n + 1, su)
  <2>1. n + 1 \in 0 .. Len(c.sections) /\ (n + 1) + 1 = n + 2
    BY <1>1, <1>2
  <2>2. QED
    BY <1>8, <1>9, <1>10, <1>11, <1>12, <2>1 DEF FileOf
<1>14. QED
  BY <1>13 DEF g, h, items, title, e, s

\* The next line is the title of the section that follows, or the next item's.
Title(c, f, st, D, at, j, m) ==
  /\ j + 1 \in 1 .. Len(c.sections) /\ D = st[j + 1]
  /\ f[D + 1] = Conf!Line(TRUE, c.sections[j + 1], Conf!Blank)
  /\ j > 0 => m = Len(Conf!Entries(c, at))
Entry(c, f, D, at, j, m) ==
  /\ j > 0 /\ m + 1 \in 1 .. Len(Conf!Entries(c, at))
  /\ f[D + 1] = ItemLine(Conf!Entries(c, at)[m + 1])

LEMMA NextLine ==
  ASSUME NEW c, NEW ch, Laid(c, ch), NEW f, NEW st, FileOf(c, f, Len(c.sections), st),
         NEW d, NEW D \in Nat, NEW at, NEW j, NEW m, HalfRead(c, st, d, D, at, j, m), D < Len(f)
  PROVE  Title(c, f, st, D, at, j, m) \/ Entry(c, f, D, at, j, m)
<1> DEFINE n == Len(c.sections)
<1>1. n \in Nat /\ c.sections \in Seq(ConfSections) /\ j \in 0 .. n /\ m \in Nat
  BY DEF Laid, Typed, HalfRead
<1>2. st \in [1 .. n + 1 -> Nat] /\ st[1] = 0 /\ st[n + 1] = Len(f)
  BY DEF FileOf
<1>3. CASE j = 0
  <2>1. D = 0
    BY <1>3 DEF HalfRead
  <2>2. n # 0
    BY <1>2, <2>1
  <2>3. 1 \in 1 .. n
    BY <1>1, <2>2
  <2>4. f[st[1] + 1] = Conf!Line(TRUE, c.sections[1], Conf!Blank)
    BY <2>3 DEF FileOf
  <2>5. QED
    BY <1>2, <1>3, <2>1, <2>3, <2>4 DEF Title
<1>4. CASE j # 0
  <2> DEFINE E == Conf!Entries(c, c.sections[j])
  <2>1. j > 0 /\ j \in 1 .. n /\ j + 1 \in 1 .. n + 1
    BY <1>1, <1>4
  <2>2. at = c.sections[j] /\ D = st[j] + 1 + m /\ m <= Len(E)
    BY <2>1 DEF HalfRead
  <2>3. Len(E) \in Nat
    <3>1. c.sections[j] \in ConfSections
      BY <1>1, <2>1
    <3>2. E \in Seq(EntrySet)
      BY <3>1, EntriesAre
    <3>3. QED
      BY <3>2
  <2>4. /\ st[j + 1] = st[j] + 1 + Len(E)
        /\ \A i \in 1 .. Len(E) : f[st[j] + 1 + i] = ItemLine(E[i])
    <3> HIDE DEF n
    <3>1. j \in 1 .. Len(c.sections)
      BY <2>1 DEF n
    <3>2. QED
      BY <3>1, Zenon DEF FileOf
  <2> HIDE DEF E
  <2>5. CASE m < Len(E)
    <3>1. m + 1 \in 1 .. Len(E) /\ st[j] \in Nat
      BY <1>1, <1>2, <2>1, <2>3, <2>5
    <3>2. st[j] + 1 + (m + 1) = D + 1
      <4> DEFINE a == st[j]
      <4>1. a \in Nat /\ D = a + 1 + m
        BY <3>1, <2>2
      <4> HIDE DEF a
      <4>2. a + 1 + (m + 1) = D + 1
        BY <4>1, <1>1
      <4>3. QED
        BY <4>2 DEF a
    <3>3. f[st[j] + 1 + (m + 1)] = ItemLine(E[m + 1])
      BY <3>1, <2>4
    <3>4. QED
      BY <2>1, <2>2, <3>1, <3>2, <3>3 DEF E, Entry
  <2>6. CASE ~(m < Len(E))
    <3>1. m = Len(E)
      BY <1>1, <2>2, <2>3, <2>6
    <3>2. D = st[j + 1]
      BY <3>1, <2>2, <2>4
    <3>3. j # n
      BY <1>2, <3>2
    <3>4. j + 1 \in 1 .. n
      BY <1>1, <2>1, <3>3
    <3>5. f[st[j + 1] + 1] = Conf!Line(TRUE, c.sections[j + 1], Conf!Blank)
      <4> HIDE DEF n
      <4>1. j + 1 \in 1 .. Len(c.sections)
        BY <3>4 DEF n
      <4>2. QED
        BY <4>1, Zenon DEF FileOf
    <3>6. QED
      BY <2>1, <2>2, <3>1, <3>2, <3>4, <3>5 DEF E, Title
  <2>7. QED
    BY <2>5, <2>6
<1>5. QED
  BY <1>3, <1>4

\* All sections of the file that are read by then are known, and no others.
LEMMA HalfKnown ==
  ASSUME NEW c, Typed(c), NEW st, NEW d, Typed(d), NEW D, NEW at, NEW j, NEW m, HalfRead(c, st, d, D, at, j, m)
  PROVE  /\ j \in 0 .. Len(c.sections)
         /\ Conf!Known(d) = {c.sections[i] : i \in 1 .. j}
         /\ \A i \in 1 .. Len(c.sections) : c.sections[i] \in Conf!Known(d) <=> i <= j
<1>1. j \in 0 .. Len(c.sections) /\ Len(d.sections) = j /\ \A i \in 1 .. j : d.sections[i] = c.sections[i]
  BY DEF HalfRead
<1>2. Conf!Known(d) = {d.sections[i] : i \in 1 .. j}
  BY <1>1, KnownSections
<1>3. Conf!Known(d) = {c.sections[i] : i \in 1 .. j}
  BY <1>1, <1>2
<1>4. \A x, y \in 1 .. Len(c.sections) : c.sections[x] = c.sections[y] => x = y
  BY DEF Typed
<1>5. Len(c.sections) \in Nat
  BY DEF Typed
<1>6. ASSUME NEW i \in 1 .. Len(c.sections) PROVE c.sections[i] \in Conf!Known(d) <=> i <= j
  <2>1. i <= j => i \in 1 .. j
    BY <1>1
  <2>2. \A x \in 1 .. j : x \in 1 .. Len(c.sections) /\ x <= j
    BY <1>1, <1>5
  <2>3. QED
    BY <1>3, <1>4, <2>1, <2>2
<1>7. QED
  BY <1>1, <1>3, <1>6

LEMMA ReadTitle ==
  ASSUME NEW c, NEW ch, Laid(c, ch), NEW f, NEW st, FileOf(c, f, Len(c.sections), st),
         NEW d, NEW dh, Laid(d, dh), NEW D \in Nat, NEW at, NEW j, NEW m,
         HalfRead(c, st, d, D, at, j, m), D < Len(f), f[D + 1].title,
         NEW b, b = Conf!g15daemon_cfg_load_section(d, f[D + 1].name)
  PROVE  HalfRead(c, st, b, D + 1, f[D + 1].name, j + 1, 0)
<1> DEFINE s == f[D + 1].name
<1>1. c.sections \in Seq(ConfSections) /\ Len(c.sections) \in Nat /\ Typed(c) /\ Typed(d)
  BY DEF Laid, Typed
<1>2. ~Conf!Line(FALSE, 0, 0).title /\ \A k, v : Conf!Line(FALSE, k, v).title = FALSE
  BY DEF Conf!Line
<1>3. /\ j + 1 \in 1 .. Len(c.sections) /\ D = st[j + 1]
      /\ f[D + 1] = Conf!Line(TRUE, c.sections[j + 1], Conf!Blank)
      /\ j > 0 => m = Len(Conf!Entries(c, at))
  <2>1. \A e : ItemLine(e).title = FALSE
    BY DEF ItemLine, Conf!Line
  <2>2. Title(c, f, st, D, at, j, m) \/ Entry(c, f, D, at, j, m)
    BY NextLine
  <2>3. f[D + 1].title
    OBVIOUS
  <2>4. QED
    BY <2>1, <2>2, <2>3 DEF Title, Entry
<1>4. s = c.sections[j + 1] /\ s \in ConfSections
  BY <1>1, <1>3 DEF Conf!Line
<1>5. /\ j \in 0 .. Len(c.sections) /\ Len(d.sections) = j /\ \A i \in 1 .. j : d.sections[i] = c.sections[i]
      /\ j > 0 => /\ at = c.sections[j] /\ m <= Len(Conf!Entries(c, at)) /\ Len(Conf!Entries(d, at)) = m
                  /\ \A i \in 1 .. m : Conf!Entries(d, at)[i] = Reread(c, at)[i]
      /\ \A i \in 1 .. j - 1 : Conf!Entries(d, c.sections[i]) = Reread(c, c.sections[i])
  BY DEF HalfRead
<1>6. s \notin Conf!Known(d)
  <2>1. c.sections[j + 1] \in Conf!Known(d) <=> j + 1 <= j
    BY <1>1, <1>3, HalfKnown
  <2>2. QED
    BY <1>4, <1>5, <2>1
<1> HIDE DEF s
<1>7. b = Conf!g15daemon_cfg_load_section(d, s)
  BY DEF s
<1>8. /\ b.sections = Append(d.sections, s)
      /\ \A t \in ConfSections : Conf!Entries(b, t) = Conf!Entries(d, t)
  <2>1. /\ b.sections = IF s \in Conf!Known(d) THEN d.sections ELSE Append(d.sections, s)
        /\ \A t \in ConfSections : Conf!Entries(b, t) = Conf!Entries(d, t)
    BY <1>4, <1>7, LoadKeeps
  <2>2. QED
    BY <1>6, <2>1
<1>9. Len(b.sections) = j + 1 /\ \A i \in 1 .. j + 1 : b.sections[i] = c.sections[i]
  <2> DEFINE S == d.sections
             T == Append(S, s)
  <2>1. S \in Seq(ConfSections) /\ Len(S) = j
    BY <1>1, <1>5 DEF Typed
  <2> HIDE DEF S
  <2>2. Len(T) = j + 1 /\ T[j + 1] = s /\ \A i \in 1 .. j : T[i] = S[i]
    BY <2>1, <1>4, AppendProperties
  <2> HIDE DEF T
  <2>3. \A i \in 1 .. j + 1 : i \in 1 .. j \/ i = j + 1
    BY <1>5
  <2>4. QED
    BY <2>2, <2>3, <1>4, <1>5, <1>8 DEF S, T
<1>10. Len(Conf!Entries(b, s)) = 0
  <2>1. Conf!Entries(d, s) = <<>>
    BY <1>4, <1>6, UnknownEmpty
  <2>2. Conf!Entries(b, s) = <<>>
    BY <2>1, <1>4, <1>8
  <2>3. QED
    BY <2>2
<1>11. ASSUME NEW i \in 1 .. j PROVE Conf!Entries(b, c.sections[i]) = Reread(c, c.sections[i])
  <2>1. c.sections[i] \in ConfSections
    <3>1. i \in 1 .. Len(c.sections)
      BY <1>1, <1>5
    <3>2. QED
      BY <3>1, <1>1
  <2>2. Conf!Entries(b, c.sections[i]) = Conf!Entries(d, c.sections[i])
    BY <1>8, <2>1
  <2>3. CASE i # j
    <3>1. i \in 1 .. j - 1
      BY <1>5, <2>3
    <3>2. QED
      BY <3>1, <1>5, <2>2
  <2>4. CASE i = j
    <3> DEFINE A == Conf!Entries(d, at)
               B == Reread(c, at)
               E == Conf!Entries(c, at)
    <3>1. j > 0 /\ at = c.sections[i] /\ at \in ConfSections
      BY <1>5, <2>1, <2>4
    <3>2. A \in Seq(EntrySet) /\ E \in Seq(EntrySet)
      BY <3>1, EntriesAre
    <3>3. Len(A) = Len(E) /\ \A k \in 1 .. Len(E) : A[k] = B[k]
      BY <3>1, <1>3, <1>5
    <3>4. B = [k \in 1 .. Len(E) |-> B[k]]
      BY <3>2 DEF Reread
    <3>5. A = [k \in 1 .. Len(A) |-> A[k]]
      BY <3>2
    <3> HIDE DEF A, B, E
    <3>6. A = B
      BY <3>3, <3>4, <3>5
    <3>7. QED
      BY <3>1, <3>6, <2>2 DEF A, B
  <2>5. QED
    BY <2>3, <2>4
<1>12. Len(Conf!Entries(c, s)) \in Nat
  <2> DEFINE E == Conf!Entries(c, s)
  <2>1. E \in Seq(EntrySet)
    BY <1>4, EntriesAre
  <2> HIDE DEF E
  <2>2. Len(E) \in Nat
    BY <2>1
  <2>3. QED
    BY <2>2 DEF E
<1>13. HalfRead(c, st, b, D + 1, s, j + 1, 0)
  <2>1. j + 1 \in 0 .. Len(c.sections) /\ (j + 1) - 1 = j /\ j + 1 # 0 /\ j + 1 > 0
    BY <1>3, <1>5
  <2>2. s = c.sections[j + 1] /\ D + 1 = st[j + 1] + 1 + 0 /\ 0 <= Len(Conf!Entries(c, s))
    BY <1>3, <1>4, <1>12
  <2>3. \A i \in 1 .. 0 : Conf!Entries(b, s)[i] = Reread(c, s)[i]
    OBVIOUS
  <2>4. QED
    BY <2>1, <2>2, <2>3, <1>9, <1>10, <1>11 DEF HalfRead
<1>14. QED
  BY <1>13 DEF s

LEMMA RereadIs ==
  ASSUME NEW c, NEW ch, Laid(c, ch), NEW s \in ConfSections
  PROVE  /\ Reread(c, s) \in Seq(EntrySet) /\ Len(Reread(c, s)) = Len(Conf!Entries(c, s))
         /\ \A n \in 1 .. Len(Conf!Entries(c, s)) : Reread(c, s)[n] = Kept(Conf!Entries(c, s)[n])
<1> DEFINE E == Conf!Entries(c, s)
           R == [n \in 1 .. Len(E) |-> Kept(E[n])]
<1>1. E \in Seq(EntrySet)
  BY EntriesAre
<1>2. Reread(c, s) = R
  BY <1>1 DEF Reread
<1> HIDE DEF E
<1>3. Len(E) \in Nat
  BY <1>1
<1>4. Conf!Blank \in ConfValues /\ Cut \in [ConfValues -> ConfValues]
  BY ConfAssumption DEF Conf!ConfigAssumption
<1>5. ASSUME NEW n \in 1 .. Len(E) PROVE Kept(E[n]) \in EntrySet
  <2>1. E[n] \in EntrySet
    BY <1>1
  <2>2. E[n].key \in ConfKeys /\ E[n].value \in ConfValues
    BY <2>1 DEF EntrySet
  <2> DEFINE v == Conf!Written(E[n].key, E[n].value)
  <2>3. v \in ConfValues
    BY <1>4, <2>2 DEF Conf!Written
  <2> HIDE DEF v
  <2>4. Cut[v] \in ConfValues
    BY <1>4, <2>3
  <2>5. [key |-> E[n].key, value |-> Cut[v]] \in EntrySet
    BY <2>2, <2>4 DEF EntrySet
  <2>6. QED
    BY <2>5 DEF Kept, v
<1>6. R \in Seq(EntrySet)
  BY <1>3, <1>5, IsASeq
<1>7. Len(R) = Len(E)
  <2>1. DOMAIN R = 1 .. Len(E)
    OBVIOUS
  <2> HIDE DEF R
  <2>2. QED
    BY <1>3, <1>6, <2>1
<1>8. \A n \in 1 .. Len(E) : R[n] = Kept(E[n])
  OBVIOUS
<1> HIDE DEF R
<1>9. QED
  BY <1>2, <1>6, <1>7, <1>8 DEF E

LEMMA ReadItem ==
  ASSUME NEW c, NEW ch, Laid(c, ch), NEW f, NEW st, FileOf(c, f, Len(c.sections), st),
         NEW d, NEW dh, Laid(d, dh), NEW D \in Nat, NEW at, NEW j, NEW m,
         HalfRead(c, st, d, D, at, j, m), Entry(c, f, D, at, j, m)
  PROVE  /\ at \in Conf!Known(d) /\ at \in ConfSections
         /\ f[D + 1].name \in ConfKeys /\ Cut[f[D + 1].val] \in ConfValues
         /\ \A b : /\ b.sections = d.sections
                   /\ \A t \in ConfSections :
                        Conf!Entries(b, t) =
                          IF t = at THEN Conf!Map!Updated(Conf!Entries(d, at), f[D + 1].name, Cut[f[D + 1].val])
                          ELSE Conf!Entries(d, t)
                   => HalfRead(c, st, b, D + 1, at, j, m + 1)
<1> DEFINE E == Conf!Entries(c, at)
           A == Conf!Entries(d, at)
           R == Reread(c, at)
           k == f[D + 1].name
           v == Cut[f[D + 1].val]
           e == [key |-> k, value |-> v]
<1>1. c.sections \in Seq(ConfSections) /\ Len(c.sections) \in Nat /\ Typed(c) /\ Typed(d)
      /\ \A x, y \in 1 .. Len(c.sections) : c.sections[x] = c.sections[y] => x = y
  <2>1. Typed(c) /\ Typed(d)
    BY DEF Laid
  <2>2. c.sections \in Seq(ConfSections)
    BY <2>1 DEF Typed
  <2>3. \A x, y \in 1 .. Len(c.sections) : c.sections[x] = c.sections[y] => x = y
    BY <2>1 DEF Typed
  <2>4. QED
    BY <2>1, <2>2, <2>3
<1>2. j > 0 /\ m + 1 \in 1 .. Len(E) /\ f[D + 1] = ItemLine(E[m + 1])
  BY DEF Entry
<1>3. /\ j \in 0 .. Len(c.sections) /\ Len(d.sections) = j /\ \A i \in 1 .. j : d.sections[i] = c.sections[i]
      /\ at = c.sections[j] /\ D = st[j] + 1 + m /\ m \in Nat /\ m <= Len(E) /\ Len(A) = m
      /\ \A i \in 1 .. m : A[i] = R[i]
      /\ \A i \in 1 .. j - 1 : Conf!Entries(d, c.sections[i]) = Reread(c, c.sections[i])
  BY <1>2 DEF HalfRead
<1>4. j \in 1 .. j /\ j \in 1 .. Len(c.sections) /\ at \in ConfSections
  BY <1>1, <1>2, <1>3
<1>5. at \in Conf!Known(d)
  <2>1. Conf!Known(d) = {c.sections[i] : i \in 1 .. j}
    BY <1>1, HalfKnown
  <2>2. QED
    BY <2>1, <1>3, <1>4
<1>6. /\ E \in Seq(EntrySet) /\ A \in Seq(EntrySet)
      /\ \A x, y \in 1 .. Len(E) : E[x].key = E[y].key => x = y
  <2>1. Len(E) = Len(ch[at])
    BY <1>4, EntriesAre
  <2>2. \A x, y \in 1 .. Len(ch[at]) : E[x].key = E[y].key => x = y
    BY <1>4, EntriesAre
  <2>3. E \in Seq(EntrySet) /\ A \in Seq(EntrySet)
    BY <1>4, EntriesAre
  <2> HIDE DEF E, A
  <2>4. QED
    BY <2>1, <2>2, <2>3
<1>7. R \in Seq(EntrySet) /\ Len(R) = Len(E) /\ \A x \in 1 .. Len(E) : R[x] = Kept(E[x])
  BY <1>4, RereadIs
<1> HIDE DEF E, A, R
<1>8. Len(E) \in Nat
  BY <1>6
<1>9. R[m + 1] = e /\ k = E[m + 1].key
  <2>1. f[D + 1].name = E[m + 1].key /\ f[D + 1].val = Conf!Written(E[m + 1].key, E[m + 1].value)
    BY <1>2 DEF ItemLine, Conf!Line
  <2>2. R[m + 1] = Kept(E[m + 1])
    BY <1>2, <1>7
  <2>3. Kept(E[m + 1]) = [key |-> E[m + 1].key, value |-> Cut[Conf!Written(E[m + 1].key, E[m + 1].value)]]
    BY DEF Kept
  <2>4. QED
    BY <2>1, <2>2, <2>3
<1>10. e \in EntrySet /\ k \in ConfKeys /\ v \in ConfValues
  <2>1. R[m + 1] \in EntrySet
    BY <1>2, <1>7
  <2> HIDE DEF k, v
  <2>2. e \in EntrySet
    BY <1>9, <2>1
  <2>3. e.key = k /\ e.value = v /\ e.key \in ConfKeys /\ e.value \in ConfValues
    BY <2>2 DEF EntrySet
  <2> HIDE DEF e
  <2>4. QED
    BY <2>2, <2>3
<1> HIDE DEF k, v
<1>11. \A i \in 1 .. m : A[i].key # k
  <2> SUFFICES ASSUME NEW i \in 1 .. m, A[i].key = k PROVE FALSE
    OBVIOUS
  <2>1. i \in 1 .. Len(E) /\ i # m + 1
    BY <1>2, <1>3, <1>8
  <2>2. A[i] = Kept(E[i])
    BY <1>3, <1>7, <2>1
  <2>3. A[i].key = E[i].key
    BY <2>2 DEF Kept
  <2>4. E[i].key = E[m + 1].key
    BY <1>9, <2>3
  <2>5. QED
    BY <2>1, <2>4, <1>2, <1>6
<1>12. Conf!Map!Updated(A, k, v) = Append(A, e)
  BY <1>3, <1>6, <1>10, <1>11, UpdatedNew
<1> HIDE DEF e
<1> DEFINE B == Append(A, e)
<1>13. Len(B) = m + 1 /\ \A i \in 1 .. m + 1 : B[i] = R[i]
  <2>1. Len(B) = m + 1 /\ B[m + 1] = e /\ \A i \in 1 .. m : B[i] = A[i]
    BY <1>3, <1>6, <1>10, AppendProperties
  <2> HIDE DEF B
  <2>2. \A i \in 1 .. m + 1 : i \in 1 .. m \/ i = m + 1
    BY <1>3
  <2>3. QED
    BY <2>1, <2>2, <1>3, <1>9
<1> HIDE DEF B
<1>14. ASSUME NEW b, b.sections = d.sections,
              \A t \in ConfSections :
                 Conf!Entries(b, t) = IF t = at THEN Conf!Map!Updated(A, k, v) ELSE Conf!Entries(d, t)
       PROVE  HalfRead(c, st, b, D + 1, at, j, m + 1)
  <2>1. Conf!Entries(b, at) = B
    BY <1>4, <1>12, <1>14 DEF B
  <2>2. ASSUME NEW i \in 1 .. j - 1 PROVE Conf!Entries(b, c.sections[i]) = Reread(c, c.sections[i])
    <3>1. i \in 1 .. Len(c.sections) /\ i # j
      BY <1>1, <1>3
    <3>2. c.sections[i] \in ConfSections /\ c.sections[i] # at
      BY <3>1, <1>1, <1>3, <1>4
    <3>3. Conf!Entries(b, c.sections[i]) = Conf!Entries(d, c.sections[i])
      BY <3>2, <1>14
    <3>4. QED
      BY <3>3, <1>3
  <2>3. m + 1 \in Nat /\ m + 1 <= Len(Conf!Entries(c, at)) /\ D + 1 = st[j] + 1 + (m + 1) /\ j # 0
    <3>1. st[j] \in Nat
      <4>1. st \in [1 .. Len(c.sections) + 1 -> Nat] /\ j \in 1 .. Len(c.sections) + 1
        BY <1>1, <1>4 DEF FileOf
      <4>2. QED
        BY <4>1
    <3>2. D + 1 = st[j] + 1 + (m + 1) /\ j # 0 /\ m + 1 \in Nat
      <4>1. D = st[j] + 1 + m /\ m \in Nat
        BY <1>3
      <4>2. j # 0
        BY <1>2
      <4> DEFINE x == st[j]
      <4>3. x \in Nat /\ D = x + 1 + m
        BY <3>1, <4>1
      <4> HIDE DEF x
      <4>4. D + 1 = x + 1 + (m + 1)
        BY <4>1, <4>3
      <4>5. QED
        BY <4>1, <4>2, <4>4 DEF x
    <3>3. m + 1 <= Len(E)
      BY <1>2, <1>8
    <3>4. QED
      BY <3>2, <3>3 DEF E
  <2>4. Len(b.sections) = j /\ \A i \in 1 .. j : b.sections[i] = c.sections[i]
    BY <1>3, <1>14
  <2>5. Len(Conf!Entries(b, at)) = m + 1 /\ \A i \in 1 .. m + 1 : Conf!Entries(b, at)[i] = Reread(c, at)[i]
    BY <2>1, <1>13 DEF R
  <2>6. QED
    BY <1>2, <1>3, <2>2, <2>3, <2>4, <2>5 DEF HalfRead
<1>15. QED
  BY <1>4, <1>5, <1>10, <1>14 DEF k, v, A

LEMMA AllRead ==
  ASSUME NEW c, NEW ch, Laid(c, ch), NEW f, NEW st, FileOf(c, f, Len(c.sections), st),
         NEW d, NEW dh, Laid(d, dh), NEW at, NEW j, NEW m, HalfRead(c, st, d, Len(f), at, j, m)
  PROVE  /\ Conf!Known(d) = Conf!Known(c)
         /\ \A s \in Conf!Known(c) : Conf!Entries(d, s) = Reread(c, s)
<1> DEFINE n == Len(c.sections)
<1>1. c.sections \in Seq(ConfSections) /\ n \in Nat /\ Typed(c) /\ Typed(d) /\ j \in 0 .. n /\ m \in Nat
  <2>1. Typed(c) /\ Typed(d)
    BY DEF Laid
  <2>2. j \in 0 .. n /\ m \in Nat
    BY DEF HalfRead
  <2>3. c.sections \in Seq(ConfSections) /\ n \in Nat
    BY <2>1 DEF Typed
  <2>4. QED
    BY <2>1, <2>2, <2>3
<1>2. /\ st \in [1 .. n + 1 -> Nat] /\ st[1] = 0 /\ st[n + 1] = Len(f)
      /\ \A x, y \in 1 .. n + 1 : x < y => st[x] < st[y]
  BY DEF FileOf
<1>3. CASE j = 0
  <2>1. Len(f) = 0
    BY <1>3 DEF HalfRead
  <2>2. n = 0
    <3> SUFFICES ASSUME n # 0 PROVE FALSE
      OBVIOUS
    <3>1. 1 \in 1 .. n + 1 /\ n + 1 \in 1 .. n + 1 /\ 1 < n + 1
      BY <1>1
    <3>2. st[1] < st[n + 1]
      BY <3>1, <1>2
    <3>3. QED
      BY <3>2, <2>1, <1>2
  <2>3. Conf!Known(c) = {} /\ Conf!Known(d) = {}
    <3>1. Conf!Known(c) = {c.sections[i] : i \in 1 .. 0}
      BY <1>1, <2>2, KnownSections
    <3>2. Conf!Known(d) = {c.sections[i] : i \in 1 .. 0}
      BY <1>1, <1>3, HalfKnown
    <3>3. QED
      BY <3>1, <3>2
  <2>4. QED
    BY <2>3
<1>4. CASE j # 0
  <2> DEFINE E == Conf!Entries(c, at)
             A == Conf!Entries(d, at)
             R == Reread(c, at)
  <2>1. j > 0 /\ j \in 1 .. n /\ j \in 1 .. n + 1 /\ j + 1 \in 1 .. n + 1 /\ n + 1 \in 1 .. n + 1
    BY <1>1, <1>4
  <2>2. /\ at = c.sections[j] /\ Len(f) = st[j] + 1 + m /\ m <= Len(E) /\ Len(A) = m
        /\ \A i \in 1 .. m : A[i] = R[i]
        /\ \A i \in 1 .. j - 1 : Conf!Entries(d, c.sections[i]) = Reread(c, c.sections[i])
    BY <2>1 DEF HalfRead
  <2>3. at \in ConfSections
    BY <1>1, <2>1, <2>2
  <2>4. E \in Seq(EntrySet) /\ A \in Seq(EntrySet)
    BY <2>3, EntriesAre
  <2>5. R \in Seq(EntrySet) /\ Len(R) = Len(E)
    BY <2>3, RereadIs
  <2>6. st[j + 1] = st[j] + 1 + Len(E)
    <3>1. \A i \in 1 .. n : st[i + 1] = st[i] + 1 + Len(Conf!Entries(c, c.sections[i]))
      BY Zenon DEF FileOf
    <3>2. QED
      BY <3>1, <2>1, <2>2
  <2> HIDE DEF E, A, R
  <2>7. j = n /\ m = Len(E)
    <3>1. Len(E) \in Nat /\ st[j] \in Nat /\ st[j + 1] \in Nat
      <4>1. Len(E) \in Nat
        BY <2>4
      <4>2. \A i \in 1 .. n + 1 : st[i] \in Nat
        BY <1>2
      <4>3. QED
        BY <4>1, <4>2, <2>1
    <3>2. j + 1 < n + 1 => st[j + 1] < Len(f)
      BY <1>2, <2>1
    <3>3. j = n
      BY <1>1, <2>1, <2>2, <2>6, <3>1, <3>2
    <3>4. QED
      BY <1>1, <1>2, <2>2, <2>6, <3>1, <3>3
  <2>8. A = R
    BY <2>2, <2>4, <2>5, <2>7, SeqEqual
  <2>9. Conf!Known(c) = {c.sections[i] : i \in 1 .. n} /\ Conf!Known(d) = {c.sections[i] : i \in 1 .. j}
    <3>1. Conf!Known(c) = {c.sections[i] : i \in 1 .. n}
      BY <1>1, KnownSections
    <3>2. Conf!Known(d) = {c.sections[i] : i \in 1 .. j}
      BY <1>1, HalfKnown
    <3>3. QED
      BY <3>1, <3>2
  <2>10. ASSUME NEW i \in 1 .. n PROVE Conf!Entries(d, c.sections[i]) = Reread(c, c.sections[i])
    <3>1. CASE i = j
      BY <3>1, <2>2, <2>8 DEF A, R
    <3>2. CASE i # j
      <4>1. i \in 1 .. j - 1
        BY <3>2, <2>7, <1>1
      <4>2. QED
        BY <4>1, <2>2
    <3>3. QED
      BY <3>1, <3>2
  <2>11. QED
    BY <2>7, <2>9, <2>10
<1>5. QED
  BY <1>3, <1>4

\* What the content becomes, as the map says it.
NewIn(c, d, s) ==
  Conf!Content(d) = [t \in DOMAIN Conf!Content(c) \cup {s} |-> IF t = s THEN <<>> ELSE Conf!Content(c)[t]]
PutIn(c, d, s, k, v) ==
  Conf!Content(d) =
    [t \in DOMAIN Conf!Content(c) \cup {s} |->
       IF t = s THEN Conf!Map!Updated(IF s \in DOMAIN Conf!Content(c) THEN Conf!Content(c)[s] ELSE <<>>, k, v)
       ELSE Conf!Content(c)[t]]
DeletedIn(c, d, s, k) ==
  /\ s \in DOMAIN Conf!Content(c)
  /\ \E i \in DOMAIN Conf!Content(c)[s] :
       /\ Conf!Content(c)[s][i].key = k
       /\ Conf!Content(d) = [Conf!Content(c) EXCEPT ![s] = Conf!Map!RemoveAt(@, i)]
RereadIn(c, d) ==
  Conf!Content(d) =
    [s \in DOMAIN Conf!Content(c) |->
       [i \in DOMAIN Conf!Content(c)[s] |->
          [Conf!Content(c)[s][i] EXCEPT !.value = Cut[Conf!Written(Conf!Content(c)[s][i].key, @)]]]]

LEMMA ContentSame ==
  ASSUME NEW c, NEW d, Conf!Known(d) = Conf!Known(c),
         \A t \in Conf!Known(c) : Conf!Entries(d, t) = Conf!Entries(c, t)
  PROVE  Conf!Content(d) = Conf!Content(c)
<1>1. /\ Conf!Content(c) = [t \in Conf!Known(c) |-> Conf!Entries(c, t)]
      /\ Conf!Content(d) = [t \in Conf!Known(d) |-> Conf!Entries(d, t)]
  BY DEF Conf!Content, Conf!Known
<1>2. QED
  BY <1>1

LEMMA ContentNew ==
  ASSUME NEW c, NEW d, NEW s, Conf!Known(d) = Conf!Known(c) \cup {s},
         \A t \in Conf!Known(d) : Conf!Entries(d, t) = IF t = s THEN <<>> ELSE Conf!Entries(c, t)
  PROVE  NewIn(c, d, s)
<1>1. Conf!Content(d) = [t \in Conf!Known(d) |-> Conf!Entries(d, t)]
  BY DEF Conf!Content, Conf!Known
<1>2. DOMAIN Conf!Content(c) = Conf!Known(c) /\ \A t \in Conf!Known(c) : Conf!Content(c)[t] = Conf!Entries(c, t)
  BY ContentIs
<1>3. QED
  BY <1>1, <1>2 DEF NewIn

LEMMA ContentPut ==
  ASSUME NEW c, NEW d, NEW s, NEW k, NEW v, Conf!Known(d) = Conf!Known(c) \cup {s},
         s \notin Conf!Known(c) => Conf!Entries(c, s) = <<>>,
         \A t \in Conf!Known(d) :
           Conf!Entries(d, t) = IF t = s THEN Conf!Map!Updated(Conf!Entries(c, s), k, v) ELSE Conf!Entries(c, t)
  PROVE  PutIn(c, d, s, k, v)
<1>1. Conf!Content(d) = [t \in Conf!Known(d) |-> Conf!Entries(d, t)]
  BY DEF Conf!Content, Conf!Known
<1>2. DOMAIN Conf!Content(c) = Conf!Known(c) /\ \A t \in Conf!Known(c) : Conf!Content(c)[t] = Conf!Entries(c, t)
  BY ContentIs
<1>3. (IF s \in DOMAIN Conf!Content(c) THEN Conf!Content(c)[s] ELSE <<>>) = Conf!Entries(c, s)
  BY <1>2
<1>4. QED
  BY <1>1, <1>2, <1>3 DEF PutIn

LEMMA ContentDeleted ==
  ASSUME NEW c, NEW d, NEW s \in Conf!Known(c), NEW k, Conf!Known(d) = Conf!Known(c),
         Conf!Entries(c, s) \in Seq(EntrySet), Len(Conf!Entries(c, s)) > 0,
         Conf!Entries(c, s)[Len(Conf!Entries(c, s))].key = k,
         \A t \in Conf!Known(c) :
           Conf!Entries(d, t) = IF t = s THEN SubSeq(Conf!Entries(c, s), 1, Len(Conf!Entries(c, s)) - 1)
                                ELSE Conf!Entries(c, t)
  PROVE  DeletedIn(c, d, s, k)
<1> DEFINE C == Conf!Content(c)
           E == Conf!Entries(c, s)
<1>1. Conf!Content(d) = [t \in Conf!Known(c) |-> Conf!Entries(d, t)]
  BY DEF Conf!Content, Conf!Known
<1>2. C = [t \in Conf!Known(c) |-> Conf!Entries(c, t)]
  BY DEF Conf!Content, Conf!Known
<1>3. Conf!Map!RemoveAt(E, Len(E)) = SubSeq(E, 1, Len(E) - 1)
  <2> HIDE DEF E
  <2>1. E \in Seq(EntrySet) /\ Len(E) > 0
    BY DEF E
  <2>2. QED
    BY <2>1, LastRemoved
<1>4. C[s] = E /\ s \in DOMAIN C
  BY <1>2
<1> DEFINE F == SubSeq(E, 1, Len(E) - 1)
<1>5. \A t \in Conf!Known(c) : Conf!Entries(d, t) = IF t = s THEN F ELSE Conf!Entries(c, t)
  OBVIOUS
<1> HIDE DEF F, C, E
<1>6. Conf!Content(d) = [C EXCEPT ![s] = F]
  BY <1>1, <1>2, <1>5
<1>7. Conf!Map!RemoveAt(C[s], Len(E)) = F
  BY <1>3, <1>4 DEF F
<1>8. [C EXCEPT ![s] = Conf!Map!RemoveAt(@, Len(E))] = [C EXCEPT ![s] = F]
  BY <1>7
<1>9. Len(E) \in DOMAIN E /\ E[Len(E)].key = k
  <2>1. E \in Seq(EntrySet) /\ Len(E) > 0 /\ E[Len(E)].key = k
    BY DEF E
  <2>2. QED
    BY <2>1
<1>10. QED
  BY <1>4, <1>6, <1>8, <1>9 DEF C, DeletedIn

LEMMA ContentReread ==
  ASSUME NEW c, NEW ch, Laid(c, ch), NEW d, Conf!Known(d) = Conf!Known(c),
         \A s \in Conf!Known(c) : Conf!Entries(d, s) = Reread(c, s)
  PROVE  RereadIn(c, d)
<1> DEFINE C == Conf!Content(c)
           R(s) == [i \in DOMAIN C[s] |-> [C[s][i] EXCEPT !.value = Cut[Conf!Written(C[s][i].key, @)]]]
<1>1. Conf!Content(d) = [s \in Conf!Known(c) |-> Conf!Entries(d, s)]
  BY DEF Conf!Content, Conf!Known
<1>2. DOMAIN C = Conf!Known(c) /\ \A s \in Conf!Known(c) : C[s] = Conf!Entries(c, s)
  BY ContentIs
<1>3. ASSUME NEW s \in Conf!Known(c) PROVE Conf!Entries(d, s) = R(s)
  <2> DEFINE E == Conf!Entries(c, s)
  <2>1. s \in ConfSections
    BY KnownSections DEF Laid
  <2>2. E \in Seq(EntrySet)
    BY <2>1, EntriesAre
  <2>3. C[s] = E
    BY <1>2
  <2> HIDE DEF C
  <2>4. Reread(c, s) = [i \in DOMAIN E |-> Kept(E[i])]
    BY DEF Reread
  <2>5. R(s) = [i \in DOMAIN E |-> [E[i] EXCEPT !.value = Cut[Conf!Written(E[i].key, @)]]]
    BY <2>3
  <2> HIDE DEF E
  <2>6. ASSUME NEW i \in DOMAIN E
        PROVE  Kept(E[i]) = [E[i] EXCEPT !.value = Cut[Conf!Written(E[i].key, @)]]
    <3>1. E[i] \in EntrySet
      BY <2>2
    <3>2. E[i] = [key |-> E[i].key, value |-> E[i].value]
      BY <3>1 DEF EntrySet
    <3> DEFINE w == Cut[Conf!Written(E[i].key, E[i].value)]
    <3>3. [E[i] EXCEPT !.value = Cut[Conf!Written(E[i].key, @)]] = [E[i] EXCEPT !.value = w]
      OBVIOUS
    <3> HIDE DEF w
    <3>4. [E[i] EXCEPT !.value = w] = [key |-> E[i].key, value |-> w]
      BY <3>2
    <3>5. QED
      BY <3>3, <3>4 DEF Kept, w
  <2>7. QED
    BY <2>4, <2>5, <2>6
<1>4. QED
  BY <1>1, <1>2, <1>3 DEF RereadIn

\* What holds as long as nothing is broken.
ConfInv ==
  /\ (\E ch : Laid(s1, ch)) /\ (\E ch : Laid(s3, ch))
  /\ s2 \in Seq(Conf!Lines)
  /\ s4 \in [doing : {"run", "write", "open", "reopen"}, done : Nat, at : ConfSections \cup {Conf!NoSection}]
  /\ s4.doing = "open" => s4.at \in Conf!Known(s1) \cup {Conf!NoSection}
  /\ s4.doing = "write" => \E st : FileOf(s1, s2, s4.done, st)
  /\ s4.doing = "reopen" => \E st : /\ FileOf(s3, s2, Len(s3.sections), st)
                                    /\ \E j, m : HalfRead(s3, st, s1, s4.done, s4.at, j, m)

\* A step of the program that is not in its file.
LEMMA RunStep ==
  ASSUME ConfInv, s4.doing = "run", s4' = s4, s3' = s3, s2' = s2, \E ch : Laid(s1', ch)
  PROVE  ConfInv'
BY DEF ConfInv

LEMMA ContentRead ==
  ASSUME s4.doing # "reopen", s4'.doing # "reopen"
  PROVE  Conf!MapContent = Conf!Content(s1) /\ Conf!MapContent' = Conf!Content(s1')
BY DEF Conf!MapContent

LEMMA LoadSectionStep ==
  ASSUME ConfInv, NEW s \in ConfSections, Conf!LoadSection(s)
  PROVE  ConfInv' /\ Conf!KeepsMap
<1>1. PICK ch : Laid(s1, ch)
  BY DEF ConfInv
<1>2. /\ s4.doing = "run" /\ s \notin Conf!Known(s1) /\ s1' = Conf!g15daemon_cfg_load_section(s1, s)
      /\ s2' = s2 /\ s3' = s3 /\ s4' = s4
  BY DEF Conf!LoadSection, Conf!Running
<1>3. /\ Laid(s1', ch) /\ Conf!Known(s1') = Conf!Known(s1) \cup {s}
      /\ \A t \in ConfSections : Conf!Entries(s1', t) = Conf!Entries(s1, t)
  BY <1>1, <1>2, LoadKeeps
<1>4. Conf!Entries(s1, s) = <<>>
  BY <1>1, <1>2, UnknownEmpty
<1>5. Conf!Known(s1) \subseteq ConfSections
  BY <1>1, KnownSections DEF Laid
<1>6. NewIn(s1, s1', s)
  <2>1. \A t \in Conf!Known(s1') : Conf!Entries(s1', t) = IF t = s THEN <<>> ELSE Conf!Entries(s1, t)
    BY <1>3, <1>4, <1>5
  <2>2. Conf!Known(s1') = Conf!Known(s1) \cup {s}
    BY <1>3
  <2>3. QED
    BY <2>1, <2>2, ContentNew
<1>7. Conf!MapContent = Conf!Content(s1) /\ Conf!MapContent' = Conf!Content(s1')
  BY <1>2, ContentRead
<1>8. s \notin DOMAIN Conf!Content(s1)
  BY <1>2, ContentIs
<1>9. Conf!Map!NewSection(s)
  BY <1>6, <1>7, <1>8 DEF NewIn, Conf!Map!NewSection, Conf!Map!Known
<1>10. QED
  BY <1>2, <1>3, <1>9, RunStep DEF Conf!KeepsMap, Conf!Map!Next

LEMMA PutKeeps ==
  ASSUME NEW c, NEW ch, Laid(c, ch), NEW s \in ConfSections, NEW k \in ConfKeys, NEW v \in ConfValues,
         NEW b, b = Conf!g15daemon_cfg_load_section(c, s),
         NEW d, d = Conf!g15daemon_cfg_write_string(b, s, k, v)
  PROVE  /\ \E dh : Laid(d, dh)
         /\ d.sections = b.sections /\ Conf!Known(d) = Conf!Known(c) \cup {s}
         /\ \A t \in ConfSections :
              Conf!Entries(d, t) = IF t = s THEN Conf!Map!Updated(Conf!Entries(c, s), k, v)
                                   ELSE Conf!Entries(c, t)
         /\ PutIn(c, d, s, k, v)
<1>1. /\ Laid(b, ch) /\ Conf!Known(b) = Conf!Known(c) \cup {s}
      /\ \A t \in ConfSections : Conf!Entries(b, t) = Conf!Entries(c, t)
  BY LoadKeeps
<1>2. s \in Conf!Known(b)
  BY <1>1
<1>3. /\ \E dh : Laid(d, dh)
      /\ d.sections = b.sections
      /\ \A t \in ConfSections :
           Conf!Entries(d, t) = IF t = s THEN Conf!Map!Updated(Conf!Entries(b, s), k, v)
                                ELSE Conf!Entries(b, t)
  BY <1>1, <1>2, WriteKeeps
<1>4. Conf!Known(d) = Conf!Known(c) \cup {s}
  BY <1>1, <1>3 DEF Conf!Known
<1>5. \A t \in ConfSections :
         Conf!Entries(d, t) = IF t = s THEN Conf!Map!Updated(Conf!Entries(c, s), k, v) ELSE Conf!Entries(c, t)
  BY <1>1, <1>3
<1>6. Conf!Known(c) \subseteq ConfSections
  BY KnownSections DEF Laid
<1>7. s \notin Conf!Known(c) => Conf!Entries(c, s) = <<>>
  BY UnknownEmpty
<1>8. \A t \in Conf!Known(d) :
         Conf!Entries(d, t) = IF t = s THEN Conf!Map!Updated(Conf!Entries(c, s), k, v) ELSE Conf!Entries(c, t)
  BY <1>4, <1>5, <1>6
<1>9. PutIn(c, d, s, k, v)
  BY <1>4, <1>7, <1>8, ContentPut
<1>10. QED
  BY <1>3, <1>4, <1>5, <1>9

LEMMA MapPut ==
  ASSUME s4.doing # "reopen", s4'.doing # "reopen", NEW s \in ConfSections, NEW k \in ConfKeys, NEW v \in ConfValues,
         PutIn(s1, s1', s, k, v)
  PROVE  Conf!KeepsMap
<1>1. Conf!MapContent = Conf!Content(s1) /\ Conf!MapContent' = Conf!Content(s1')
  BY ContentRead
<1>2. Conf!Map!Put(s, k, v)
  BY <1>1 DEF PutIn, Conf!Map!Put, Conf!Map!Known
<1>3. QED
  BY <1>2 DEF Conf!KeepsMap, Conf!Map!Next

LEMMA WriteStep ==
  ASSUME ConfInv, NEW s \in ConfSections, NEW k \in ConfKeys, NEW v \in Given, Conf!Write(s, k, v) \/ Conf!Read(s, k, v)
  PROVE  ConfInv' /\ Conf!KeepsMap
<1>1. PICK ch : Laid(s1, ch)
  BY DEF ConfInv
<1>2. v \in ConfValues
  BY ConfAssumption DEF Conf!ConfigAssumption
<1>3. /\ s4.doing = "run" /\ s \in Conf!Known(s1) /\ s2' = s2 /\ s3' = s3 /\ s4' = s4
      /\ s1' = s1 \/ s1' = Conf!g15daemon_cfg_write_string(s1, s, k, v)
  BY DEF Conf!Write, Conf!Read, Conf!Running, Conf!g15daemon_cfg_read_string
<1>4. CASE s1' = s1
  <2>1. \E dh : Laid(s1', dh)
    BY <1>1, <1>4
  <2>2. ConfInv'
    BY <1>3, <2>1, RunStep
  <2>3. UNCHANGED Conf!MapContent
    BY <1>3, <1>4 DEF Conf!MapContent
  <2>4. QED
    BY <2>2, <2>3 DEF Conf!KeepsMap
<1>5. CASE s1' = Conf!g15daemon_cfg_write_string(s1, s, k, v)
  <2>1. s1 = Conf!g15daemon_cfg_load_section(s1, s)
    BY <1>3 DEF Conf!g15daemon_cfg_load_section, Conf!Known
  <2>2. (\E dh : Laid(s1', dh)) /\ PutIn(s1, s1', s, k, v)
    BY <1>1, <1>2, <1>5, <2>1, PutKeeps
  <2>3. ConfInv'
    BY <1>3, <2>2, RunStep
  <2>4. Conf!KeepsMap
    BY <1>2, <1>3, <2>2, MapPut
  <2>5. QED
    BY <2>3, <2>4
<1>6. QED
  BY <1>3, <1>4, <1>5

LEMMA RemoveKeyStep ==
  ASSUME ConfInv, NEW s \in ConfSections, NEW k \in ConfKeys, Conf!RemoveKey(s, k)
  PROVE  (s5' = "no" => ConfInv') /\ Conf!KeepsMap
<1> DEFINE i == Conf!uf_search_confitem(s1, s, k)
           alone == s1.node[i].prev = 0 /\ s1.node[i].next = 0
<1>1. PICK ch : Laid(s1, ch)
  BY DEF ConfInv
<1>2. /\ s4.doing = "run" /\ s \in Conf!Known(s1) /\ i # 0
      /\ s2' = s2 /\ s3' = s3 /\ s4' = s4
      /\ s5' = IF alone THEN "freed twice" ELSE IF s1.node[i].next # 0 THEN "removed" ELSE "no"
      /\ s1' = IF alone THEN s1 ELSE Conf!g15daemon_cfg_remove_key(s1, s, k)
  BY DEF Conf!RemoveKey, Conf!Running, Conf!NULL
<1>3. CASE s5' # "no"
  BY <1>3 DEF Conf!KeepsMap
<1>4. CASE s5' = "no"
  <2>1. s1.node[i].next = 0 /\ s1.node[i].prev # 0 /\ s1' = Conf!g15daemon_cfg_remove_key(s1, s, k)
    BY <1>2, <1>4
  <2> DEFINE E == Conf!Entries(s1, s)
  <2>2. /\ \E dh : Laid(s1', dh)
        /\ s1'.sections = s1.sections
        /\ E \in Seq(EntrySet) /\ Len(E) > 0 /\ E[Len(E)].key = k
        /\ \A t \in ConfSections :
             Conf!Entries(s1', t) = IF t = s THEN SubSeq(E, 1, Len(E) - 1) ELSE Conf!Entries(s1, t)
    BY <1>1, <1>2, <2>1, RemoveKeeps
  <2>3. Conf!Known(s1') = Conf!Known(s1)
    BY <2>2 DEF Conf!Known
  <2>4. Conf!Known(s1) \subseteq ConfSections
    BY <1>1, KnownSections DEF Laid
  <2>5. DeletedIn(s1, s1', s, k)
    BY <1>2, <2>2, <2>3, <2>4, ContentDeleted
  <2>6. Conf!MapContent = Conf!Content(s1) /\ Conf!MapContent' = Conf!Content(s1')
    BY <1>2, ContentRead
  <2>7. Conf!Map!Delete(s, k)
    BY <2>5, <2>6 DEF DeletedIn, Conf!Map!Delete, Conf!Map!Known
  <2>8. ConfInv'
    BY <1>2, <2>2, RunStep
  <2>9. QED
    BY <2>7, <2>8 DEF Conf!KeepsMap, Conf!Map!Next
<1>5. QED
  BY <1>3, <1>4

LEMMA TruncateStep ==
  ASSUME ConfInv, Conf!Truncate
  PROVE  ConfInv' /\ Conf!KeepsMap
<1>1. /\ s4.doing = "run" /\ s1' = s1 /\ s2' = <<>> /\ s3' = s3
      /\ s4' = [s4 EXCEPT !.doing = "write", !.done = 0]
  BY DEF Conf!Truncate, Conf!Running
<1>2. s4' = [doing |-> "write", done |-> 0, at |-> s4.at] /\ s4.at \in ConfSections \cup {Conf!NoSection}
  BY <1>1 DEF ConfInv
<1>3. FileOf(s1, <<>>, 0, [j \in 1 .. 1 |-> 0])
  <2>1. Len(s1.sections) \in Nat
    BY DEF ConfInv, Laid, Typed
  <2> DEFINE st == [j \in 1 .. 0 + 1 |-> 0]
  <2>2. st \in [1 .. 0 + 1 -> Nat] /\ st[1] = 0 /\ st[0 + 1] = 0 /\ Len(<<>>) = 0 /\ <<>> \in Seq(Conf!Lines)
    OBVIOUS
  <2>3. \A x, y \in 1 .. 0 + 1 : ~(x < y)
    OBVIOUS
  <2>4. \A j \in 1 .. 0 : FALSE
    OBVIOUS
  <2> HIDE DEF st
  <2>5. 0 \in 0 .. Len(s1.sections)
    BY <2>1
  <2>6. FileOf(s1, <<>>, 0, st)
    BY <2>2, <2>3, <2>4, <2>5 DEF FileOf
  <2>7. QED
    BY <2>6 DEF st
<1>4. \E st : FileOf(s1', s2', s4'.done, st)
  BY <1>1, <1>2, <1>3
<1>5. ConfInv'
  BY <1>1, <1>2, <1>4 DEF ConfInv
<1>6. UNCHANGED Conf!MapContent
  BY <1>1, <1>2 DEF Conf!MapContent
<1>7. QED
  BY <1>5, <1>6 DEF Conf!KeepsMap

LEMMA ConfWriteStep ==
  ASSUME ConfInv, Conf!uf_conf_write
  PROVE  ConfInv' /\ Conf!KeepsMap
<1> DEFINE n == s4.done
           s == s1.sections[n + 1]
           e == Conf!Entries(s1, s)
           g == Append(s2, Conf!Line(TRUE, s, Conf!Blank)) \o [m \in DOMAIN e |-> ItemLine(e[m])]
<1>1. /\ s4.doing = "write" /\ n < Len(s1.sections) /\ s1' = s1 /\ s3' = s3 /\ s2' = g
      /\ s4' = [s4 EXCEPT !.done = @ + 1]
  BY DEF Conf!uf_conf_write, ItemLine
<1>2. n \in Nat /\ s4' = [doing |-> "write", done |-> n + 1, at |-> s4.at]
      /\ s4.at \in ConfSections \cup {Conf!NoSection}
  BY <1>1 DEF ConfInv
<1>3. PICK st : FileOf(s1, s2, n, st)
  BY <1>1 DEF ConfInv
<1>4. PICK ch : Laid(s1, ch)
  BY DEF ConfInv
<1>5. \E su : FileOf(s1, g, n + 1, su)
  BY <1>1, <1>2, <1>3, <1>4, FileWritten
<1> HIDE DEF g, n
<1>6. \E su : FileOf(s1', s2', s4'.done, su)
  BY <1>1, <1>2, <1>5
<1>7. s2' \in Seq(Conf!Lines)
  BY <1>6 DEF FileOf
<1>8. ConfInv'
  BY <1>1, <1>2, <1>6, <1>7 DEF ConfInv
<1>9. UNCHANGED Conf!MapContent
  BY <1>1, <1>2 DEF Conf!MapContent
<1>10. QED
  BY <1>8, <1>9 DEF Conf!KeepsMap

\* Nothing is read yet.
LEMMA FreeStep ==
  ASSUME ConfInv, Conf!uf_conf_free
  PROVE  ConfInv' /\ Conf!KeepsMap
<1>1. /\ s4.doing = "write" /\ s4.done = Len(s1.sections) /\ s3' = s1 /\ s1' = Conf!Empty /\ s2' = s2
      /\ s4' = [doing |-> "reopen", done |-> 0, at |-> Conf!NoSection]
  BY DEF Conf!uf_conf_free
<1>2. PICK st : FileOf(s1, s2, Len(s1.sections), st)
  BY <1>1 DEF ConfInv
<1>3. HalfRead(s3', st, s1', 0, Conf!NoSection, 0, 0)
  <2>1. Len(s3'.sections) \in Nat
    BY <1>1 DEF ConfInv, Laid, Typed
  <2>2. s1'.sections = <<>> /\ Len(<<>>) = 0
    BY <1>1 DEF Conf!Empty
  <2>3. (\A i \in 1 .. 0 : FALSE) /\ (\A i \in 1 .. 0 - 1 : FALSE) /\ 0 \in 0 .. Len(s3'.sections) /\ ~(0 > 0)
    BY <2>1
  <2>4. QED
    BY <2>2, <2>3 DEF HalfRead
<1>4. \E ch : Laid(s1', ch)
  BY <1>1, EmptyLaid
<1>5. \E su : /\ FileOf(s3', s2', Len(s3'.sections), su)
              /\ \E j, m : HalfRead(s3', su, s1', s4'.done, s4'.at, j, m)
  <2>1. FileOf(s3', s2', Len(s3'.sections), st)
    BY <1>1, <1>2
  <2>2. HalfRead(s3', st, s1', s4'.done, s4'.at, 0, 0)
    BY <1>1, <1>3
  <2>3. QED
    BY <2>1, <2>2
<1>6. ConfInv'
  BY <1>1, <1>4, <1>5 DEF ConfInv
<1>7. UNCHANGED Conf!MapContent
  BY <1>1 DEF Conf!MapContent
<1>8. QED
  BY <1>6, <1>7 DEF Conf!KeepsMap

\* A user's file: each line is a promise kept.
LEMMA OpenStep ==
  ASSUME ConfInv, s4.doing = "open", Conf!uf_conf_open
  PROVE  (s5' = "no" => ConfInv') /\ Conf!KeepsMap
<1> DEFINE D == s4.done
           line == s2[D + 1]
           into == IF s4.at = Conf!NoSection THEN Conf!Global ELSE s4.at
<1>1. /\ D \in Nat /\ s4.at \in ConfSections \cup {Conf!NoSection} /\ s2 \in Seq(Conf!Lines)
      /\ s4 = [doing |-> "open", done |-> D, at |-> s4.at]
  BY DEF ConfInv
<1>2. PICK ch : Laid(s1, ch)
  BY DEF ConfInv
<1>3. D < Len(s2) /\ s2' = s2 /\ s3' = s3
  BY DEF Conf!uf_conf_open
<1>4. line \in Conf!Lines
  <2>1. D + 1 \in 1 .. Len(s2)
    BY <1>1, <1>3
  <2>2. QED
    BY <1>1, <2>1
<1>5. into \in ConfSections /\ Conf!NoSection \notin ConfSections
  BY <1>1, ConfAssumption DEF Conf!ConfigAssumption
<1>6. \/ /\ line.title /\ s1' = Conf!g15daemon_cfg_load_section(s1, line.name)
         /\ s4' = [s4 EXCEPT !.done = @ + 1, !.at = line.name]
      \/ s5' = "split"
      \/ /\ ~line.title
         /\ s1' = Conf!g15daemon_cfg_write_string(Conf!g15daemon_cfg_load_section(s1, into),
                                                  into, line.name, Cut[line.val])
         /\ s4' = [s4 EXCEPT !.done = @ + 1, !.at = into]
  BY DEF Conf!uf_conf_open, Conf!TitleLine
<1> HIDE DEF line, into
<1>7. ASSUME NEW at \in ConfSections, s4' = [s4 EXCEPT !.done = @ + 1, !.at = at], at \in Conf!Known(s1'),
             \E dh : Laid(s1', dh)
      PROVE  ConfInv' /\ s4'.doing = "open"
  <2>1. s4' = [doing |-> "open", done |-> D + 1, at |-> at]
    BY <1>7 DEF ConfInv
  <2>2. D + 1 \in Nat
    BY <1>1
  <2> HIDE DEF D
  <2>3. QED
    BY <1>3, <1>7, <2>1, <2>2 DEF ConfInv
<1>8. CASE s5' = "split"
  BY <1>8 DEF Conf!KeepsMap
<1>9. CASE /\ line.title /\ s1' = Conf!g15daemon_cfg_load_section(s1, line.name)
           /\ s4' = [s4 EXCEPT !.done = @ + 1, !.at = line.name]
  <2> DEFINE s == line.name
  <2>1. s \in ConfSections
    BY <1>4, <1>9 DEF Conf!Lines
  <2> HIDE DEF s
  <2>2. s1' = Conf!g15daemon_cfg_load_section(s1, s) /\ s4' = [s4 EXCEPT !.done = @ + 1, !.at = s]
    BY <1>9 DEF s
  <2>3. /\ Laid(s1', ch) /\ Conf!Known(s1') = Conf!Known(s1) \cup {s}
        /\ \A t \in ConfSections : Conf!Entries(s1', t) = Conf!Entries(s1, t)
    BY <1>2, <2>1, <2>2, LoadKeeps
  <2>4. ConfInv' /\ s4'.doing = "open"
    BY <1>7, <2>1, <2>2, <2>3
  <2>5. Conf!MapContent = Conf!Content(s1) /\ Conf!MapContent' = Conf!Content(s1')
    BY <2>4, ContentRead
  <2>6. Conf!Known(s1) \subseteq ConfSections
    BY <1>2, KnownSections DEF Laid
  <2>7. CASE s \in Conf!Known(s1)
    <3>1. Conf!Known(s1') = Conf!Known(s1)
      BY <2>3, <2>7
    <3>2. Conf!Content(s1') = Conf!Content(s1)
      BY <2>3, <2>6, <3>1, ContentSame
    <3>3. QED
      BY <2>4, <2>5, <3>2 DEF Conf!KeepsMap
  <2>8. CASE s \notin Conf!Known(s1)
    <3>1. Conf!Entries(s1, s) = <<>>
      BY <1>2, <2>1, <2>8, UnknownEmpty
    <3>2. \A t \in Conf!Known(s1') : Conf!Entries(s1', t) = IF t = s THEN <<>> ELSE Conf!Entries(s1, t)
      BY <2>1, <2>3, <2>6, <3>1
    <3>3. NewIn(s1, s1', s)
      BY <2>3, <3>2, ContentNew
    <3>4. s \notin DOMAIN Conf!Content(s1)
      BY <2>8, ContentIs
    <3>5. Conf!Map!NewSection(s)
      BY <2>5, <3>3, <3>4 DEF NewIn, Conf!Map!NewSection, Conf!Map!Known
    <3>6. QED
      BY <2>1, <2>4, <3>5 DEF Conf!KeepsMap, Conf!Map!Next
  <2>9. QED
    BY <2>7, <2>8
<1>10. CASE /\ ~line.title
            /\ s1' = Conf!g15daemon_cfg_write_string(Conf!g15daemon_cfg_load_section(s1, into),
                                                     into, line.name, Cut[line.val])
            /\ s4' = [s4 EXCEPT !.done = @ + 1, !.at = into]
  <2> DEFINE k == line.name
             v == Cut[line.val]
  <2>1. k \in ConfKeys /\ line.val \in ConfValues
    BY <1>4, <1>10 DEF Conf!Lines
  <2>2. v \in ConfValues
    BY <2>1, ConfAssumption DEF Conf!ConfigAssumption
  <2> HIDE DEF k, v
  <2>3. s1' = Conf!g15daemon_cfg_write_string(Conf!g15daemon_cfg_load_section(s1, into), into, k, v)
    BY <1>10 DEF k, v
  <2>4. (\E dh : Laid(s1', dh)) /\ PutIn(s1, s1', into, k, v) /\ into \in Conf!Known(s1')
    <3>1. (\E dh : Laid(s1', dh)) /\ PutIn(s1, s1', into, k, v) /\ Conf!Known(s1') = Conf!Known(s1) \cup {into}
      BY <1>2, <1>5, <2>1, <2>2, <2>3, PutKeeps
    <3>2. QED
      BY <3>1
  <2>5. ConfInv' /\ s4'.doing = "open"
    BY <1>5, <1>7, <1>10, <2>4
  <2>6. Conf!KeepsMap
    BY <1>5, <2>1, <2>2, <2>4, <2>5, MapPut
  <2>7. QED
    BY <2>5, <2>6
<1>11. QED
  BY <1>6, <1>8, <1>9, <1>10

\* The daemon's own file: what the map has is what was saved, until all of it is read.
LEMMA ReopenStep ==
  ASSUME ConfInv, s4.doing = "reopen", Conf!uf_conf_open
  PROVE  (s5' = "no" => ConfInv') /\ Conf!KeepsMap
<1> DEFINE D == s4.done
           at == s4.at
           line == s2[D + 1]
           into == IF at = Conf!NoSection THEN Conf!Global ELSE at
<1>1. /\ D \in Nat /\ at \in ConfSections \cup {Conf!NoSection} /\ s2 \in Seq(Conf!Lines)
      /\ Conf!NoSection \notin ConfSections
  BY ConfAssumption DEF ConfInv, Conf!ConfigAssumption
<1>2. PICK ch, dh : Laid(s3, ch) /\ Laid(s1, dh)
  BY DEF ConfInv
<1>3. PICK st, j, m : FileOf(s3, s2, Len(s3.sections), st) /\ HalfRead(s3, st, s1, D, at, j, m)
  BY DEF ConfInv
<1>4. D < Len(s2) /\ s2' = s2 /\ s3' = s3
  BY DEF Conf!uf_conf_open
<1>5. \/ /\ line.title /\ s1' = Conf!g15daemon_cfg_load_section(s1, line.name)
         /\ s4' = [s4 EXCEPT !.done = @ + 1, !.at = line.name]
      \/ /\ s5' = "split" /\ s4'.doing = s4.doing
      \/ /\ ~line.title
         /\ s1' = Conf!g15daemon_cfg_write_string(Conf!g15daemon_cfg_load_section(s1, into),
                                                  into, line.name, Cut[line.val])
         /\ s4' = [s4 EXCEPT !.done = @ + 1, !.at = into]
  BY DEF ConfInv, Conf!uf_conf_open, Conf!TitleLine
<1>6. s4'.doing = "reopen" \/ s5' = "split"
  BY <1>5 DEF ConfInv
<1>7. Conf!KeepsMap
  <2>1. CASE s5' = "split"
    BY <2>1 DEF Conf!KeepsMap
  <2>2. CASE s4'.doing = "reopen"
    <3>1. UNCHANGED Conf!MapContent
      BY <1>4, <2>2 DEF Conf!MapContent
    <3>2. QED
      BY <3>1 DEF Conf!KeepsMap
  <2>3. QED
    BY <1>6, <2>1, <2>2
<1>8. ASSUME NEW b \in ConfSections, s4' = [s4 EXCEPT !.done = @ + 1, !.at = b], \E eh : Laid(s1', eh),
             NEW x, NEW y, HalfRead(s3, st, s1', D + 1, b, x, y)
      PROVE  ConfInv'
  <2>1. s4' = [doing |-> "reopen", done |-> D + 1, at |-> b]
    BY <1>8 DEF ConfInv
  <2>2. D + 1 \in Nat
    BY <1>1
  <2> HIDE DEF D
  <2>3. \E su : /\ FileOf(s3', s2', Len(s3'.sections), su)
                /\ \E p, q : HalfRead(s3', su, s1', s4'.done, s4'.at, p, q)
    <3>1. FileOf(s3', s2', Len(s3'.sections), st)
      BY <1>3, <1>4
    <3>2. HalfRead(s3', st, s1', s4'.done, s4'.at, x, y)
      <4>1. s3' = s3 /\ s4'.done = D + 1 /\ s4'.at = b
        BY <1>4, <2>1
      <4>2. HalfRead(s3, st, s1', D + 1, b, x, y)
        BY <1>8
      <4>3. QED
        BY <4>1, <4>2
    <3>3. QED
      BY <3>1, <3>2
  <2>4. \E eh : Laid(s3', eh)
    BY <1>2, <1>4
  <2>5. QED
    BY <1>1, <1>4, <1>8, <2>1, <2>2, <2>3, <2>4 DEF ConfInv
<1> HIDE DEF D, at
<1>9. Title(s3, s2, st, D, at, j, m) \/ Entry(s3, s2, D, at, j, m)
  BY <1>1, <1>2, <1>3, <1>4, NextLine
<1>10. CASE Title(s3, s2, st, D, at, j, m)
  <2> DEFINE s == line.name
  <2>0. line = Conf!Line(TRUE, s3.sections[j + 1], Conf!Blank) /\ j + 1 \in 1 .. Len(s3.sections)
    BY <1>10 DEF Title
  <2>1. line.title = TRUE /\ s = s3.sections[j + 1]
    BY <2>0 DEF Conf!Line
  <2>2. s3.sections \in Seq(ConfSections)
    BY <1>2 DEF Laid, Typed
  <2>3. s \in ConfSections
    <3>1. \A x \in 1 .. Len(s3.sections) : s3.sections[x] \in ConfSections
      BY <2>2
    <3> HIDE DEF s, line
    <3>2. QED
      BY <2>0, <2>1, <3>1
  <2> DEFINE b == Conf!g15daemon_cfg_load_section(s1, s)
  <2>4. HalfRead(s3, st, b, D + 1, s, j + 1, 0)
    BY <1>1, <1>2, <1>3, <1>4, <2>1, ReadTitle
  <2>5. Laid(b, dh)
    BY <1>2, <2>3, LoadKeeps
  <2>6. s5' = "split" \/ (s1' = b /\ s4' = [s4 EXCEPT !.done = @ + 1, !.at = s])
    BY <1>5, <2>1
  <2> HIDE DEF b, s
  <2>7. CASE s5' = "split"
    BY <2>7, <1>7
  <2>8. CASE s1' = b /\ s4' = [s4 EXCEPT !.done = @ + 1, !.at = s]
    BY <1>7, <1>8, <2>3, <2>4, <2>5, <2>8
  <2>9. QED
    BY <2>6, <2>7, <2>8
<1>11. CASE Entry(s3, s2, D, at, j, m)
  <2> DEFINE k == line.name
             v == Cut[line.val]
  <2>1. line.title = FALSE
    BY <1>11 DEF Entry, ItemLine, Conf!Line
  <2>2. /\ at \in Conf!Known(s1) /\ at \in ConfSections
        /\ k \in ConfKeys /\ v \in ConfValues
        /\ \A b : /\ b.sections = s1.sections
                  /\ \A t \in ConfSections :
                       Conf!Entries(b, t) = IF t = at THEN Conf!Map!Updated(Conf!Entries(s1, at), k, v)
                                            ELSE Conf!Entries(s1, t)
                  => HalfRead(s3, st, b, D + 1, at, j, m + 1)
    BY <1>1, <1>2, <1>3, <1>4, <1>11, ReadItem
  <2>3. into = at
    BY <1>1, <2>2
  <2> HIDE DEF k, v
  <2> DEFINE b == Conf!g15daemon_cfg_write_string(s1, at, k, v)
  <2>4. s1 = Conf!g15daemon_cfg_load_section(s1, at)
    BY <2>2 DEF Conf!g15daemon_cfg_load_section, Conf!Known
  <2>5. s5' = "split" \/ (s1' = b /\ s4' = [s4 EXCEPT !.done = @ + 1, !.at = at])
    BY <1>5, <2>1, <2>3, <2>4 DEF k, v
  <2>6. /\ \E eh : Laid(b, eh)
        /\ b.sections = s1.sections
        /\ \A t \in ConfSections :
              Conf!Entries(b, t) = IF t = at THEN Conf!Map!Updated(Conf!Entries(s1, at), k, v)
                                   ELSE Conf!Entries(s1, t)
    BY <1>2, <2>2, WriteKeeps
  <2> HIDE DEF b
  <2>7. HalfRead(s3, st, b, D + 1, at, j, m + 1)
    BY <2>2, <2>6
  <2>8. CASE s5' = "split"
    BY <2>8, <1>7
  <2>9. CASE s1' = b /\ s4' = [s4 EXCEPT !.done = @ + 1, !.at = at]
    BY <1>7, <1>8, <2>2, <2>6, <2>7, <2>9
  <2>10. QED
    BY <2>5, <2>8, <2>9
<1>12. QED
  BY <1>9, <1>10, <1>11

LEMMA OpenedStep ==
  ASSUME ConfInv, Conf!Opened
  PROVE  ConfInv' /\ Conf!KeepsMap
<1>1. /\ s4.doing \in {"open", "reopen"} /\ s4.done = Len(s2) /\ s1' = s1 /\ s2' = <<>> /\ s3' = Conf!Empty
      /\ s4' = [doing |-> "run", done |-> 0, at |-> Conf!NoSection]
  BY DEF Conf!Opened, Conf!Opening
<1>2. ConfInv'
  <2>1. \E ch : Laid(s3', ch)
    BY <1>1, EmptyLaid
  <2>2. s2' \in Seq(Conf!Lines)
    BY <1>1
  <2>3. QED
    BY <1>1, <2>1, <2>2 DEF ConfInv
<1>3. CASE s4.doing = "open"
  <2>1. UNCHANGED Conf!MapContent
    BY <1>1, <1>3 DEF Conf!MapContent
  <2>2. QED
    BY <1>2, <2>1 DEF Conf!KeepsMap
<1>4. CASE s4.doing = "reopen"
  <2>1. PICK ch, dh : Laid(s3, ch) /\ Laid(s1, dh)
    BY DEF ConfInv
  <2>2. PICK st, j, m : FileOf(s3, s2, Len(s3.sections), st) /\ HalfRead(s3, st, s1, Len(s2), s4.at, j, m)
    BY <1>1, <1>4 DEF ConfInv
  <2>3. Conf!Known(s1) = Conf!Known(s3) /\ \A s \in Conf!Known(s3) : Conf!Entries(s1, s) = Reread(s3, s)
    BY <2>1, <2>2, AllRead
  <2>4. RereadIn(s3, s1)
    BY <2>1, <2>3, ContentReread
  <2>5. Conf!MapContent = Conf!Content(s3) /\ Conf!MapContent' = Conf!Content(s1)
    BY <1>1, <1>4 DEF Conf!MapContent
  <2>6. Conf!Map!SaveAndLoad
    BY <2>4, <2>5 DEF RereadIn, Conf!Map!SaveAndLoad, Conf!Map!Known
  <2>7. QED
    BY <1>2, <2>6 DEF Conf!KeepsMap, Conf!Map!Next
<1>5. QED
  BY <1>1, <1>3, <1>4

LEMMA ConfStep ==
  ASSUME ConfInv, Conf!Next
  PROVE  (s5' = "no" => ConfInv') /\ Conf!KeepsMap
<1>1. ASSUME NEW s \in ConfSections, NEW k \in ConfKeys, NEW v \in Given, Conf!Write(s, k, v) \/ Conf!Read(s, k, v)
      PROVE  (s5' = "no" => ConfInv') /\ Conf!KeepsMap
  BY <1>1, WriteStep
<1>2. ASSUME NEW s \in ConfSections, Conf!LoadSection(s) PROVE (s5' = "no" => ConfInv') /\ Conf!KeepsMap
  BY <1>2, LoadSectionStep
<1>3. ASSUME NEW s \in ConfSections, NEW k \in ConfKeys, Conf!RemoveKey(s, k)
      PROVE  (s5' = "no" => ConfInv') /\ Conf!KeepsMap
  BY <1>3, RemoveKeyStep
<1>4. CASE Conf!Truncate
  BY <1>4, TruncateStep
<1>5. CASE Conf!uf_conf_write
  BY <1>5, ConfWriteStep
<1>6. CASE Conf!uf_conf_free
  BY <1>6, FreeStep
<1>7. CASE Conf!uf_conf_open
  <2>1. s4.doing = "open" \/ s4.doing = "reopen"
    BY <1>7 DEF Conf!uf_conf_open, Conf!Opening
  <2>2. QED
    BY <1>7, <2>1, OpenStep, ReopenStep
<1>8. CASE Conf!Opened
  BY <1>8, OpenedStep
<1>9. QED
  BY <1>1, <1>2, <1>3, <1>4, <1>5, <1>6, <1>7, <1>8 DEF Conf!Next

LEMMA ConfInit ==
  ASSUME Conf!Init
  PROVE  ConfInv /\ Conf!Map!Init
<1>1. /\ s2 \in UserFiles /\ s1 = Conf!Empty /\ s3 = Conf!Empty
      /\ s4 = [doing |-> "open", done |-> 0, at |-> Conf!NoSection]
  BY DEF Conf!Init
<1>2. s2 \in Seq(Conf!Lines)
  BY <1>1, ConfAssumption DEF Conf!ConfigAssumption
<1>3. ConfInv
  BY <1>1, <1>2, EmptyLaid DEF ConfInv
<1>4. Conf!Known(s1) = {}
  BY <1>1, EmptyLaid, KnownSections DEF Laid, Conf!Empty
<1>5. Conf!MapContent = [s \in {} |-> <<>>]
  <2>1. Conf!MapContent = [s \in Conf!Known(s1) |-> Conf!Entries(s1, s)]
    BY <1>1 DEF Conf!MapContent, Conf!Content, Conf!Known
  <2>2. QED
    BY <1>4, <2>1
<1>6. QED
  BY <1>3, <1>5 DEF Conf!Map!Init

(* Whatever the daemon and its plugins write, read, remove, save and load, for    *)
(* any sections, keys and values and any user's file, the linked items do what    *)
(* the configuration promises, until it is broken (Config, ConfigMap).            *)
THEOREM ConfigImplements == PartSpec => ImplementsMap
<1> DEFINE Inv == part = "config" /\ s5 = "no" => ConfInv
<1>1. PartInit => Inv /\ (part = "config" => Conf!Map!Init)
  BY ConfInit DEF PartInit
<1>2. ASSUME Inv, [PartNext]_partvars
      PROVE  Inv' /\ [part = "config" => Conf!KeepsMap]_partvars
  <2>1. CASE UNCHANGED partvars
    BY <1>2, <2>1 DEF partvars, from1, from3, from5, from6, from7, from9, ConfInv
  <2>2. CASE PartNext /\ part # "config"
    BY <2>2 DEF PartNext
  <2>3. CASE PartNext /\ part = "config"
    <3>1. Conf!Next
      BY <2>3 DEF PartNext
    <3>2. s5 = "no"
      BY <3>1 DEF Conf!Next
    <3>3. QED
      BY <1>2, <2>3, <3>1, <3>2, ConfStep
  <2>4. QED
    BY <1>2, <2>1, <2>2, <2>3
<1>3. QED
  BY <1>1, <1>2, PTL DEF PartSpec, ImplementsMap

---------------------------------------------------------------------------
(* The key path. *)
\* Past the dispatch an event has no cycle key, which is what keeps it from uinput and
\* from the remote handler.
PastDispatch == event.step \in {"os", "remote", "release"} => CycleKey \notin event.value

\* Between the calls of a replay its screen has the press and is not the key handler, or
\* it became the key handler with the press.
TakenOver ==
  (event.step = "release" /\ event.screen = remote /\ remote \in Clients
     /\ CycleKey \in told[remote]) => remote \in behind

\* clicktime is never older than the press of the cycle key.
ClickYounger == CycleKey \in lastkeys /\ clickOld => holdOld

\* The inductive invariant.
IInv == TypeOK /\ EdgesExact /\ CycleKeyNotStuck /\ PastDispatch /\ TakenOver /\ ClickYounger

USE KeysAssumption
USE DEF vars, user, clock, clients, sent, os, Screens, NoHandler, NoEvent, Steps, Running, At,
        Dispatched, Handled, PastDispatch, TakenOver, ClickYounger

LEMMA InitIInv == Init => IInv
<1> SUFFICES ASSUME Init PROVE IInv
  OBVIOUS
<1> USE DEF Init
<1>1. told \in [Clients -> SUBSET Keys]
  OBVIOUS
<1>2. event \in [step : Steps, value : SUBSET Keys, screen : Screens, freed : BOOLEAN]
  OBVIOUS
<1>3. TypeOK
  BY <1>1, <1>2 DEF TypeOK
<1>4. EdgesExact
  BY DEF EdgesExact
<1>5. CycleKeyNotStuck
  BY DEF CycleKeyNotStuck
<1>6. PastDispatch /\ TakenOver /\ ClickYounger
  OBVIOUS
<1>7. QED
  BY <1>3, <1>4, <1>5, <1>6 DEF IInv

\* The user and the clock touch no receiver.
LEMMA WorldIInv == ASSUME IInv, User \/ HalfSecond PROVE IInv'
<1> USE DEF IInv, TypeOK, EdgesExact, CycleKeyNotStuck
<1>1. CASE User
  BY <1>1 DEF User, Press, Unpress
<1>2. CASE HalfSecond
  BY <1>2 DEF HalfSecond
<1>3. QED
  BY <1>1, <1>2

\* A client that goes takes its role as key handler with it.
LEMMA ClientIInv == ASSUME IInv, ClientThreads PROVE IInv'
<1> USE DEF IInv, TypeOK, EdgesExact, CycleKeyNotStuck
<1>1. CASE Reorder
  BY <1>1 DEF Reorder, Shown
<1>2. ASSUME NEW c \in Clients, Connect(c) PROVE IInv'
  BY <1>2 DEF Connect
<1>3. ASSUME NEW c \in Clients, Disconnect(c) PROVE IInv'
  BY <1>3 DEF Disconnect, HandlerAfter, Shown
<1>4. ASSUME NEW c \in Clients, TakeKeys(c) PROVE IInv'
  BY <1>4 DEF TakeKeys
<1>5. QED
  BY <1>1, <1>2, <1>3, <1>4 DEF ClientThreads

\* What a client is sent becomes the last it was told; without the cycle key, it has nothing
\* to wait for.
LEMMA SendKeeps ==
  ASSUME IInv, NEW c \in Screens, NEW v \in SUBSET Keys, Send(c, v)
  PROVE  /\ told' \in [Clients -> SUBSET Keys] /\ behind' \subseteq Clients
         /\ behind' = behind \ {c}
         /\ \A d \in Clients : told'[d] = IF d = c THEN v ELSE told[d]
BY DEF Send, IInv, TypeOK

LEMMA KeyboardIInv == ASSUME IInv, KeyboardThread PROVE IInv'
<1> USE DEF IInv, TypeOK, EdgesExact, CycleKeyNotStuck
<1>0. event.value \in SUBSET Keys /\ event.screen \in Screens
  OBVIOUS
<1>1. CASE ReadKeys
  BY <1>1 DEF ReadKeys
<1>2. CASE DropOnTail
  BY <1>2 DEF DropOnTail
<1>3. CASE TellScreen
  <2>1. /\ UNCHANGED <<held, seen, lastkeys, clickOld, holdOld, open, current, remote, uinputLast,
                       osDown, fault>>
        /\ event' = [event EXCEPT !.step = "os"] /\ CycleKey \notin event.value
    BY <1>3 DEF TellScreen, Plain
  <2>2. CASE event.screen # remote
    <3>1. Send(event.screen, event.value)
      BY <1>3, <2>2 DEF TellScreen, SendTo
    <3>2. QED
      BY <1>0, <1>3, <2>1, <3>1, SendKeeps
  <2>3. CASE event.screen = remote
    BY <1>3, <2>1, <2>3 DEF TellScreen, SendTo
  <2>4. QED
    BY <2>2, <2>3
<1>4. CASE TellOs
  BY <1>4 DEF TellOs, Ups, Downs, Remembered
<1>5. CASE TellRemote
  <2>1. /\ UNCHANGED <<held, clickOld, holdOld, open, current, remote, uinputLast, osDown, fault>>
        /\ event' = NoEvent /\ seen' = event.value /\ lastkeys' = event.value
        /\ CycleKey \notin event.value
    BY <1>5 DEF TellRemote
  <2>2. CASE RemoteGets
    <3>1. Send(remote, event.value) /\ remote \in Screens
      BY <1>5, <2>2 DEF TellRemote
    <3>2. /\ told' \in [Clients -> SUBSET Keys] /\ behind' \subseteq Clients
          /\ behind' = behind \ {remote}
          /\ \A d \in Clients : told'[d] = IF d = remote THEN event.value ELSE told[d]
      BY <1>0, <3>1, SendKeeps
    <3>3. event.step = "remote"
      BY <1>5 DEF TellRemote
    <3>4. CycleKeyNotStuck'
      BY <2>1, <3>2, <3>3
    <3>5. QED
      BY <2>1, <3>2, <3>4
  <2>3. CASE ~RemoteGets
    BY <1>5, <2>1, <2>3 DEF TellRemote
  <2>4. QED
    BY <2>2, <2>3
<1>6. CASE CycleDown
  BY <1>6 DEF CycleDown, ClickAfter
<1>7. CASE Click
  BY <1>7 DEF Click, CycleUp
<1>8. CASE ReplayPress
  <2>1. /\ UNCHANGED <<held, seen, lastkeys, clickOld, holdOld, open, current, remote, uinputLast,
                       osDown, fault>>
        /\ event' = [event EXCEPT !.step = "release"] /\ CycleKey \notin event.value
        /\ event.step = "dispatch"
    BY <1>8 DEF ReplayPress, CycleUp
  <2>2. CASE event.screen # remote
    <3>1. Send(event.screen, event.value \union {CycleKey})
      BY <1>8, <2>2 DEF ReplayPress, SendTo
    <3>2. /\ told' \in [Clients -> SUBSET Keys] /\ behind' \subseteq Clients
          /\ behind' = behind \ {event.screen}
          /\ \A d \in Clients : d # event.screen => told'[d] = told[d]
      BY <1>0, <3>1, SendKeeps
    <3>3. event'.step = "release" /\ event'.screen = event.screen /\ event'.value = event.value
      BY <2>1
    <3>4. CycleKeyNotStuck'
      BY <2>1, <3>2, <3>3
    <3>5. TakenOver' /\ PastDispatch'
      BY <2>1, <2>2, <3>3
    <3>6. QED
      BY <2>1, <3>2, <3>4, <3>5
  <2>3. CASE event.screen = remote
    BY <1>8, <2>1, <2>3 DEF ReplayPress, SendTo
  <2>4. QED
    BY <2>2, <2>3
<1>9. CASE ReplayRelease
  <2>1. /\ UNCHANGED <<held, clickOld, holdOld, open, current, remote, uinputLast, osDown, fault>>
        /\ event' = NoEvent /\ seen' = event.value /\ lastkeys' = event.value
        /\ CycleKey \notin event.value /\ event.step = "release"
    BY <1>9 DEF ReplayRelease
  <2>2. CASE event.screen # remote
    <3>1. Send(event.screen, Released(event.value))
      BY <1>9, <2>2 DEF ReplayRelease, SendTo
    <3>2. /\ told' \in [Clients -> SUBSET Keys] /\ behind' \subseteq Clients
          /\ behind' = behind \ {event.screen}
          /\ \A d \in Clients : told'[d] = IF d = event.screen THEN Released(event.value) ELSE told[d]
      BY <1>0, <3>1, SendKeeps DEF Released
    <3>3. CycleKey \notin Released(event.value)
      BY DEF Released
    <3>4. CycleKeyNotStuck'
      BY <2>1, <3>2, <3>3
    <3>5. QED
      BY <2>1, <3>2, <3>4
  <2>3. CASE event.screen = remote
    <3>1. UNCHANGED <<told, behind>>
      BY <1>9, <2>3 DEF ReplayRelease, SendTo
    <3>2. CycleKeyNotStuck'
      BY <2>1, <2>3, <3>1
    <3>3. QED
      BY <2>1, <3>1, <3>2
  <2>4. QED
    BY <2>2, <2>3
<1>10. CASE UseFreed
  BY <1>10 DEF UseFreed
<1>11. CASE ReplayOnTail
  BY <1>11 DEF ReplayOnTail
<1>12. QED
  BY <1>1, <1>2, <1>3, <1>4, <1>5, <1>6, <1>7, <1>8, <1>9, <1>10, <1>11 DEF KeyboardThread

LEMMA NextIInv == IInv /\ [Next]_vars => IInv'
<1> SUFFICES ASSUME IInv, [Next]_vars PROVE IInv'
  OBVIOUS
<1>1. CASE User \/ HalfSecond
  BY <1>1, WorldIInv
<1>2. CASE ClientThreads
  BY <1>2, ClientIInv
<1>3. CASE KeyboardThread
  BY <1>3, KeyboardIInv
<1>4. CASE UNCHANGED vars
  BY <1>4 DEF IInv, TypeOK, EdgesExact, CycleKeyNotStuck
<1>5. QED
  BY <1>1, <1>2, <1>3, <1>4 DEF Next

LEMMA Invariance == Spec => []IInv
BY InitIInv, NextIInv, PTL DEF Spec

\* Every variable keeps its type; the key handler is always a connected client.
THEOREM KeyTypes == Spec => []TypeOK
<1>1. IInv => TypeOK
  BY DEF IInv
<1>2. QED
  BY <1>1, Invariance, PTL

\* The operating system's keys are those of the last value the uinput plugin was told,
\* for any set of keys and any sequence of values.
THEOREM KeyEdges == Spec => []EdgesExact
<1>1. IInv => EdgesExact
  BY DEF IInv
<1>2. QED
  BY <1>1, Invariance, PTL

\* Who is left with the cycle key down took the keys over between the press and the
\* release of a replay, and was sent nothing since; the operating system never is.
THEOREM KeyCycleHidden == Spec => []CycleKeyNotStuck
<1>1. IInv => CycleKeyNotStuck
  BY DEF IInv
<1>2. QED
  BY <1>1, Invariance, PTL

\* A replay answers a press of at least half a second.
THEOREM KeyClick == Spec => ClickNotReplayed
<1>1. IInv /\ [Next]_vars => [ReplayPress => holdOld]_vars
  BY DEF IInv, ReplayPress, CycleUp
<1>2. QED
  BY <1>1, Invariance, PTL DEF Spec, ClickNotReplayed

\* Downs and ups alternate, and the cycle key's press is followed by its release but for that
\* one takeover, for any keys and clients.
THEOREM KeyInvariant == Spec => []KeysSound
<1>1. IInv => KeysSound
  BY DEF IInv, KeysSound
<1>2. QED
  BY <1>1, Invariance, PTL

=============================================================================
