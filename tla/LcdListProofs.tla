---------------------------- MODULE LcdListProofs ----------------------------
(***************************************************************************)
(* Proofs about LcdList for every set of clients: the types, the links,    *)
(* the client count and the user's flag.                                   *)
(***************************************************************************)
EXTENDS LcdList, FiniteSetTheorems, SequenceTheorems, WellFoundedInduction, TLAPS

\* The inductive invariant: what ListSound and RingIntact say together.
IInv == ListSound /\ RingIntact

USE NodesAssumption DEF Screen

\* The allocated client nodes are finitely many, so the counting laws apply to them.
LEMMA AllocatedFinite ==
  ASSUME allocated \subseteq Screen
  PROVE  IsFiniteSet(allocated \ {Tail0})
<1>1. allocated \ {Tail0} \subseteq Clients
  OBVIOUS
<1>2. QED
  BY <1>1, FS_Subset

\* A set of naturals has a least element: the form that induction takes here.
LEMMA LeastNat ==
  ASSUME NEW T, T \subseteq Nat, T # {}
  PROVE  \E k \in T : \A j \in T : k <= j
<1>1. \A R : IsWellFoundedOn(R, Nat) => \E k \in T : \A j \in T : <<j, k>> \notin R
  BY WFMin
<1>2. PICK k \in T : \A j \in T : <<j, k>> \notin OpToRel(<, Nat)
  BY <1>1, NatLessThanWellFounded
<1>3. \A j \in T : ~(j < k)
  BY <1>2 DEF OpToRel
<1>4. QED
  BY <1>3

\* Following the links p from an element of s leads to the one before it.
Descends(s, p, N) == \A i \in 1..N : p[s[i + 1]] = s[i]

\* Two sequences with the same last element that descend by the same links are equal.
LEMMA SameStack ==
  ASSUME NEW N \in Nat, NEW A, NEW p,
         NEW s \in [1..N + 1 -> A], NEW t \in [1..N + 1 -> A],
         s[N + 1] = t[N + 1], Descends(s, p, N), Descends(t, p, N)
  PROVE  s = t
<1> DEFINE Differ == {k \in 0..N : s[N + 1 - k] # t[N + 1 - k]}
<1>1. ASSUME Differ # {} PROVE FALSE
  <2>0. Differ \subseteq Nat
    OBVIOUS
  <2>1. PICK k \in Differ : \A j \in Differ : k <= j
    <3> HIDE DEF Differ
    <3>1. QED
      BY <1>1, <2>0, LeastNat
  <2>3. k \in 1..N
    BY <2>1
  <2>4. k - 1 \notin Differ
    <3>1. k - 1 \in Int /\ k \in Int /\ ~(k <= k - 1)
      BY <2>3
    <3> HIDE DEF Differ
    <3>2. QED
      BY <2>1, <3>1
  <2>5. s[N + 1 - (k - 1)] = t[N + 1 - (k - 1)]
    BY <2>3, <2>4
  <2>6. N + 1 - k \in 1..N /\ (N + 1 - k) + 1 = N + 1 - (k - 1)
    BY <2>3
  <2>7. s[N + 1 - k] = t[N + 1 - k]
    BY <2>5, <2>6 DEF Descends
  <2>8. QED
    BY <2>1, <2>7
<1>2. \A i \in 1..N + 1 : s[i] = t[i]
  <2>1. ASSUME NEW i \in 1..N + 1 PROVE s[i] = t[i]
    <3>1. N + 1 - i \in 0..N /\ N + 1 - (N + 1 - i) = i
      OBVIOUS
    <3>2. N + 1 - i \notin Differ
      BY <1>1
    <3>3. QED
      BY <3>1, <3>2
  <2>2. QED
    BY <2>1
<1>3. QED
  BY <1>2
\* What Append and RemoveAt do, element by element.
Appended(s, N, n) == [i \in 1..N + 1 |-> IF i = N + 1 THEN n ELSE s[i]]
Without(s, N, k) == [i \in 1..N |-> IF i < k THEN s[i] ELSE s[i + 1]]

LEMMA AppendIs ==
  ASSUME NEW N \in Nat, NEW A, NEW s \in [1..N -> A], NEW n
  PROVE  Append(s, n) = Appended(s, N, n)
<1> DEFINE B == A \union {n}
<1>1. s \in Seq(B) /\ Len(s) = N /\ n \in B
  OBVIOUS
<1> HIDE DEF B
<1>2. /\ Append(s, n) \in Seq(B) /\ Len(Append(s, n)) = N + 1
      /\ \A i \in 1..N : Append(s, n)[i] = s[i]
      /\ Append(s, n)[N + 1] = n
  BY <1>1, AppendProperties
<1>3. Append(s, n) \in [1..N + 1 -> B]
  BY <1>2, LenProperties
<1>4. \A i \in 1..N + 1 : Append(s, n)[i] = IF i = N + 1 THEN n ELSE s[i]
  BY <1>2
<1>5. QED
  BY <1>3, <1>4 DEF Appended
LEMMA RemoveAtIs ==
  ASSUME NEW N \in Nat, NEW A, NEW s \in [1..N + 1 -> A], NEW k \in 1..N + 1
  PROVE  RemoveAt(s, k) = Without(s, N, k)
<1> DEFINE a == SubSeq(s, 1, k - 1)
           b == SubSeq(s, k + 1, N + 1)
<1>0. Len(s) = N + 1
  OBVIOUS
<1>1. a \in Seq(A) /\ Len(a) = k - 1 /\ \A i \in 1..k - 1 : a[i] = s[i]
  OBVIOUS
<1>2. b \in Seq(A) /\ Len(b) = N + 1 - k /\ \A i \in 1..N + 1 - k : b[i] = s[k + i]
  OBVIOUS
<1>3. RemoveAt(s, k) = a \o b
  BY <1>0 DEF RemoveAt
<1> HIDE DEF a, b
<1>4. /\ a \o b \in Seq(A) /\ Len(a \o b) = N
      /\ \A i \in 1..N : (a \o b)[i] = IF i <= k - 1 THEN a[i] ELSE b[i - (k - 1)]
  <2>1. a \in Seq(A) /\ b \in Seq(A)
    BY <1>1, <1>2
  <2>2. /\ a \o b \in Seq(A) /\ Len(a \o b) = Len(a) + Len(b)
        /\ \A i \in 1..Len(a) + Len(b) :
             (a \o b)[i] = IF i <= Len(a) THEN a[i] ELSE b[i - Len(a)]
    BY <2>1, ConcatProperties
  <2>3. Len(a) = k - 1 /\ Len(a) + Len(b) = N
    BY <1>1, <1>2
  <2>4. QED
    BY <2>2, <2>3
<1>5. a \o b \in [1..N -> A]
  BY <1>4, LenProperties
<1>6. \A i \in 1..N : (a \o b)[i] = IF i < k THEN s[i] ELSE s[i + 1]
  <2>1. ASSUME NEW i \in 1..N, i < k PROVE (a \o b)[i] = s[i]
    BY <1>1, <1>4, <2>1
  <2>2. ASSUME NEW i \in 1..N, ~(i < k) PROVE (a \o b)[i] = s[i + 1]
    <3>1. i - (k - 1) \in 1..N + 1 - k /\ k + (i - (k - 1)) = i + 1
      BY <2>2
    <3>2. (a \o b)[i] = b[i - (k - 1)]
      BY <1>4, <2>2
    <3>3. QED
      BY <1>2, <3>1, <3>2
  <2>3. QED
    BY <2>1, <2>2
<1>7. QED
  BY <1>3, <1>5, <1>6 DEF Without
-----------------------------------------------------------------------------
(* The stack that the links spell. *)

\* While the ring is intact, the links spell a stack.
LEMMA StackStacks ==
  ASSUME RingIntact
  PROVE  Stack \in [1..numclients + 1 -> allocated] /\ Stacks(Stack)
BY DEF RingIntact, Stack

\* They spell one at most.
LEMMA StackIs ==
  ASSUME numclients \in Nat, NEW s \in [1..numclients + 1 -> allocated], Stacks(s)
  PROVE  Stack = s
<1>1. Stack \in [1..numclients + 1 -> allocated] /\ Stacks(Stack)
  BY DEF Stack
<1>2. s[numclients + 1] = Stack[numclients + 1]
  BY <1>1 DEF Stacks
<1>3. Descends(s, prev, numclients) /\ Descends(Stack, prev, numclients)
  BY <1>1 DEF Descends, Stacks
<1>4. QED
  BY <1>1, <1>2, <1>3, SameStack

\* The same of the next state.
LEMMA StackWillBe ==
  ASSUME numclients' \in Nat, NEW s \in [1..numclients' + 1 -> allocated'], Stacks(s)'
  PROVE  Stack' = s
<1>1. Stack' \in [1..numclients' + 1 -> allocated'] /\ Stacks(Stack)'
  BY DEF Stack
<1>2. s[numclients' + 1] = Stack'[numclients' + 1]
  BY <1>1 DEF Stacks
<1>3. Descends(s, prev', numclients') /\ Descends(Stack', prev', numclients')
  BY <1>1 DEF Descends, Stacks
<1>4. QED
  BY <1>1, <1>2, <1>3, SameStack

\* A section that changes no link keeps the stack.
LEMMA StackKept ==
  ASSUME UNCHANGED <<allocated, head, prev, next, numclients>>
  PROVE  (RingIntact => RingIntact') /\ Stack' = Stack
BY DEF RingIntact, Stack, Stacks

\* Going up the stack and down again follows next and prev.
LEMMA StackLinks ==
  ASSUME RingIntact, numclients \in Nat
  PROVE  /\ \A i \in 1..numclients : next[Stack[i]] = Stack[i + 1]
         /\ \A i \in 1..numclients : prev[Stack[i + 1]] = Stack[i]
<1>1. PICK s \in [1..numclients + 1 -> allocated] :
        Stacks(s) /\ \A i \in 1..numclients : next[s[i]] = s[i + 1]
  BY DEF RingIntact
<1>2. Stack = s
  BY <1>1, StackIs
<1>3. QED
  BY <1>1, <1>2 DEF Stacks

\* Linking a node in above the head appends it to the stack.
LEMMA AddRing ==
  ASSUME IInv, NEW n \in Clients, LcdnodeAdd(n)
  PROVE  RingIntact' /\ Stack' = Append(Stack, n)
<1> USE DEF IInv, ListSound
<1>1. PICK N \in Nat : N = numclients
  BY DEF TypeOK
<1>2. PICK s \in [1..N + 1 -> allocated] : s = Stack
  BY <1>1, StackStacks
<1>3. /\ s[1] = Tail0 /\ s[N + 1] = head /\ IsInjective(s) /\ ToSet(s) = allocated
      /\ \A i \in 1..N : prev[s[i + 1]] = s[i]
  BY <1>1, <1>2, StackStacks DEF Stacks
<1> DEFINE t == [i \in 1..N + 2 |-> IF i = N + 2 THEN n ELSE s[i]]
<1>4. t = Append(s, n)
  <2>1. PICK M \in Nat : M = N + 1
    OBVIOUS
  <2>2. s \in [1..M -> allocated]
    BY <2>1
  <2>3. Append(s, n) = Appended(s, M, n)
    BY <2>2, AppendIs
  <2>4. QED
    BY <2>1, <2>3 DEF Appended
<1>5. t \in [1..N + 2 -> allocated'] /\ numclients' = N + 1
  BY <1>1 DEF LcdnodeAdd
<1>6. IsInjective(t)
  BY <1>3 DEF IsInjective, LcdnodeAdd
<1>7. ToSet(t) = allocated'
  <2>1. \A i \in 1..N + 1 : t[i] = s[i]
    OBVIOUS
  <2>2. \A m \in allocated : \E i \in 1..N + 1 : m = s[i]
    BY <1>3 DEF ToSet
  <2>3. t[N + 2] = n /\ DOMAIN t = 1..N + 2
    OBVIOUS
  <2>4. \A m \in allocated' : m \in ToSet(t)
    BY <2>1, <2>2, <2>3 DEF ToSet, LcdnodeAdd
  <2>5. ToSet(t) \subseteq allocated'
    BY <1>5 DEF ToSet
  <2>6. QED
    BY <2>4, <2>5
<1>8. \A i \in 1..N + 1 : prev'[t[i + 1]] = t[i]
  BY <1>1, <1>3 DEF LcdnodeAdd, TypeOK
<1>9. \A i \in 1..N + 1 : next'[t[i]] = t[i + 1]
  <2>1. \A i \in 1..N : next'[t[i]] = t[i + 1]
    <3>1. ASSUME NEW i \in 1..N PROVE next'[t[i]] = t[i + 1]
      <4>1. s[i + 1] \in allocated \ {Tail0} /\ s[i] \in allocated /\ s[i] # head
        BY <1>3, <3>1 DEF IsInjective
      <4>2. next[s[i]] = s[i + 1]
        BY <1>3, <4>1 DEF LinksConsistent
      <4>3. next'[s[i]] = next[s[i]]
        BY <4>1 DEF LcdnodeAdd, TypeOK
      <4>4. QED
        BY <4>2, <4>3
    <3>2. QED
      BY <3>1
  <2>2. next'[t[N + 1]] = t[N + 2]
    BY <1>3 DEF LcdnodeAdd, TypeOK
  <2>3. \A i \in 1..N + 1 : i \in 1..N \/ (i = N + 1 /\ i + 1 = N + 2)
    OBVIOUS
  <2> HIDE DEF t
  <2>4. QED
    BY <2>1, <2>2, <2>3
<1>10. Stacks(t)'
  BY <1>3, <1>5, <1>6, <1>7, <1>8 DEF Stacks, LcdnodeAdd
<1>11. next'[head'] = Tail0
  BY DEF LcdnodeAdd, TypeOK
<1>12. Stack' = t
  BY <1>5, <1>10, StackWillBe
<1>13. RingIntact'
  <2> HIDE DEF t
  <2>1. t \in [1..numclients' + 1 -> allocated']
    BY <1>5
  <2>2. \A i \in 1..numclients' : next'[t[i]] = t[i + 1]
    BY <1>5, <1>9
  <2>3. QED
    BY <1>10, <1>11, <2>1, <2>2 DEF RingIntact
<1>14. QED
  BY <1>2, <1>4, <1>12, <1>13

\* Unlinking a node takes it out of the stack and leaves the others in their order.
LEMMA RemoveRing ==
  ASSUME IInv, NEW n \in Clients, LcdnodeRemove(n),
         NEW k \in 1..numclients + 1, Stack[k] = n
  PROVE  RingIntact' /\ Stack' = RemoveAt(Stack, k)
<1> USE DEF IInv, ListSound
<1>1. PICK N \in Nat : N = numclients
  BY DEF TypeOK
<1>2. PICK s \in [1..N + 1 -> allocated] : s = Stack
  BY <1>1, StackStacks
<1>3. /\ s[1] = Tail0 /\ s[N + 1] = head /\ ToSet(s) = allocated
      /\ \A i, j \in 1..N + 1 : s[i] = s[j] => i = j
  BY <1>1, <1>2, StackStacks DEF Stacks, IsInjective
<1>4. \A i \in 1..N : next[s[i]] = s[i + 1] /\ prev[s[i + 1]] = s[i]
  BY <1>1, <1>2, StackLinks
<1>5. k \in 2..N + 1 /\ N \in Nat \ {0} /\ s[k] = n
  BY <1>1, <1>2, <1>3
<1>6. prev[n] = s[k - 1] /\ (k <= N => next[n] = s[k + 1]) /\ (head = n <=> k = N + 1)
  <2>1. k - 1 \in 1..N /\ (k - 1) + 1 = k
    BY <1>5
  <2>2. QED
    BY <1>3, <1>4, <1>5, <2>1
<1> DEFINE t == [i \in 1..N |-> IF i < k THEN s[i] ELSE s[i + 1]]
<1>7. RemoveAt(Stack, k) = t
  <2>1. k \in 1..N + 1
    BY <1>1
  <2>2. RemoveAt(s, k) = Without(s, N, k)
    BY <2>1, RemoveAtIs
  <2>3. QED
    BY <1>2, <2>2 DEF Without
<1>8. \A i \in 1..N : t[i] = IF i < k THEN s[i] ELSE s[i + 1]
  OBVIOUS
<1>9. numclients' = N - 1 /\ N - 1 \in Nat /\ allocated' = allocated \ {n}
  BY <1>1, <1>5 DEF LcdnodeRemove, Unlink
<1>10. t \in [1..N -> allocated']
  <2>1. \A i \in 1..N : t[i] \in allocated /\ t[i] # n
    BY <1>3, <1>5, <1>8
  <2>2. QED
    BY <1>9, <2>1
<1> HIDE DEF t
<1>11. IsInjective(t)
  BY <1>3, <1>5, <1>8, <1>10 DEF IsInjective
<1>12. ToSet(t) = allocated'
  <2>1. \A i \in 1..N + 1 : s[i] # n => \E j \in 1..N : t[j] = s[i]
    <3>1. ASSUME NEW i \in 1..N + 1, s[i] # n PROVE \E j \in 1..N : t[j] = s[i]
      <4>1. i # k
        BY <1>5, <3>1
      <4>2. CASE i < k
        <5>1. i \in 1..N /\ t[i] = s[i]
          BY <1>5, <1>8, <4>2
        <5>2. QED
          BY <5>1
      <4>3. CASE i > k
        <5>1. i - 1 \in 1..N /\ ~(i - 1 < k) /\ (i - 1) + 1 = i
          BY <1>5, <4>3
        <5>2. t[i - 1] = s[i]
          BY <1>8, <5>1
        <5>3. QED
          BY <5>1, <5>2
      <4>4. QED
        BY <1>5, <4>1, <4>2, <4>3
    <3>2. QED
      BY <3>1
  <2>2. \A m \in allocated : \E i \in 1..N + 1 : m = s[i]
    BY <1>3 DEF ToSet
  <2>3. \A m \in allocated' : m \in ToSet(t)
    BY <1>9, <1>10, <2>1, <2>2 DEF ToSet
  <2>4. ToSet(t) \subseteq allocated'
    BY <1>10 DEF ToSet
  <2>5. QED
    BY <2>3, <2>4
<1>13. t[1] = Tail0 /\ t[N] = head'
  <2>1. t[1] = s[1]
    BY <1>5, <1>8
  <2>2. CASE k = N + 1
    BY <1>3, <1>5, <1>6, <1>8, <2>1, <2>2 DEF LcdnodeRemove, Unlink
  <2>3. CASE k # N + 1
    BY <1>3, <1>5, <1>6, <1>8, <2>1, <2>3 DEF LcdnodeRemove, Unlink
  <2>4. QED
    BY <2>2, <2>3
<1>14. \A i \in 1..N - 1 : prev'[t[i + 1]] = t[i] /\ next'[t[i]] = t[i + 1]
  <2> SUFFICES ASSUME NEW i \in 1..N - 1
               PROVE  prev'[t[i + 1]] = t[i] /\ next'[t[i]] = t[i + 1]
    OBVIOUS
  <2>1. i \in 1..N /\ i + 1 \in 1..N /\ i + 2 \in 1..N + 1 /\ (i + 1) + 1 = i + 2
    BY <1>5
  <2>2. s[i] \in Screen /\ s[i + 1] \in Screen /\ s[i + 2] \in Screen /\ n \in Screen
    BY <2>1 DEF TypeOK
  <2>3. CASE i + 1 < k
    <3>1. t[i] = s[i] /\ t[i + 1] = s[i + 1]
      BY <1>8, <2>1, <2>3
    <3>2. /\ s[i] # n /\ s[i + 1] # n /\ s[i] # prev[n]
          /\ head # n => s[i + 1] # next[n]
      BY <1>3, <1>5, <1>6, <2>1, <2>3
    <3>3. prev'[s[i + 1]] = prev[s[i + 1]] /\ next'[s[i]] = next[s[i]]
      BY <2>2, <3>2 DEF LcdnodeRemove, Unlink, TypeOK
    <3>4. QED
      BY <1>4, <2>1, <3>1, <3>3
  <2>4. CASE i + 1 = k
    <3>1. t[i] = s[i] /\ t[i + 1] = s[i + 2] /\ k <= N /\ head # n
      BY <1>5, <1>6, <1>8, <2>1, <2>4
    <3>2. s[i] = prev[n] /\ s[i + 2] = next[n] /\ s[i] # n /\ s[i + 2] # n
      BY <1>3, <1>5, <1>6, <2>1, <2>4, <3>1
    <3>3. prev'[s[i + 2]] = prev[n] /\ next'[s[i]] = next[n]
      BY <2>2, <3>1, <3>2 DEF LcdnodeRemove, Unlink, TypeOK
    <3>4. QED
      BY <3>1, <3>2, <3>3
  <2>5. CASE i + 1 > k
    <3>1. t[i] = s[i + 1] /\ t[i + 1] = s[i + 2]
      BY <1>5, <1>8, <2>1, <2>5
    <3>2. /\ s[i + 1] # n /\ s[i + 2] # n /\ s[i + 1] # prev[n]
          /\ head # n => s[i + 2] # next[n]
      BY <1>3, <1>5, <1>6, <2>1, <2>5
    <3>3. prev'[s[i + 2]] = prev[s[i + 2]] /\ next'[s[i + 1]] = next[s[i + 1]]
      BY <2>2, <3>2 DEF LcdnodeRemove, Unlink, TypeOK
    <3>4. QED
      BY <1>4, <2>1, <3>1, <3>3
  <2>6. QED
    BY <1>5, <2>3, <2>4, <2>5
<1>15. next'[head'] = Tail0
  <2>1. CASE head = n
    BY <1>3, <1>5, <1>6, <2>1 DEF LcdnodeRemove, Unlink, TypeOK, LinksConsistent
  <2>2. CASE head # n
    <3>1. head # prev[n]
      BY <1>3, <1>5, <1>6, <2>2
    <3>2. QED
      BY <2>2, <3>1 DEF LcdnodeRemove, Unlink, TypeOK, LinksConsistent
  <2>3. QED
    BY <2>1, <2>2
<1>16. (N - 1) + 1 = N
  OBVIOUS
<1>17. t \in [1..numclients' + 1 -> allocated'] /\ Stacks(t)'
  BY <1>9, <1>10, <1>11, <1>12, <1>13, <1>14, <1>16 DEF Stacks
<1>18. Stack' = t
  BY <1>9, <1>17, StackWillBe
<1>19. RingIntact'
  <2>1. \A i \in 1..numclients' : next'[t[i]] = t[i + 1]
    BY <1>9, <1>14
  <2>2. QED
    BY <1>15, <1>17, <2>1 DEF RingIntact
<1>20. QED
  BY <1>7, <1>18, <1>19

-----------------------------------------------------------------------------
(* Walking down the stack. *)

\* Every open node stands at one place of the stack.
LEMMA PlaceIs ==
  ASSUME RingIntact, numclients \in Nat, NEW m \in allocated
  PROVE  /\ Screens!Place(Stack, m) \in 1..numclients + 1
         /\ Stack[Screens!Place(Stack, m)] = m
         /\ \A i \in 1..numclients + 1 : Stack[i] = m => Screens!Place(Stack, m) = i
         /\ Stack \in Seq(allocated) /\ Len(Stack) = numclients + 1
<1>1. Stack \in [1..numclients + 1 -> allocated] /\ Stacks(Stack)
  BY StackStacks
<1>2. DOMAIN Stack = 1..numclients + 1
  BY <1>1
<1>3. \E i \in 1..numclients + 1 : Stack[i] = m
  BY <1>1, <1>2 DEF Stacks, ToSet
<1>4. Screens!Place(Stack, m) \in 1..numclients + 1 /\ Stack[Screens!Place(Stack, m)] = m
  BY <1>2, <1>3 DEF Screens!Place
<1>5. Stack \in Seq(allocated) /\ Len(Stack) = numclients + 1
  BY <1>1
<1>6. \A i \in 1..numclients + 1 : Stack[i] = m => Screens!Place(Stack, m) = i
  BY <1>1, <1>2, <1>4 DEF Stacks, IsInjective
<1>7. QED
  BY <1>4, <1>5, <1>6

\* The cycle key's step goes one screen down, and numclients + 1 steps go once round.
LEMMA BelowIs ==
  ASSUME RingIntact, numclients \in Nat, NEW m \in allocated
  PROVE  /\ Screens!Below(Stack, m, 0) = m
         /\ Screens!Below(Stack, m, numclients + 1) = m
         /\ \A d \in 0..numclients :
              /\ Screens!Below(Stack, m, d) \in allocated
              /\ Older(Screens!Below(Stack, m, d)) = Screens!Below(Stack, m, d + 1)
<1>1. PICK N \in Nat : N = numclients
  OBVIOUS
<1>2. PICK s \in [1..N + 1 -> allocated] : s = Stack
  BY <1>1, StackStacks
<1>3. PICK p \in 1..N + 1 : p = Screens!Place(Stack, m) /\ s[p] = m
  BY <1>1, <1>2, PlaceIs
<1>4. Len(Stack) = N + 1
  BY <1>1, PlaceIs
<1>5. \A d \in 0..N + 1 :
        Screens!Below(Stack, m, d) = s[IF p - d >= 1 THEN p - d ELSE p - d + (N + 1)]
  BY <1>2, <1>3, <1>4 DEF Screens!Below
<1>6. /\ s[1] = Tail0 /\ s[N + 1] = head
      /\ \A i, j \in 1..N + 1 : s[i] = s[j] => i = j
      /\ \A i \in 1..N : prev[s[i + 1]] = s[i]
  BY <1>1, <1>2, StackStacks DEF Stacks, IsInjective
<1>7. Screens!Below(Stack, m, 0) = m
  BY <1>3, <1>5
<1>8. Screens!Below(Stack, m, N + 1) = m
  <2>1. ~(p - (N + 1) >= 1) /\ p - (N + 1) + (N + 1) = p /\ N + 1 \in 0..N + 1
    BY <1>3
  <2>2. QED
    BY <1>3, <1>5, <2>1
<1>9. \A i \in 1..N + 1 : Older(s[i]) = IF i = 1 THEN s[N + 1] ELSE s[i - 1]
  <2>1. ASSUME NEW i \in 1..N + 1 PROVE Older(s[i]) = IF i = 1 THEN s[N + 1] ELSE s[i - 1]
    <3>1. CASE i = 1
      BY <1>6, <3>1 DEF Older
    <3>2. CASE i # 1
      <4>1. i - 1 \in 1..N /\ (i - 1) + 1 = i
        BY <2>1, <3>2
      <4>2. s[i] # Tail0 /\ prev[s[i]] = s[i - 1]
        BY <1>6, <3>2, <4>1
      <4>3. QED
        BY <3>2, <4>2 DEF Older
    <3>3. QED
      BY <3>1, <3>2
  <2>2. QED
    BY <2>1
<1>10. ASSUME NEW d \in 0..N
       PROVE  /\ Screens!Below(Stack, m, d) \in allocated
              /\ Older(Screens!Below(Stack, m, d)) = Screens!Below(Stack, m, d + 1)
  <2> DEFINE i == IF p - d >= 1 THEN p - d ELSE p - d + (N + 1)
  <2>1. i \in 1..N + 1
    BY <1>3
  <2>2. Screens!Below(Stack, m, d) = s[i]
    BY <1>5
  <2>3. d + 1 \in 0..N + 1
    OBVIOUS
  <2>4. Screens!Below(Stack, m, d + 1) = s[IF p - (d + 1) >= 1 THEN p - (d + 1) ELSE p - (d + 1) + (N + 1)]
    BY <1>5, <2>3
  <2>5. (IF p - (d + 1) >= 1 THEN p - (d + 1) ELSE p - (d + 1) + (N + 1)) = IF i = 1 THEN N + 1 ELSE i - 1
    BY <1>3
  <2> HIDE DEF i
  <2>6. Older(s[i]) = IF i = 1 THEN s[N + 1] ELSE s[i - 1]
    BY <1>9, <2>1
  <2>7. Screens!Below(Stack, m, d + 1) = s[IF i = 1 THEN N + 1 ELSE i - 1]
    BY <2>4, <2>5
  <2>8. Older(s[i]) = Screens!Below(Stack, m, d + 1)
    BY <2>6, <2>7
  <2>9. QED
    BY <2>1, <2>2, <2>8
<1>11. QED
  BY <1>1, <1>7, <1>8, <1>10

-----------------------------------------------------------------------------
(* Every section of the mutex keeps the invariant. *)

\* In the beginning the stack is the daemon's own screen.
LEMMA InitRing == Init => RingIntact /\ Stack = <<Tail0>>
<1> SUFFICES ASSUME Init PROVE RingIntact /\ Stack = <<Tail0>>
  OBVIOUS
<1>1. numclients \in Nat /\ <<Tail0>> \in [1..numclients + 1 -> allocated]
  BY DEF Init
<1>2. Stacks(<<Tail0>>)
  BY DEF Init, Stacks, IsInjective, ToSet
<1>3. Stack = <<Tail0>>
  BY <1>1, <1>2, StackIs
<1>4. RingIntact
  BY <1>1, <1>2 DEF Init, RingIntact
<1>5. QED
  BY <1>3, <1>4

LEMMA InitIInv == Init => IInv
<1> SUFFICES ASSUME Init PROVE IInv
  OBVIOUS
<1> USE DEF Init
<1>1. TypeOK
  BY DEF TypeOK, KbdPC
<1>2. LinksConsistent
  BY DEF LinksConsistent
<1>3. ClientCount
  <2>1. allocated \ {Tail0} = {}
    OBVIOUS
  <2>2. QED
    BY <2>1, FS_EmptySet DEF ClientCount
<1>4. UserFlagUnique /\ FlagsClear /\ HiddenOpen /\ SkipsHidden
  BY DEF UserFlagUnique, FlagsClear, HiddenOpen, SkipsHidden
<1>5. QED
  BY <1>1, <1>2, <1>3, <1>4, InitRing DEF IInv, ListSound

\* Linking a node in above the head keeps the list.
LEMMA AddIInv == ASSUME IInv, NEW n \in Clients, LcdnodeAdd(n) PROVE IInv'
<1> USE DEF IInv, ListSound, LcdnodeAdd
<1>1. TypeOK'
  BY DEF TypeOK
<1>2. LinksConsistent'
  BY DEF TypeOK, LinksConsistent
<1>3. ClientCount'
  <2>1. allocated' \ {Tail0} = (allocated \ {Tail0}) \union {n}
    BY DEF TypeOK
  <2>2. n \notin allocated \ {Tail0} /\ IsFiniteSet(allocated \ {Tail0})
    BY AllocatedFinite DEF TypeOK
  <2>3. Cardinality(allocated' \ {Tail0}) = Cardinality(allocated \ {Tail0}) + 1
    BY <2>1, <2>2, FS_AddElement
  <2>4. QED
    BY <2>3 DEF ClientCount
<1>4. UserFlagUnique' /\ FlagsClear' /\ HiddenOpen'
  BY DEF UserFlagUnique, FlagsClear, HiddenOpen
<1>5. RingIntact'
  BY AddRing
<1>6. SkipsHidden'
  BY DEF SkipsHidden, Unlocked
<1>7. QED
  BY <1>1, <1>2, <1>3, <1>4, <1>5, <1>6

\* Unlinking a node joins its neighbours, whether it stands at the head or not.
LEMMA RemoveIInv == ASSUME IInv, NEW n \in Clients, LcdnodeRemove(n) PROVE IInv'
<1> USE DEF IInv, ListSound, LcdnodeRemove
<1>1. LinksConsistent'
  <2>1. CASE head = n
    BY <2>1 DEF TypeOK, LinksConsistent, Unlink
  <2>2. CASE head # n
    BY <2>2 DEF TypeOK, LinksConsistent, Unlink
  <2>3. QED
    BY <2>1, <2>2
<1>2. Cardinality(allocated' \ {Tail0}) = Cardinality(allocated \ {Tail0}) - 1
      /\ Cardinality(allocated' \ {Tail0}) \in Nat
  <2>1. allocated' \ {Tail0} = (allocated \ {Tail0}) \ {n}
    OBVIOUS
  <2>2. n \in allocated \ {Tail0} /\ IsFiniteSet(allocated \ {Tail0})
    BY AllocatedFinite DEF TypeOK
  <2>3. IsFiniteSet((allocated \ {Tail0}) \ {n})
    BY <2>2, FS_RemoveElement
  <2>4. QED
    BY <2>1, <2>2, <2>3, FS_RemoveElement, FS_CardinalityType
<1>3. ClientCount'
  BY <1>2 DEF ClientCount, Unlink
<1>4. TypeOK'
  <2>1. numclients' \in Nat
    BY <1>2, <1>3 DEF ClientCount
  <2>2. /\ ShownAfter(n) \in Screen
        /\ head' \in Screen
        /\ prev' \in [Screen -> Screen \union {NULL}]
        /\ next' \in [Screen -> Screen \union {NULL}]
    BY DEF TypeOK, LinksConsistent, ShownAfter, Unlink
  <2>3. QED
    BY <2>1, <2>2 DEF TypeOK
<1>5. UserFlagUnique' /\ FlagsClear' /\ HiddenOpen'
  BY DEF UserFlagUnique, FlagsClear, HiddenOpen
<1>6. RingIntact'
  <2>1. Stack \in [1..numclients + 1 -> allocated] /\ Stacks(Stack)
    BY StackStacks
  <2>2. PICK i \in 1..numclients + 1 : Stack[i] = n
    BY <2>1 DEF Stacks, ToSet
  <2>3. QED
    BY <2>2, RemoveRing
<1>7. SkipsHidden'
  BY DEF SkipsHidden, Unlocked
<1>8. QED
  BY <1>1, <1>3, <1>4, <1>5, <1>6, <1>7

\* A priority request moves only current and the client's own last_priority.
LEMMA PriorityIInv == ASSUME IInv, NEW n \in Clients, ReqPriority(n) PROVE IInv'
<1> USE DEF IInv, ListSound, ReqPriority
<1>1. TypeOK'
  <2>1. GiveBack(n) \in Screen
    BY DEF TypeOK, LinksConsistent, GiveBack
  <2>2. QED
    BY <2>1 DEF TypeOK
<1>2. LinksConsistent' /\ ClientCount'
  BY DEF LinksConsistent, ClientCount
<1>3. UserFlagUnique' /\ FlagsClear' /\ HiddenOpen'
  BY DEF UserFlagUnique, FlagsClear, HiddenOpen
<1>4. RingIntact' /\ SkipsHidden'
  BY StackKept DEF SkipsHidden, Unlocked
<1>5. QED
  BY <1>1, <1>2, <1>3, <1>4

\* Marking a client never-selectable touches no link.
LEMMA NeverSelectIInv == ASSUME IInv, NEW n \in Clients, NeverSelect(n) PROVE IInv'
<1> USE DEF IInv, ListSound, NeverSelect
<1>1. TypeOK' /\ LinksConsistent' /\ ClientCount'
  BY DEF TypeOK, LinksConsistent, ClientCount, list
<1>2. UserFlagUnique' /\ FlagsClear' /\ HiddenOpen'
  BY DEF UserFlagUnique, FlagsClear, HiddenOpen, list
<1>3. RingIntact' /\ SkipsHidden'
  BY StackKept DEF SkipsHidden, Unlocked, list
<1>4. QED
  BY <1>1, <1>2, <1>3

\* A round of the cycle key's loop goes one screen on from a screen that it skips.
LEMMA RoundSkips == ASSUME IInv, CycleRound PROVE SkipsHidden'
<1> USE DEF IInv, ListSound
<1>1. Stack' = Stack /\ allocated' = allocated /\ numclients' = numclients
  BY StackKept DEF CycleRound
<1>2. \A x : Selectable(x)' = Selectable(x)
  BY DEF CycleRound, Selectable
<1>3. SUFFICES ASSUME kbd'.pc = "skip", kbd'.ptr \in allocated
               PROVE  \E d \in 0..numclients :
                        /\ current' = Screens!Below(Stack, kbd'.ptr, d)
                        /\ \A e \in 1..d : ~Selectable(Screens!Below(Stack, kbd'.ptr, e))
  BY <1>1, <1>2 DEF SkipsHidden, Screens!Below, Screens!Place
<1>4. kbd' = kbd /\ kbd.pc = "skip" /\ numclients \in Nat
  BY <1>3 DEF CycleRound, TypeOK
<1>5. PICK d \in 0..numclients :
        /\ current = Screens!Below(Stack, kbd.ptr, d)
        /\ \A e \in 1..d : ~Selectable(Screens!Below(Stack, kbd.ptr, e))
  BY <1>3, <1>4 DEF SkipsHidden
<1>6. /\ current \in allocated
      /\ Older(current) = Screens!Below(Stack, kbd.ptr, d + 1)
  BY <1>3, <1>4, <1>5, BelowIs
<1>7. current' = Screens!Below(Stack, kbd.ptr, d + 1) /\ ~Selectable(current')
  BY <1>3, <1>4, <1>6 DEF CycleRound
<1>8. CASE d = numclients
  <2>1. current' = Screens!Below(Stack, kbd.ptr, 0)
    BY <1>3, <1>4, <1>7, <1>8, BelowIs
  <2>2. 0 \in 0..numclients /\ 1..0 = {}
    BY <1>4
  <2>3. QED
    BY <1>4, <2>1, <2>2
<1>9. CASE d # numclients
  <2>1. d + 1 \in 0..numclients /\ 1..d + 1 = (1..d) \union {d + 1}
    BY <1>4, <1>9
  <2>2. QED
    BY <1>4, <1>5, <1>7, <2>1
<1>10. QED
  BY <1>8, <1>9

\* The keyboard thread leaves the links alone and sets at most one flag.
LEMMA KeyboardIInv == ASSUME IInv, KeyboardStep PROVE IInv'
<1> USE DEF IInv, ListSound, KbdPC
<1>1. RingIntact' /\ LinksConsistent' /\ ClientCount'
  <2>1. UNCHANGED <<allocated, head, prev, next, numclients>>
    BY DEF KeyboardStep, Cycling, KeyEvent, CycleLock, CycleRound, MarkSelected, list
  <2>2. QED
    BY <2>1, StackKept DEF LinksConsistent, ClientCount
<1>2. CASE KeyEvent
  <2>1. TypeOK' /\ UserFlagUnique' /\ FlagsClear' /\ HiddenOpen'
    BY <1>2 DEF KeyEvent, TypeOK, UserFlagUnique, FlagsClear, HiddenOpen, list
  <2>2. SkipsHidden'
    BY <1>2 DEF KeyEvent, SkipsHidden
  <2>3. QED
    BY <1>1, <2>1, <2>2
<1>3. CASE CycleLock
  <2>1. TypeOK' /\ UserFlagUnique' /\ FlagsClear' /\ HiddenOpen'
    BY <1>3 DEF CycleLock, TypeOK, UserFlagUnique, FlagsClear, HiddenOpen, list
  <2>2. SkipsHidden'
    <3>1. Stack' = Stack /\ UNCHANGED <<allocated, numclients>>
          /\ kbd'.ptr = current /\ current' = current
      BY <1>3, StackKept DEF CycleLock, list
    <3>2. current \in allocated => Screens!Below(Stack, current, 0) = current
      BY BelowIs DEF TypeOK
    <3>3. 0 \in 0..numclients /\ 1..0 = {}
      BY DEF TypeOK
    <3>4. current \in allocated =>
            (\E d \in 0..numclients :
               /\ current = Screens!Below(Stack, kbd.ptr, d)
               /\ \A e \in 1..d : ~Selectable(Screens!Below(Stack, kbd.ptr, e)))'
      BY <3>1, <3>2, <3>3 DEF Screens!Below, Screens!Place
    <3>5. QED
      BY <3>1, <3>4 DEF SkipsHidden
  <2>3. QED
    BY <1>1, <2>1, <2>2
<1>4. CASE CycleRound
  <2>1. current \in allocated => Older(current) \in Screen
    BY DEF TypeOK, LinksConsistent, Older
  <2>2. TypeOK'
    <3>1. CASE current \notin allocated
      BY <1>4, <3>1 DEF CycleRound, TypeOK
    <3>2. CASE current \in allocated /\ Selectable(Older(current))
      BY <1>4, <2>1, <3>2 DEF CycleRound, TypeOK, FlagsAfterWalk
    <3>3. CASE current \in allocated /\ ~Selectable(Older(current))
      BY <1>4, <2>1, <3>3 DEF CycleRound, TypeOK, FlagsAfterWalk
    <3>4. QED
      BY <3>1, <3>2, <3>3
  <2>3. UserFlagUnique' /\ FlagsClear' /\ HiddenOpen'
    BY <1>4 DEF CycleRound, UserFlagUnique, FlagsClear, HiddenOpen, FlagsAfterWalk
  <2>4. QED
    BY <1>1, <1>4, <2>2, <2>3, RoundSkips
<1>5. CASE MarkSelected
  <2>1. TypeOK' /\ HiddenOpen'
    BY <1>5 DEF MarkSelected, TypeOK, HiddenOpen, list
  <2>2. kbd'.pc = "idle"
    BY <1>5 DEF MarkSelected, TypeOK
  <2>3. UserFlagUnique' /\ FlagsClear' /\ SkipsHidden'
    BY <1>5, <2>2 DEF MarkSelected, UserFlagUnique, FlagsClear, SkipsHidden, list
  <2>4. QED
    BY <1>1, <2>1, <2>3
<1>6. QED
  BY <1>2, <1>3, <1>4, <1>5 DEF KeyboardStep, Cycling

LEMMA NextIInv == IInv /\ [Next]_vars => IInv'
<1> SUFFICES ASSUME IInv, [Next]_vars PROVE IInv'
  OBVIOUS
<1>1. ASSUME NEW n \in Clients, ClientStep(n) PROVE IInv'
  <2>1. CASE LcdnodeAdd(n)
    BY <2>1, AddIInv
  <2>2. CASE LcdnodeRemove(n)
    BY <2>2, RemoveIInv
  <2>3. CASE NeverSelect(n)
    BY <2>3, NeverSelectIInv
  <2>4. CASE ReqPriority(n)
    BY <2>4, PriorityIInv
  <2>5. QED
    BY <1>1, <2>1, <2>2, <2>3, <2>4 DEF ClientStep
<1>2. CASE KeyboardStep
  BY <1>2, KeyboardIInv
<1>3. CASE UNCHANGED vars
  <2>1. RingIntact' /\ Stack' = Stack
    BY <1>3, StackKept DEF IInv, vars, list
  <2>2. SkipsHidden'
    BY <1>3, <2>1 DEF IInv, ListSound, SkipsHidden, Screens!Below, Screens!Place, Selectable,
                      vars, list
  <2>3. TypeOK' /\ LinksConsistent' /\ ClientCount'
    BY <1>3 DEF IInv, ListSound, TypeOK, LinksConsistent, ClientCount, vars, list
  <2>4. UserFlagUnique' /\ FlagsClear' /\ HiddenOpen'
    BY <1>3 DEF IInv, ListSound, UserFlagUnique, FlagsClear, HiddenOpen, vars, list
  <2>5. QED
    BY <2>1, <2>2, <2>3, <2>4 DEF IInv, ListSound
<1>4. QED
  BY <1>1, <1>2, <1>3 DEF Next

LEMMA Invariance == Spec => []IInv
BY InitIInv, NextIInv, PTL DEF Spec

\* Every variable keeps its type, whatever the clients do.
THEOREM ListTypes == Spec => []TypeOK
<1>1. IInv => TypeOK
  BY DEF IInv, ListSound
<1>2. QED
  BY <1>1, Invariance, PTL

\* prev and next stay inverse to each other on the open nodes for any number of
\* clients and any interleaving of the sections of lcdlist_mutex.
THEOREM ListLinks == Spec => []LinksConsistent
<1>1. IInv => LinksConsistent
  BY DEF IInv, ListSound
<1>2. QED
  BY <1>1, Invariance, PTL

\* numclients is exact, so the cycle key skips the daemon's own screen exactly when
\* there is a client.
THEOREM ListCount == Spec => []ClientCount
<1>1. IInv => ClientCount
  BY DEF IInv, ListSound
<1>2. QED
  BY <1>1, Invariance, PTL

\* At most one open screen claims to be the user's choice.
THEOREM ListUserFlag == Spec => []UserFlagUnique
<1>1. IInv => UserFlagUnique
  BY DEF IInv, ListSound
<1>2. QED
  BY <1>1, Invariance, PTL

\* Links, count and flags of the list agree for any number of clients.
THEOREM ListInvariant == Spec => []ListSound
<1>1. IInv => ListSound
  BY DEF IInv
<1>2. QED
  BY <1>1, Invariance, PTL

\* For any number of clients, and whatever they do, a walk over the list meets every
\* open node once and comes back to where it began.
THEOREM ListRing == Spec => []RingIntact
<1>1. IInv => RingIntact
  BY DEF IInv
<1>2. QED
  BY <1>1, Invariance, PTL

-----------------------------------------------------------------------------
(* The list implements the stack of screens, section by section. *)

\* The abstract stack promises nothing once freed memory was used or is shown.
Failed == fault \/ Shown \notin allocated

\* Opening a screen appends it and shows it.
LEMMA AddOpens ==
  ASSUME IInv, NEW n \in Clients, LcdnodeAdd(n), ~Failed, ~Failed'
  PROVE  Screens!Open(n)
<1> USE DEF IInv, ListSound
<1>1. Stack' = Append(Stack, n)
  BY AddRing
<1>2. Stacks(Stack) /\ Len(Stack) = numclients + 1 /\ DOMAIN Stack = 1..numclients + 1
  BY StackStacks DEF TypeOK
<1>3. ~Contains(Stack, n)
  BY <1>2 DEF Contains, Stacks, ToSet, LcdnodeAdd
<1>4. Shown' = n
  BY DEF LcdnodeAdd, Shown, Unlocked
<1>5. neverSelect' = neverSelect \ {n}
  BY DEF LcdnodeAdd, HiddenOpen
<1>6. (fault \/ Shown \notin allocated)' = (fault \/ Shown \notin allocated)
  BY DEF Failed
<1>7. QED
  BY <1>1, <1>3, <1>4, <1>5, <1>6 DEF Screens!Open, Screens!Contains, Contains

\* Closing a screen takes it out and shows its neighbour if it was shown.
LEMMA RemoveCloses ==
  ASSUME IInv, NEW n \in Clients, LcdnodeRemove(n), ~Failed, ~Failed'
  PROVE  Screens!Close(n)
<1> USE DEF IInv, ListSound
<1>1. PICK k \in 1..numclients + 1 : k = Screens!Place(Stack, n) /\ Stack[k] = n
  BY PlaceIs DEF LcdnodeRemove, TypeOK
<1>2. Stack' = RemoveAt(Stack, k)
  BY <1>1, RemoveRing
<1>3. /\ Stack[1] = Tail0 /\ Stack[numclients + 1] = head
      /\ \A i, j \in 1..numclients + 1 : Stack[i] = Stack[j] => i = j
  BY StackStacks DEF Stacks, IsInjective, TypeOK
<1>4. Len(Stack) = numclients + 1 /\ Contains(Stack, n) /\ numclients \in Nat
  BY <1>1, PlaceIs DEF Contains, LcdnodeRemove, TypeOK
<1>5. Shown = current /\ Shown' = current' /\ n # Tail0
  BY DEF LcdnodeRemove, Shown, Unlocked
<1>6. k # 1 /\ (n = head <=> k = numclients + 1)
  BY <1>1, <1>3, <1>4, <1>5
<1>7. prev[n] = Stack[k - 1] /\ (n # head => next[n] = Stack[k + 1])
  <2>1. k - 1 \in 1..numclients /\ (k - 1) + 1 = k /\ (n # head => k \in 1..numclients)
    BY <1>4, <1>6
  <2>2. QED
    BY <1>1, <1>4, <2>1, StackLinks
<1>8. Shown' = IF Shown # n THEN Shown
               ELSE IF k = Len(Stack) THEN Stack[k - 1] ELSE Stack[k + 1]
  BY <1>4, <1>5, <1>6, <1>7 DEF LcdnodeRemove, ShownAfter
<1>9. neverSelect' = neverSelect \ {n}
  BY DEF LcdnodeRemove
<1>10. (fault \/ Shown \notin allocated)' = (fault \/ Shown \notin allocated)
  BY DEF Failed
<1>11. QED
  BY <1>1, <1>2, <1>4, <1>8, <1>9, <1>10
     DEF Screens!Close, Screens!Contains, Contains, Screens!RemoveAt, RemoveAt

\* A priority request toggles the client's screen to the front and back.
LEMMA PriorityToggles ==
  ASSUME IInv, NEW n \in Clients, ReqPriority(n), ~Failed, ~Failed'
  PROVE  Screens!Toggle(n)
<1> USE DEF IInv, ListSound
<1>1. Stack' = Stack /\ neverSelect' = neverSelect
  BY StackKept DEF ReqPriority
<1>2. Shown = current /\ Shown' = current' /\ current' \in allocated
  BY DEF ReqPriority, Shown, Unlocked, Failed
<1>3. Contains(Stack, n) /\ ToSet(Stack) = allocated
  BY PlaceIs, StackStacks DEF Contains, ReqPriority, TypeOK, Stacks
<1>4. current = n => current' # n
  <2>1. prev[n] # n
    <3>1. n \in allocated /\ n # Tail0
      BY DEF ReqPriority
    <3>2. PICK k \in 1..numclients + 1 : Stack[k] = n
      BY <3>1, PlaceIs DEF TypeOK
    <3>3. /\ Stack[1] = Tail0
          /\ \A i, j \in 1..numclients + 1 : Stack[i] = Stack[j] => i = j
      BY StackStacks DEF Stacks, IsInjective, TypeOK
    <3>4. k - 1 \in 1..numclients /\ (k - 1) + 1 = k /\ k - 1 \in 1..numclients + 1 /\ k # k - 1
      BY <3>1, <3>2, <3>3 DEF TypeOK
    <3>5. prev[n] = Stack[k - 1]
      BY <3>2, <3>4, StackLinks DEF TypeOK
    <3>6. QED
      BY <3>2, <3>3, <3>4, <3>5
  <2>2. QED
    BY <2>1 DEF ReqPriority, GiveBack
<1>5. (Shown # n /\ Shown' = n) \/ (Shown = n /\ Shown' \in ToSet(Stack) \ {n})
  BY <1>2, <1>3, <1>4 DEF ReqPriority
<1>6. (fault \/ Shown \notin allocated)' = (fault \/ Shown \notin allocated)
  BY DEF Failed
<1>7. QED
  BY <1>1, <1>3, <1>5, <1>6 DEF Screens!Toggle, Screens!Contains, Contains, Screens!ToSet, ToSet

LEMMA NeverSelectHides ==
  ASSUME IInv, NEW n \in Clients, NeverSelect(n), ~Failed, ~Failed'
  PROVE  Screens!NeverSelect(n)
<1> USE DEF IInv, ListSound
<1>1. Stack' = Stack /\ Shown' = Shown /\ neverSelect' = neverSelect \union {n}
  BY StackKept DEF NeverSelect, Shown, list
<1>2. Contains(Stack, n)
  BY PlaceIs DEF Contains, NeverSelect, TypeOK
<1>3. (fault \/ Shown \notin allocated)' = (fault \/ Shown \notin allocated)
  BY DEF Failed
<1>4. QED
  BY <1>1, <1>2, <1>3 DEF Screens!NeverSelect, Screens!Contains, Contains

\* The round that ends the cycle shows the nearest older screen that may be selected;
\* the rounds before it show nothing.
LEMMA RoundCycles ==
  ASSUME IInv, CycleRound, ~Failed, ~Failed'
  PROVE  Screens!Cycle \/ UNCHANGED Screens!vars
<1> USE DEF IInv, ListSound
<1>1. Stack' = Stack /\ neverSelect' = neverSelect /\ numclients \in Nat
  BY StackKept DEF CycleRound, TypeOK
<1>2. (fault \/ Shown \notin allocated)' = (fault \/ Shown \notin allocated)
  BY DEF Failed
<1>3. Shown = kbd.ptr /\ kbd.pc = "skip" /\ kbd.ptr \in allocated
  BY DEF CycleRound, Shown, Failed
<1>4. PICK d \in 0..numclients :
        /\ current = Screens!Below(Stack, kbd.ptr, d)
        /\ \A e \in 1..d : ~Selectable(Screens!Below(Stack, kbd.ptr, e))
  BY <1>3 DEF SkipsHidden
<1>5. current \in allocated /\ Older(current) = Screens!Below(Stack, kbd.ptr, d + 1)
  BY <1>1, <1>3, <1>4, BelowIs
<1>6. CASE ~Selectable(Older(current))
  <2>1. Shown' = Shown
    BY <1>3, <1>5, <1>6 DEF CycleRound, Shown
  <2>2. QED
    BY <1>1, <1>2, <2>1 DEF Screens!vars
<1>7. CASE Selectable(Older(current))
  <2>1. Shown' = Screens!Below(Stack, Shown, d + 1) /\ Selectable(Shown')
    BY <1>3, <1>5, <1>7 DEF CycleRound, Shown
  <2>2. Len(Stack) = numclients + 1
    BY <1>1, <1>3, PlaceIs
  <2>3. \A x : Screens!MayStopOn(Stack, x) <=> Selectable(x)
    BY <1>1, <2>2 DEF Screens!MayStopOn, Selectable
  <2>4. d + 1 \in 1..Len(Stack) /\ 1..(d + 1) - 1 = 1..d
    BY <1>1, <2>2
  <2>5. QED
    BY <1>1, <1>2, <1>3, <1>4, <2>1, <2>3, <2>4 DEF Screens!Cycle
<1>8. QED
  BY <1>6, <1>7

LEMMA InitRefines == Init => Screens!Init
<1> SUFFICES ASSUME Init PROVE Screens!Init
  OBVIOUS
<1>1. Shown = Tail0 /\ (fault \/ Shown \notin allocated) = FALSE
  BY DEF Init, Shown
<1>2. QED
  BY <1>1, InitRing DEF Init, Screens!Init

\* Every step of the list is a step of the stack, or changes nothing of it.
LEMMA NextRefines == IInv /\ [Next]_vars => [Screens!Next]_Screens!vars
<1> SUFFICES ASSUME IInv, [Next]_vars PROVE [Screens!Next]_Screens!vars
  OBVIOUS
<1>1. CASE Failed \/ Failed'
  BY <1>1 DEF Failed, Screens!Next, Screens!Broken
<1>2. CASE ~Failed /\ ~Failed'
  <2>1. ASSUME NEW n \in Clients, ClientStep(n) PROVE Screens!Next
    <3>1. Screens!Open(n) \/ Screens!Close(n) \/ Screens!NeverSelect(n) \/ Screens!Toggle(n)
      BY <1>2, <2>1, AddOpens, RemoveCloses, NeverSelectHides, PriorityToggles DEF ClientStep
    <3>2. QED
      BY <3>1 DEF Screens!Next
  <2>2. CASE CycleRound
    BY <1>2, <2>2, RoundCycles DEF Screens!Next
  <2>3. CASE KeyEvent \/ CycleLock \/ MarkSelected \/ UNCHANGED vars
    <3>1. Stack' = Stack /\ neverSelect' = neverSelect
      BY <2>3, StackKept DEF KeyEvent, CycleLock, MarkSelected, vars, list, IInv
    <3>2. Shown' = Shown
      BY <2>3 DEF KeyEvent, CycleLock, MarkSelected, vars, list, Shown, IInv, ListSound, TypeOK
    <3>3. (fault \/ Shown \notin allocated)' = (fault \/ Shown \notin allocated)
      BY <1>2 DEF Failed
    <3>4. QED
      BY <3>1, <3>2, <3>3 DEF Screens!vars
  <2>4. QED
    BY <2>1, <2>2, <2>3 DEF Next, KeyboardStep, Cycling
<1>3. QED
  BY <1>1, <1>2

\* The list behaves as the stack of screens for any number of clients.
THEOREM ListRefines == Spec => ImplementsScreenStack
<1>1. QED
  BY InitRefines, NextRefines, Invariance, PTL DEF Spec, ImplementsScreenStack, Screens!Spec

==============================================================================
