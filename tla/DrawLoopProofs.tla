----------------------------- MODULE DrawLoopProofs ----------------------------
(***************************************************************************)
(* Proofs about what is drawn: about the parts of Parts that make a        *)
(* picture, a text and a dial of what is to be read on the panel, and      *)
(* about DrawLoop for every set of screens and plugins and for every       *)
(* number of requests and (un)pluggings, the types, the locks, and that no *)
(* half-copied frame of a client reaches the panel.                        *)
(***************************************************************************)
EXTENDS DrawLoop, Parts, Sequences, FiniteSetTheorems, FunctionTheorems,
        SequenceTheorems, WellFoundedInduction, TLAPS

(* The panel.                                                              *)

\* A panel of whole bytes.
PanelAssumption == \E k \in Nat : PanelColumns = 8 * k

Pixel(p) == LCD!PackedBit(p[1], p[2])
Place(p) == <<PanelOffset + (p[2] \div 8) * PanelColumns + p[1], p[2] % 8>>

\* A number is made of what it has above and below a unit in one way only.
LEMMA OneWay ==
  ASSUME NEW k \in Nat, NEW y \in Nat, NEW z \in Nat, NEW a \in 0 .. k - 1, NEW b \in 0 .. k - 1,
         y * k + a = z * k + b
  PROVE  y = z /\ a = b
<1>1. ASSUME NEW m \in Nat, NEW n \in Nat, NEW c \in 0 .. k - 1, NEW d \in 0 .. k - 1, m < n,
             m * k + c = n * k + d
      PROVE  FALSE
  <2>1. PICK e \in Nat : n = m + 1 + e
    <3>1. n - m - 1 \in Nat /\ n = m + 1 + (n - m - 1) BY <1>1
    <3>2. QED BY <3>1
  <2>2. n * k = m * k + k + e * k BY <2>1
  <2>3. m * k \in Nat /\ e * k \in Nat OBVIOUS
  <2>4. QED BY <1>1, <2>2, <2>3
<1>2. ~(y < z) BY <1>1
<1>3. ~(z < y) BY <1>1
<1>4. y = z BY <1>2, <1>3
<1>5. QED BY <1>4

\* Pixels, and those of rows below the last.
Column == PanelX \X Nat

LEMMA PackedApart ==
  ASSUME PanelAssumption, NEW p \in Column, NEW q \in Column, Pixel(p) = Pixel(q)
  PROVE  p = q
<1>1. PICK k \in Nat : PanelColumns = 8 * k BY DEF PanelAssumption
<1> DEFINE x == p[1]  y == p[2]  v == q[1]  w == q[2]
<1>2. /\ p = <<x, y>> /\ q = <<v, w>>
      /\ x \in 0 .. PanelColumns - 1 /\ v \in 0 .. PanelColumns - 1
      /\ y \in Nat /\ w \in Nat
  BY DEF Column, PanelX
<1>3. /\ (y * PanelColumns + x) \div 8 = (w * PanelColumns + v) \div 8
      /\ 7 - ((y * PanelColumns + x) % 8) = 7 - ((w * PanelColumns + v) % 8)
  BY DEF Pixel, LCD!PackedBit
<1> HIDE DEF x, y, v, w
<1>4. PICK m \in Nat, n \in Nat : m = y * k /\ n = w * k /\ y * PanelColumns = 8 * m /\ w * PanelColumns = 8 * n
  BY <1>1, <1>2
<1>5. m + (x \div 8) = n + (v \div 8) /\ x % 8 = v % 8 BY <1>1, <1>2, <1>3, <1>4
<1>6. x \div 8 \in 0 .. k - 1 /\ v \div 8 \in 0 .. k - 1 BY <1>1, <1>2
<1>7. y = w /\ x \div 8 = v \div 8 BY <1>2, <1>4, <1>5, <1>6, OneWay
<1>8. x = v BY <1>1, <1>2, <1>5, <1>7
<1>9. QED BY <1>2, <1>7, <1>8

LEMMA PlaceApart ==
  ASSUME PanelAssumption, PanelOffset \in Nat, NEW p \in Column, NEW q \in Column, Place(p) = Place(q)
  PROVE  p = q
<1>1. PanelColumns \in Nat BY DEF PanelAssumption
<1> DEFINE x == p[1]  y == p[2]  v == q[1]  w == q[2]
<1>2. /\ p = <<x, y>> /\ q = <<v, w>>
      /\ x \in 0 .. PanelColumns - 1 /\ v \in 0 .. PanelColumns - 1
      /\ y \in Nat /\ w \in Nat
  BY DEF Column, PanelX
<1>3. /\ PanelOffset + (y \div 8) * PanelColumns + x = PanelOffset + (w \div 8) * PanelColumns + v
      /\ y % 8 = w % 8
  BY DEF Place
<1> HIDE DEF x, y, v, w
<1>4. y \div 8 \in Nat /\ w \div 8 \in Nat BY <1>2
<1>5. (y \div 8) * PanelColumns \in Nat /\ (w \div 8) * PanelColumns \in Nat BY <1>1, <1>4
<1>6. (y \div 8) * PanelColumns + x = (w \div 8) * PanelColumns + v BY <1>2, <1>3, <1>5
<1>7. y \div 8 = w \div 8 /\ x = v BY <1>1, <1>2, <1>4, <1>6, OneWay
<1>8. y = w BY <1>2, <1>3, <1>7
<1>9. QED BY <1>2, <1>7, <1>8

\* The walk over the bytes arrives at each pixel's bit.
LEMMA WalkArrives ==
  ASSUME PanelAssumption, NEW x \in PanelX, NEW band \in Nat, NEW b \in 0 .. 7
  PROVE  LET per_row == PanelColumns \div 8
         IN  <<band * (per_row + (PanelColumns - per_row)) + (x \div 8) + per_row * b, 7 - (x % 8)>>
               = Pixel(<<x, 8 * band + b>>)
<1>1. PICK k \in Nat : PanelColumns = 8 * k BY DEF PanelAssumption
<1>2. PanelColumns \div 8 = k BY <1>1
<1>3. x \in 0 .. PanelColumns - 1 BY DEF PanelX
<1>4. PICK m \in Nat, n \in Nat : m = band * k /\ n = k * b OBVIOUS
<1>5. band * (k + (PanelColumns - k)) = 8 * m BY <1>1, <1>4
<1>6. (8 * band + b) * PanelColumns = 8 * (8 * m + n) BY <1>1, <1>4
<1>7. ((8 * band + b) * PanelColumns + x) \div 8 = 8 * m + n + (x \div 8)
      /\ ((8 * band + b) * PanelColumns + x) % 8 = x % 8
  BY <1>1, <1>3, <1>4, <1>6
<1>8. 8 * m + (x \div 8) + n = 8 * m + n + (x \div 8) BY <1>1, <1>3, <1>4
<1>9. QED BY <1>2, <1>4, <1>5, <1>7, <1>8 DEF Pixel, LCD!PackedBit

\* The device gets the pixels of a buffer, and nothing else.
LEMMA Sent ==
  ASSUME PanelAssumption, PanelRows \in Nat, PanelOffset \in Nat, NEW P \in SUBSET LCD!Points
  PROVE  LCD!dumpPixmapIntoLCDFormat({Pixel(p) : p \in P}) = {Place(p) : p \in P}
<1> DEFINE data == {Pixel(p) : p \in P}
           per_row == PanelColumns \div 8
           bands == (PanelRows + 7) \div 8
           bit(t) == <<t[1] * (per_row + (PanelColumns - per_row)) + (t[2] \div 8) + per_row * t[3], 7 - (t[2] % 8)>>
           walk == (0 .. bands - 1) \X (0 .. PanelColumns - 1) \X (0 .. 7)
           at(t) == <<PanelOffset + t[1] * PanelColumns + t[2], t[3]>>
<1>1. LCD!dumpPixmapIntoLCDFormat(data) = {at(t) : t \in {u \in walk : bit(u) \in data}}
  BY DEF LCD!dumpPixmapIntoLCDFormat
<1>2. ASSUME NEW t \in walk
      PROVE  /\ bit(t) = Pixel(<<t[2], 8 * t[1] + t[3]>>) /\ at(t) = Place(<<t[2], 8 * t[1] + t[3]>>)
             /\ <<t[2], 8 * t[1] + t[3]>> \in Column
  <2>1. t[1] \in Nat /\ t[2] \in PanelX /\ t[3] \in 0 .. 7 BY DEF PanelX
  <2>2. bit(t) = Pixel(<<t[2], 8 * t[1] + t[3]>>) BY <2>1, WalkArrives
  <2>3. (8 * t[1] + t[3]) \div 8 = t[1] /\ (8 * t[1] + t[3]) % 8 = t[3] BY <2>1
  <2>4. at(t) = Place(<<t[2], 8 * t[1] + t[3]>>) BY <2>3 DEF Place
  <2>5. QED BY <2>1, <2>2, <2>4 DEF Column
<1>3. P \subseteq Column BY DEF LCD!Points, Column, PanelX
<1>4. ASSUME NEW t \in walk, bit(t) \in data PROVE at(t) \in {Place(p) : p \in P}
  <2>1. PICK p \in P : bit(t) = Pixel(p) BY <1>4
  <2>2. p = <<t[2], 8 * t[1] + t[3]>> BY <1>2, <1>3, <2>1, PackedApart
  <2>3. QED BY <1>2, <2>2
<1>5. ASSUME NEW p \in P PROVE \E t \in walk : bit(t) \in data /\ at(t) = Place(p)
  <2>1. p[1] \in 0 .. PanelColumns - 1 /\ p[2] \in 0 .. PanelRows - 1 /\ p = <<p[1], p[2]>> BY DEF LCD!Points
  <2> DEFINE t == <<p[2] \div 8, p[1], p[2] % 8>>
  <2>2. p[2] \div 8 \in 0 .. bands - 1 /\ p[2] % 8 \in 0 .. 7 /\ 8 * (p[2] \div 8) + (p[2] % 8) = p[2]
    BY <2>1
  <2>3. t \in walk BY <2>1, <2>2
  <2>4. <<t[2], 8 * t[1] + t[3]>> = p BY <2>1, <2>2
  <2>5. bit(t) = Pixel(p) /\ at(t) = Place(p) BY <1>2, <2>3, <2>4
  <2>6. QED BY <2>3, <2>5
<1> HIDE DEF data, walk, at, bit
<1>6. {at(t) : t \in {u \in walk : bit(u) \in data}} = {Place(p) : p \in P} BY <1>4, <1>5
<1>7. QED BY <1>1, <1>6 DEF data

PanelInv == s1 \in SUBSET LCD!Points /\ s2 = {Pixel(p) : p \in s1}

LEMMA PictureStep ==
  ASSUME PanelAssumption, PanelRows \in Nat, PanelInv, [LCD!Next]_(LCD!vars)
  PROVE  PanelInv'
<1>1. LCD!Points \subseteq Column BY DEF LCD!Points, Column, PanelX
<1>2. CASE UNCHANGED LCD!vars BY <1>2 DEF LCD!vars, PanelInv, Pixel, LCD!PackedBit
<1>3. CASE LCD!SendCanvas
  <2>1. PICK x \in 0 .. PanelColumns - 1, y \in 0 .. PanelRows - 1, val \in BOOLEAN :
          /\ s1' = IF val THEN s1 \union {<<x, y>>} ELSE s1 \ {<<x, y>>}
          /\ s2' = LCD!g15r_setPixel(s2, x, y, val)
    BY <1>3 DEF LCD!SendCanvas
  <2>2. <<x, y>> \in LCD!Points BY DEF LCD!Points
  <2>3. LCD!PackedBit(x, y) = Pixel(<<x, y>>) BY DEF Pixel
  <2>4. CASE val
    <3>1. s1' = s1 \union {<<x, y>>} /\ s2' = s2 \union {Pixel(<<x, y>>)}
      BY <2>1, <2>3, <2>4 DEF LCD!g15r_setPixel
    <3>2. QED BY <2>2, <3>1 DEF PanelInv
  <2>5. CASE ~val
    <3>1. s1' = s1 \ {<<x, y>>} /\ s2' = s2 \ {Pixel(<<x, y>>)}
      BY <2>1, <2>3, <2>5 DEF LCD!g15r_setPixel
    <3>2. \A p \in s1 : Pixel(p) = Pixel(<<x, y>>) => p = <<x, y>> BY <1>1, <2>2, PackedApart DEF PanelInv
    <3>3. QED BY <3>1, <3>2 DEF PanelInv
  <2>6. QED BY <2>4, <2>5
<1>4. CASE LCD!SendBytes
  <2>1. PICK bytes \in PanelFrames : s1' = bytes /\ s2' = LCD!g15daemon_convert_buf(s2, bytes)
    BY <1>4 DEF LCD!SendBytes
  <2>2. bytes \in SUBSET LCD!Points BY DEF PanelFrames, Rect, PanelX, PanelY, LCD!Points
  <2>3. s2' = (s2 \ {Pixel(p) : p \in LCD!Points}) \union {Pixel(p) : p \in bytes}
    BY <2>1 DEF LCD!g15daemon_convert_buf, Pixel
  <2>4. QED BY <2>1, <2>2, <2>3 DEF PanelInv
<1>5. QED BY <1>2, <1>3, <1>4 DEF LCD!Next

LEMMA SameCountLCD == \A S : LCD!Cardinality(S) = Cardinality(S)
  BY DEF LCD!Cardinality, Cardinality

LEMMA PictureShown ==
  ASSUME PanelAssumption, PanelRows \in Nat, PanelOffset \in Nat, PanelInv
  PROVE  LCD!PanelShowsPicture
<1> DEFINE S == s1  T == {Place(p) : p \in S}  f == [p \in S |-> Place(p)]
<1>1. LCD!panel = T BY Sent DEF PanelInv, LCD!panel
<1>2. S \in SUBSET LCD!Points /\ LCD!Points \subseteq Column BY DEF PanelInv, LCD!Points, Column, PanelX
<1>3. IsFiniteSet(S)
  <2>1. 0 \in Int /\ PanelColumns - 1 \in Int /\ PanelRows - 1 \in Int BY DEF PanelAssumption
  <2>2. IsFiniteSet(0 .. PanelColumns - 1) /\ IsFiniteSet(0 .. PanelRows - 1) BY <2>1, FS_Interval, Zenon
  <2>3. IsFiniteSet(LCD!Points) BY <2>2, FS_Product DEF LCD!Points
  <2>4. QED BY <1>2, <2>3, FS_Subset
<1>4. \A p, q \in Column : Place(p) = Place(q) => p = q BY PlaceApart
<1>5. Cardinality(T) = Cardinality(S)
  <2>1. f \in [S -> T] /\ \A t \in T : \E p \in S : f[p] = t OBVIOUS
  <2>2. \A p, q \in S : f[p] = f[q] => p = q BY <1>2, <1>4
  <2>3. f \in Bijection(S, T) BY <2>1, <2>2, Fun_IsBij
  <2>4. QED BY <1>3, <2>3, FS_Bijection DEF ExistsBijection
<1>6. LCD!Shown(T) = S BY <1>2, <1>4 DEF LCD!Shown, Place
<1>7. QED BY <1>1, <1>5, <1>6, SameCountLCD DEF LCD!PanelShowsPicture

-----------------------------------------------------------------------------
(* The fonts.                                                              *)
\* A set of naturals has a least element: the form that induction takes here.
LEMMA LeastNat ==
  ASSUME NEW T, T \subseteq Nat, T # {}
  PROVE  \E k \in T : \A j \in T : k <= j
<1>1. \A R : IsWellFoundedOn(R, Nat) => \E k \in T : \A j \in T : <<j, k>> \notin R
  BY WFMin
<1>2. PICK k \in T : \A j \in T : <<j, k>> \notin OpToRel(<, Nat)
  BY <1>1, NatLessThanWellFounded
<1>3. \A j \in T : ~(j < k)
  BY <1>2 DEF OpToRel
<1>4. QED
  BY <1>3

\* The sums exist, and each is the one before and a step.
Summed(g, h, m) == g \in [0 .. m -> Int] /\ g[0] = 0 /\ \A n \in 1 .. m : g[n] = g[n - 1] + h[n]

LEMMA SumsExist ==
  ASSUME NEW h \in Seq(Int), NEW m \in 0 .. Len(h)
  PROVE  \E g : Summed(g, h, m)
<1> DEFINE Bad == {k \in 0 .. Len(h) : ~\E g : Summed(g, h, k)}
<1>1. SUFFICES ASSUME Bad # {} PROVE FALSE
  OBVIOUS
<1>2. PICK k \in Bad : \A j \in Bad : k <= j
  <2>1. Bad \subseteq Nat
    OBVIOUS
  <2> HIDE DEF Bad
  <2>2. QED
    BY <1>1, <2>1, LeastNat
<1>3. k # 0
  <2> SUFFICES ASSUME k = 0 PROVE FALSE
    OBVIOUS
  <2>1. Summed([n \in 0 .. 0 |-> 0], h, 0)
    BY DEF Summed
  <2>2. QED
    BY <2>1, <1>2
<1>4. k \in Nat /\ k - 1 \in 0 .. Len(h) /\ k \in 1 .. Len(h) /\ k - 1 \notin Bad
  BY <1>2, <1>3
<1>5. PICK g : Summed(g, h, k - 1)
  BY <1>4
<1> DEFINE f == [n \in 0 .. k |-> IF n = k THEN g[k - 1] + h[k] ELSE g[n]]
<1>6. h[k] \in Int /\ g[k - 1] \in Int
  BY <1>4, <1>5 DEF Summed
<1>7. f \in [0 .. k -> Int]
  BY <1>4, <1>5, <1>6 DEF Summed
<1>8. f[0] = 0
  BY <1>4, <1>5 DEF Summed
<1>9. \A n \in 1 .. k : f[n] = f[n - 1] + h[n]
  <2> SUFFICES ASSUME NEW n \in 1 .. k PROVE f[n] = f[n - 1] + h[n]
    OBVIOUS
  <2>1. CASE n = k
    BY <2>1, <1>4
  <2>2. CASE n # k
    BY <2>2, <1>4, <1>5 DEF Summed
  <2>3. QED
    BY <2>1, <2>2
<1>10. Summed(f, h, k)
  BY <1>7, <1>8, <1>9 DEF Summed
<1>11. QED
  BY <1>2, <1>10

LEMMA SumsAre ==
  ASSUME NEW h \in Seq(Int)
  PROVE  Summed(Text!Sums(h), h, Len(h))
<1>1. PICK g : Summed(g, h, Len(h))
  BY SumsExist
<1> DEFINE S == Text!Sums(h)
           D == 0 .. Len(h)
<1>2. g = [n \in D |-> IF n = 0 THEN 0 ELSE g[n - 1] + h[n]]
  BY <1>1 DEF Summed
<1>3. S = [n \in D |-> IF n = 0 THEN 0 ELSE S[n - 1] + h[n]]
  BY <1>2 DEF Text!Sums
<1> HIDE DEF S
<1>4. S[0] = 0 /\ \A n \in 1 .. Len(h) : S[n] = S[n - 1] + h[n]
  <2>1. \A n \in D : S[n] = IF n = 0 THEN 0 ELSE S[n - 1] + h[n]
    BY <1>3, Zenon
  <2>2. 0 \in D /\ \A n \in 1 .. Len(h) : n \in D /\ n # 0
    OBVIOUS
  <2>3. QED
    BY <2>1, <2>2, Zenon
<1> DEFINE Bad == {k \in D : S[k] # g[k]}
<1>5. ASSUME Bad # {} PROVE FALSE
  <2>1. PICK k \in Bad : \A j \in Bad : k <= j
    <3>1. Bad \subseteq Nat
      OBVIOUS
    <3> HIDE DEF Bad
    <3>2. QED
      BY <1>5, <3>1, LeastNat
  <2>2. k # 0
    BY <2>1, <1>1, <1>4 DEF Summed
  <2>3. k \in 1 .. Len(h) /\ k - 1 \in D /\ k - 1 \notin Bad
    BY <2>1, <2>2
  <2>4. QED
    BY <2>1, <2>3, <1>1, <1>4 DEF Summed
<1>6. \A k \in D : S[k] \in Int
  BY <1>5, <1>1 DEF Summed
<1>7. S \in [D -> Int]
  BY <1>3, <1>6
<1>8. QED
  BY <1>4, <1>7 DEF Summed, S

\* The sums of larger steps are larger, and later ones are not smaller.
LEMMA SumsOrdered ==
  ASSUME NEW h \in Seq(Nat), NEW k \in Seq(Nat), Len(h) = Len(k), \A i \in DOMAIN h : h[i] <= k[i],
         NEW n \in 0 .. Len(k)
  PROVE  Text!Sums(h)[n] <= Text!Sums(k)[n]
<1>1. h \in Seq(Int) /\ k \in Seq(Int)
  OBVIOUS
<1> DEFINE S == Text!Sums(h)
           T == Text!Sums(k)
<1>2. Summed(S, h, Len(h)) /\ Summed(T, k, Len(k))
  BY <1>1, SumsAre
<1> HIDE DEF S, T
<1> DEFINE Bad == {i \in 0 .. Len(k) : ~(S[i] <= T[i])}
<1>3. ASSUME Bad # {} PROVE FALSE
  <2>1. PICK i \in Bad : \A j \in Bad : i <= j
    <3>1. Bad \subseteq Nat
      OBVIOUS
    <3> HIDE DEF Bad
    <3>2. QED
      BY <1>3, <3>1, LeastNat
  <2>2. i # 0
    BY <2>1, <1>2 DEF Summed
  <2>3. i \in 1 .. Len(k) /\ i - 1 \in 0 .. Len(k) /\ i - 1 \notin Bad /\ i \in DOMAIN h
    BY <2>1, <2>2
  <2>4. S[i] = S[i - 1] + h[i] /\ T[i] = T[i - 1] + k[i] /\ S[i - 1] <= T[i - 1]
    BY <2>3, <1>2 DEF Summed
  <2>5. h[i] \in Nat /\ k[i] \in Nat /\ h[i] <= k[i] /\ S[i - 1] \in Int /\ T[i - 1] \in Int
    BY <2>3, <1>2 DEF Summed
  <2>6. QED
    BY <2>1, <2>4, <2>5
<1>4. QED
  BY <1>3 DEF S, T

LEMMA SumsGrow ==
  ASSUME NEW k \in Seq(Nat), NEW n \in 0 .. Len(k), NEW m \in n .. Len(k)
  PROVE  Text!Sums(k)[n] <= Text!Sums(k)[m]
<1>1. k \in Seq(Int)
  OBVIOUS
<1> DEFINE S == Text!Sums(k)
<1>2. Summed(S, k, Len(k))
  BY <1>1, SumsAre
<1> HIDE DEF S
<1>3. Len(k) \in Nat /\ (\A i \in 0 .. Len(k) : S[i] \in Int) /\ \A i \in 1 .. Len(k) : k[i] \in Nat
  <2>1. Len(k) \in Nat
    OBVIOUS
  <2>2. \A i \in 0 .. Len(k) : S[i] \in Int
    BY <1>2 DEF Summed
  <2>3. \A i \in 1 .. Len(k) : k[i] \in Nat
    OBVIOUS
  <2>4. QED
    BY <2>1, <2>2, <2>3
<1> DEFINE Bad == {i \in n .. Len(k) : ~(S[n] <= S[i])}
<1>4. ASSUME Bad # {} PROVE FALSE
  <2>1. PICK i \in Bad : \A j \in Bad : i <= j
    <3>1. Bad \subseteq Nat
      OBVIOUS
    <3> HIDE DEF Bad
    <3>2. QED
      BY <1>4, <3>1, LeastNat
  <2>2. i # n
    BY <2>1, <1>3
  <2>3. i \in 1 .. Len(k) /\ i - 1 \in n .. Len(k) /\ i - 1 \notin Bad
    BY <2>1, <2>2, <1>3
  <2>4. S[i] = S[i - 1] + k[i] /\ S[n] <= S[i - 1]
    BY <2>3, <1>2 DEF Summed
  <2>5. k[i] \in Nat /\ S[i - 1] \in Int /\ S[n] \in Int
    BY <2>3, <1>3
  <2>6. QED
    BY <2>1, <2>4, <2>5
<1>5. QED
  BY <1>4 DEF S

\* A font in memory, as far as texts are placed by it: what it lacks has no width.
Readable(f) ==
  /\ f.gap \in 0 .. 255
  /\ f.width \in [FontChars -> 0 .. 255]
  /\ \A c \in FontChars \ f.active : f.width[c] = 0

\* TextPlaced, of any font and text.
Placed(f, t) ==
  LET at == t.at
      last(i) == at[i].x + f.width[at[i].char]
      width == Text!g15r_testG15FontWidth(f, [i \in DOMAIN at |-> at[i].char])
  IN  /\ \A i \in 1 .. Len(at) - 1 : last(i) <= at[i + 1].x
      /\ t.center = 2 => \A i \in DOMAIN at : last(i) <= TextColumns - f.gap
      /\ t.center = 1 /\ width <= TextColumns =>
           \A i \in DOMAIN at : 0 <= at[i].x /\ last(i) <= TextColumns - f.gap

Steps(f, s) == [i \in DOMAIN s |-> Text!Advance(f, s[i])]
Widths(f, s) == [i \in DOMAIN s |-> f.width[s[i]] + f.gap]

LEMMA StepsTyped ==
  ASSUME NEW f, Readable(f), NEW s \in Seq(FontChars)
  PROVE  /\ Steps(f, s) \in Seq(Nat) /\ Widths(f, s) \in Seq(Nat)
         /\ Len(Steps(f, s)) = Len(s) /\ Len(Widths(f, s)) = Len(s)
         /\ \A i \in 1 .. Len(s) : /\ f.width[s[i]] \in Nat /\ f.gap \in Nat
                                   /\ Steps(f, s)[i] \in Nat
                                   /\ f.width[s[i]] <= Steps(f, s)[i]
                                   /\ Steps(f, s)[i] <= Widths(f, s)[i]
                                   /\ Widths(f, s)[i] = f.width[s[i]] + f.gap
<1>1. Len(s) \in Nat /\ DOMAIN s = 1 .. Len(s) /\ \A i \in 1 .. Len(s) : s[i] \in FontChars
  OBVIOUS
<1>2. ASSUME NEW i \in 1 .. Len(s)
      PROVE  /\ f.width[s[i]] \in Nat /\ f.gap \in Nat
             /\ Text!Advance(f, s[i]) \in Nat
             /\ f.width[s[i]] <= Text!Advance(f, s[i])
             /\ Text!Advance(f, s[i]) <= f.width[s[i]] + f.gap
  <2> DEFINE w == f.width[s[i]]
             g == f.gap
             a == Text!Advance(f, s[i])
  <2>1. s[i] \in FontChars /\ w \in 0 .. 255 /\ g \in 0 .. 255
    BY <1>1 DEF Readable
  <2>2. CASE s[i] \notin f.active
    <3>1. w = 0 /\ a = 0
      BY <2>1, <2>2 DEF Readable, Text!Advance
    <3> HIDE DEF w, g, a
    <3>2. w \in Nat /\ g \in Nat /\ a \in Nat /\ w <= a /\ a <= w + g
      BY <2>1, <3>1
    <3>3. QED
      BY <3>2 DEF w, g, a
  <2>3. CASE s[i] \in f.active
    <3>1. a = w + g \/ a = w
      BY <2>3 DEF Text!Advance
    <3> HIDE DEF w, g, a
    <3>2. w \in Nat /\ g \in Nat /\ a \in Nat /\ w <= a /\ a <= w + g
      BY <2>1, <3>1
    <3>3. QED
      BY <3>2 DEF w, g, a
  <2>4. QED
    BY <2>2, <2>3
<1>3. Steps(f, s) \in [1 .. Len(s) -> Nat] /\ Widths(f, s) \in [1 .. Len(s) -> Nat]
  BY <1>1, <1>2 DEF Steps, Widths
<1>4. Steps(f, s) \in Seq(Nat) /\ Widths(f, s) \in Seq(Nat)
  BY <1>1, <1>3
<1>5. Len(Steps(f, s)) = Len(s) /\ Len(Widths(f, s)) = Len(s)
  BY <1>1, <1>3, <1>4
<1>6. QED
  BY <1>1, <1>2, <1>4, <1>5 DEF Steps, Widths

\* Where the pen is, and where the text would end by its width.
LEMMA PenBounds ==
  ASSUME NEW f, Readable(f), NEW s \in Seq(FontChars), NEW i \in 1 .. Len(s)
  PROVE  LET S == Text!Sums(Steps(f, s))
             T == Text!Sums(Widths(f, s))
         IN  /\ S[i - 1] \in Nat /\ T[Len(s)] \in Nat
             /\ S[i - 1] + f.width[s[i]] <= S[i]
             /\ S[i - 1] + f.width[s[i]] + f.gap <= T[Len(s)]
<1> DEFINE h == Steps(f, s)
           k == Widths(f, s)
           S == Text!Sums(h)
           T == Text!Sums(k)
           n == Len(s)
<1>1. /\ h \in Seq(Nat) /\ k \in Seq(Nat) /\ Len(h) = n /\ Len(k) = n
      /\ f.width[s[i]] \in Nat /\ f.gap \in Nat /\ f.width[s[i]] <= h[i]
      /\ k[i] = f.width[s[i]] + f.gap
      /\ \A j \in 1 .. n : h[j] <= k[j]
  BY StepsTyped
<1>2. n \in Nat /\ i - 1 \in 0 .. n /\ i \in 0 .. n /\ n \in i .. n /\ 0 \in 0 .. n /\ i - 1 \in 0 .. n
  OBVIOUS
<1> HIDE DEF h, k, n
<1>3. h \in Seq(Int) /\ k \in Seq(Int)
  BY <1>1
<1>4. Summed(S, h, n) /\ Summed(T, k, n)
  BY <1>1, <1>3, SumsAre
<1>5. DOMAIN h = 1 .. n
  BY <1>1
<1>6. S[i - 1] <= T[i - 1]
  BY <1>1, <1>2, <1>5, SumsOrdered
<1>7. T[i] <= T[n]
  BY <1>1, <1>2, SumsGrow
<1>8. S[0] <= S[i - 1]
  BY <1>1, <1>2, SumsGrow
<1> HIDE DEF S, T
<1>9. /\ S[0] = 0 /\ S[i] = S[i - 1] + h[i] /\ T[i] = T[i - 1] + k[i]
      /\ S[i - 1] \in Int /\ S[i] \in Int /\ T[i - 1] \in Int /\ T[i] \in Int /\ T[n] \in Int
  <2>1. i \in 1 .. n
    BY DEF n
  <2>2. QED
    BY <1>2, <1>4, <2>1 DEF Summed
<1>10. h[i] \in Nat
  BY StepsTyped DEF h
<1> DEFINE w == f.width[s[i]]
           g == f.gap
<1>11. /\ S[i - 1] \in Nat /\ T[n] \in Nat /\ S[i - 1] + w <= S[i]
       /\ S[i - 1] + w + g <= T[n]
  <2>1. w \in Nat /\ g \in Nat /\ w <= h[i] /\ k[i] = w + g
    BY <1>1
  <2>2. S[i - 1] <= T[i - 1] /\ T[i] <= T[n] /\ 0 <= S[i - 1]
    BY <1>6, <1>7, <1>8, <1>9
  <2> HIDE DEF w, g
  <2>3. S[i - 1] \in Nat /\ T[i] \in Nat /\ T[n] \in Nat
    BY <2>1, <2>2, <1>9
  <2>4. S[i - 1] + w <= S[i]
    BY <2>1, <2>3, <1>9, <1>10
  <2>5. S[i - 1] + w + g <= T[n]
    BY <2>1, <2>2, <2>3, <1>9
  <2>6. QED
    BY <2>3, <2>4, <2>5
<1>12. QED
  BY <1>11 DEF S, T, h, k, n

LEMMA Halves == \A a \in Nat : \E c \in Nat : a \div 2 = c /\ (a = 2 * c \/ a = 2 * c + 1)
  OBVIOUS

\* A text of t columns that ends at column c has its characters left of c.
LEMMA RightBound ==
  ASSUME NEW c \in Nat, NEW t \in Nat, NEW a \in Nat, NEW w \in Nat, NEW g \in Nat, a + w + g <= t
  PROVE  (c - t) + a + w <= c - g
OBVIOUS

\* A text of t columns in the middle of c columns starts and ends inside them.
LEMMA MiddleBound ==
  ASSUME NEW c \in Nat, NEW t \in Nat, t <= c
  PROVE  /\ 0 <= (c \div 2) - (t \div 2)
         /\ ((c \div 2) - (t \div 2)) + t <= c
         /\ (c \div 2) - (t \div 2) \in Int
<1>1. PICK m \in Nat : c \div 2 = m /\ (c = 2 * m \/ c = 2 * m + 1)
  BY Halves
<1>2. PICK k \in Nat : t \div 2 = k /\ (t = 2 * k \/ t = 2 * k + 1)
  BY Halves
<1>3. 0 <= m - k /\ (m - k) + t <= c
  BY <1>1, <1>2
<1>4. QED
  BY <1>1, <1>2, <1>3

LEMMA TextFits ==
  ASSUME Text!FontAssumption, NEW f, Readable(f), NEW s \in FontTexts, NEW x \in Int, NEW center \in 0 .. 2
  PROVE  Placed(f, [center |-> center, at |-> Text!g15r_G15FPrint(f, s, x, center)])
<1> DEFINE S == Text!Sums(Steps(f, s))
           T == Text!Sums(Widths(f, s))
           n == Len(s)
           sx == CASE center = 0 -> x
                   [] center = 1 -> (TextColumns \div 2) - (T[n] \div 2)
                   [] center = 2 -> TextColumns - T[n]
           at == [i \in DOMAIN s |-> [char |-> s[i], x |-> sx + S[i - 1]]]
<1>1. s \in Seq(FontChars) /\ TextColumns \in Nat
  BY DEF Text!FontAssumption
<1>2. n \in Nat /\ DOMAIN s = 1 .. n
  BY <1>1
<1>3. Text!g15r_G15FPrint(f, s, x, center) = at
  BY DEF Text!g15r_G15FPrint, Text!g15r_G15FontRenderString, Text!g15r_testG15FontWidth, Steps, Widths
<1>4. Text!g15r_testG15FontWidth(f, [i \in DOMAIN at |-> at[i].char]) = T[n]
  <2>1. s = [i \in DOMAIN s |-> s[i]]
    BY <1>1
  <2>2. [i \in DOMAIN at |-> at[i].char] = s
    BY <2>1
  <2>3. QED
    BY <2>2 DEF Text!g15r_testG15FontWidth, Widths
<1>5. \A i \in 1 .. n : /\ S[i - 1] \in Nat /\ T[n] \in Nat
                        /\ S[i - 1] + f.width[s[i]] <= S[i]
                        /\ S[i - 1] + f.width[s[i]] + f.gap <= T[n]
                        /\ f.width[s[i]] \in Nat /\ f.gap \in Nat
  BY <1>1, PenBounds, StepsTyped
<1>6. Len(at) = n /\ DOMAIN at = 1 .. n
  BY <1>2
<1>7. \A i \in 1 .. n : at[i].char = s[i] /\ at[i].x = sx + S[i - 1]
  BY <1>2
<1>8. ASSUME NEW i \in 1 .. n PROVE sx \in Int
  BY <1>1, <1>5, <1>8
<1>9. ASSUME NEW i \in 1 .. n - 1 PROVE at[i].x + f.width[at[i].char] <= at[i + 1].x
  <2>1. i \in 1 .. n /\ i + 1 \in 1 .. n /\ (i + 1) - 1 = i
    BY <1>2, <1>9
  <2>2. at[i].x = sx + S[i - 1] /\ at[i].char = s[i] /\ at[i + 1].x = sx + S[i]
    BY <1>7, <2>1
  <2>3. sx \in Int
    BY <1>8, <2>1
  <2>4. S[i - 1] \in Nat /\ S[i - 1] + f.width[s[i]] <= S[i] /\ f.width[s[i]] \in Nat /\ S[i] \in Nat
    BY <1>5, <2>1
  <2> HIDE DEF sx, at, S
  <2>5. QED
    BY <2>2, <2>3, <2>4
<1>10. ASSUME center = 2, NEW i \in 1 .. n
       PROVE  at[i].x + f.width[at[i].char] <= TextColumns - f.gap
  <2>1. sx = TextColumns - T[n]
    BY <1>10
  <2>2. at[i].x = sx + S[i - 1] /\ at[i].char = s[i]
    BY <1>7
  <2> DEFINE w == f.width[s[i]]
             g == f.gap
  <2>3. S[i - 1] \in Nat /\ T[n] \in Nat /\ S[i - 1] + w + g <= T[n] /\ w \in Nat /\ g \in Nat
    BY <1>5
  <2>4. at[i].x + f.width[at[i].char] = sx + S[i - 1] + w
    BY <2>2
  <2> HIDE DEF sx, at, S, T, w, g
  <2>5. sx + S[i - 1] + w <= TextColumns - g
    BY <1>1, <2>1, <2>3, RightBound
  <2>6. QED
    BY <2>4, <2>5 DEF g
<1>11. ASSUME center = 1, T[n] <= TextColumns, NEW i \in 1 .. n
       PROVE  0 <= at[i].x /\ at[i].x + f.width[at[i].char] <= TextColumns - f.gap
  <2>1. sx = (TextColumns \div 2) - (T[n] \div 2)
    BY <1>11
  <2>2. at[i].x = sx + S[i - 1] /\ at[i].char = s[i]
    BY <1>7
  <2> DEFINE w == f.width[s[i]]
             g == f.gap
  <2>3. S[i - 1] \in Nat /\ T[n] \in Nat /\ S[i - 1] + w + g <= T[n] /\ w \in Nat /\ g \in Nat
    BY <1>5
  <2>4. at[i].x + f.width[at[i].char] = sx + S[i - 1] + w /\ at[i].x = sx + S[i - 1]
    BY <2>2
  <2> HIDE DEF sx, at, S, T, w, g
  <2>5. 0 <= sx /\ sx + T[n] <= TextColumns /\ sx \in Int
    BY <2>1, <1>11, <1>1, <2>3, MiddleBound
  <2>6. 0 <= sx + S[i - 1] /\ sx + S[i - 1] + w <= TextColumns - g
    BY <1>1, <2>3, <2>5
  <2>7. QED
    BY <2>4, <2>6 DEF g
<1> HIDE DEF at, T
<1>12. QED
  BY <1>3, <1>4, <1>6, <1>9, <1>10, <1>11 DEF Placed

LEMMA Divided ==
  ASSUME NEW k \in Nat, NEW y \in Nat, NEW a \in 0 .. k - 1
  PROVE  (y * k + a) \div k = y /\ (y * k + a) % k = a
<1> DEFINE n == y * k + a
           q == n \div k
           r == n % k
<1>1. n \in Nat /\ k # 0
  <2>1. y * k \in Nat
    OBVIOUS
  <2>2. QED
    BY <2>1
<1> HIDE DEF n
<1>2. q \in Nat /\ r \in 0 .. k - 1 /\ n = q * k + r
  BY <1>1
<1> HIDE DEF q, r
<1>3. y * k + a = q * k + r
  BY <1>2 DEF n
<1>4. y = q /\ a = r
  BY <1>2, <1>3, OneWay
<1>5. QED
  BY <1>4 DEF q, r, n

\* A glyph's rows are padded to whole bytes, by the converter and by the renderer.
LEMMA RowsPadded ==
  ASSUME NEW w \in 0 .. 255
  PROVE  /\ (IF w % 8 = 0 THEN w ELSE w + 8 - (w % 8)) = 8 * Text!RowBytes(w)
         /\ Text!RowBytes(w) \in Nat /\ w <= 8 * Text!RowBytes(w)
  BY DEF Text!RowBytes

\* Packed into a glyph's bytes and rendered, a pixel is where it was.
LEMMA PixelSurvives ==
  ASSUME NEW w \in 0 .. 255, NEW x \in 0 .. w - 1, NEW y \in Nat
  PROVE  LET b == Text!BitOf(w, <<x, y>>)
             padded == IF w % 8 = 0 THEN w ELSE w + 8 - (w % 8)
         IN  b % padded = x /\ b \div padded = y
<1> DEFINE R == Text!RowBytes(w)
<1>1. R \in Nat /\ w <= 8 * R /\ (IF w % 8 = 0 THEN w ELSE w + 8 - (w % 8)) = 8 * R
  BY RowsPadded
<1>2. Text!BitOf(w, <<x, y>>) = y * 8 * R + x
  BY DEF Text!BitOf
<1> HIDE DEF R
<1>3. y * 8 * R = y * (8 * R)
  BY <1>1
<1>4. 8 * R \in Nat /\ x \in 0 .. (8 * R) - 1
  BY <1>1
<1>5. (y * (8 * R) + x) \div (8 * R) = y /\ (y * (8 * R) + x) % (8 * R) = x
  BY <1>4, Divided
<1>6. QED
  BY <1>1, <1>2, <1>3, <1>5

LEMMA GlyphSurvives ==
  ASSUME NEW w \in 0 .. 255, NEW height \in Nat, NEW P \in SUBSET ((0 .. w - 1) \X (0 .. height - 1))
  PROVE  Text!RenderedPixels(w, {Text!BitOf(w, p) : p \in P}) = {<<p[1] + 1, p[2]>> : p \in P}
<1> DEFINE padded == IF w % 8 = 0 THEN w ELSE w + 8 - (w % 8)
           bit(p) == Text!BitOf(w, p)
           B == {bit(p) : p \in P}
           seen(b) == <<(b % padded) + 1, b \div padded>>
<1>1. ASSUME NEW p \in P
      PROVE  p[1] \in 0 .. w - 1 /\ bit(p) % padded = p[1] /\ bit(p) \div padded = p[2]
  <2>1. p = <<p[1], p[2]>> /\ p[1] \in 0 .. w - 1 /\ p[2] \in Nat
    OBVIOUS
  <2> DEFINE x == p[1]
             y == p[2]
  <2>2. x \in 0 .. w - 1 /\ y \in Nat /\ p = <<x, y>>
    BY <2>1
  <2> HIDE DEF x, y
  <2>3. bit(<<x, y>>) % padded = x /\ bit(<<x, y>>) \div padded = y
    BY <2>2, PixelSurvives
  <2>4. QED
    BY <2>2, <2>3 DEF x, y
<1> HIDE DEF padded, bit
<1>2. \A p \in P : seen(bit(p)) = <<p[1] + 1, p[2]>> /\ (bit(p) % padded) + 1 <= w
  BY <1>1
<1>3. {c \in B : (c % padded) + 1 <= w} = B
  BY <1>2
<1>4. {seen(b) : b \in B} = {<<p[1] + 1, p[2]>> : p \in P}
  BY <1>2
<1>5. QED
  BY <1>3, <1>4 DEF Text!RenderedPixels, padded, bit

LEMMA SameCountText == \A S : Text!Cardinality(S) = Cardinality(S)
  BY DEF Text!Cardinality, Cardinality

\* The codes have an order, and it misses none.
LEMMA SortedIs ==
  ASSUME NEW S, S \subseteq 0 .. 255
  PROVE  /\ IsFiniteSet(S) /\ Cardinality(S) \in Nat
         /\ Text!Sorted(S) \in [1 .. Cardinality(S) -> S]
         /\ {Text!Sorted(S)[i] : i \in 1 .. Cardinality(S)} = S
<1> DEFINE n == Cardinality(S)
           below(c) == {d \in S : d < c}
           rank == [c \in S |-> Cardinality(below(c))]
<1>1. IsFiniteSet(S) /\ n \in Nat
  <2>1. IsFiniteSet(0 .. 255)
    <3>1. 0 \in Int /\ 255 \in Int
      OBVIOUS
    <3>2. QED
      BY <3>1, FS_Interval, Zenon
  <2>2. QED
    BY <2>1, FS_Subset, FS_CardinalityType
<1>2. \A c \in S : /\ IsFiniteSet(below(c)) /\ Cardinality(below(c)) \in Nat
                   /\ Cardinality(below(c) \cup {c}) = Cardinality(below(c)) + 1
                   /\ below(c) \cup {c} \subseteq S
  <2> SUFFICES ASSUME NEW c \in S
               PROVE  /\ IsFiniteSet(below(c)) /\ Cardinality(below(c)) \in Nat
                      /\ Cardinality(below(c) \cup {c}) = Cardinality(below(c)) + 1
                      /\ below(c) \cup {c} \subseteq S
    OBVIOUS
  <2>1. below(c) \subseteq S /\ c \notin below(c)
    OBVIOUS
  <2> HIDE DEF below
  <2>2. IsFiniteSet(below(c)) /\ Cardinality(below(c)) \in Nat
    BY <1>1, <2>1, FS_Subset, FS_CardinalityType
  <2>3. Cardinality(below(c) \cup {c}) = Cardinality(below(c)) + 1
    BY <2>1, <2>2, FS_AddElement
  <2>4. QED
    BY <2>1, <2>2, <2>3
<1>3. \A c \in S : rank[c] \in 0 .. n - 1
  <2> SUFFICES ASSUME NEW c \in S PROVE rank[c] \in 0 .. n - 1
    OBVIOUS
  <2>1. Cardinality(below(c) \cup {c}) <= n
    <3>1. below(c) \cup {c} \in SUBSET S
      BY <1>2
    <3> HIDE DEF below
    <3>2. QED
      BY <1>1, <3>1, FS_Subset
  <2>2. rank[c] = Cardinality(below(c))
    OBVIOUS
  <2> HIDE DEF below, rank
  <2>3. QED
    BY <1>1, <1>2, <2>1, <2>2
<1>4. \A c, e \in S : c < e => rank[c] < rank[e]
  <2> SUFFICES ASSUME NEW c \in S, NEW e \in S, c < e PROVE rank[c] < rank[e]
    OBVIOUS
  <2>1. below(c) \cup {c} \subseteq below(e)
    <3>1. c \in Int /\ e \in Int /\ \A d \in S : d \in Int
      OBVIOUS
    <3>2. \A d \in S : d < c => d < e
      BY <3>1
    <3>3. QED
      BY <3>2
  <2>2. rank[c] = Cardinality(below(c)) /\ rank[e] = Cardinality(below(e))
    OBVIOUS
  <2> HIDE DEF below, rank
  <2>3. Cardinality(below(c) \cup {c}) <= Cardinality(below(e))
    BY <1>2, <2>1, FS_Subset
  <2>4. Cardinality(below(c)) + 1 <= Cardinality(below(e)) /\ Cardinality(below(c)) \in Nat /\ Cardinality(below(e)) \in Nat
    BY <1>2, <2>3
  <2>5. QED
    BY <2>2, <2>4
<1>5. rank \in Surjection(S, 0 .. n - 1)
  <2>1. rank \in [S -> 0 .. n - 1]
    BY <1>3
  <2> HIDE DEF rank
  <2>2. rank \in Injection(S, 0 .. n - 1)
    <3>1. \A c, e \in S : rank[c] = rank[e] => c = e
      <4> SUFFICES ASSUME NEW c \in S, NEW e \in S, rank[c] = rank[e] PROVE c = e
        OBVIOUS
      <4>1. rank[c] \in Int /\ rank[e] \in Int /\ c \in Int /\ e \in Int
        BY <1>1, <2>1
      <4>2. ~(c < e) /\ ~(e < c)
        BY <1>4, <4>1
      <4>3. QED
        BY <4>1, <4>2
    <3>2. QED
      BY <2>1, <3>1 DEF Injection, IsInjective
  <2>3. IsFiniteSet(0 .. n - 1) /\ Cardinality(0 .. n - 1) = n
    <3> DEFINE m == n - 1
    <3>1. 0 \in Int /\ m \in Int
      BY <1>1
    <3> HIDE DEF m
    <3>2. IsFiniteSet(0 .. m) /\ Cardinality(0 .. m) = IF 0 > m THEN 0 ELSE m - 0 + 1
      BY <3>1, FS_Interval, Zenon
    <3>3. QED
      BY <1>1, <3>2 DEF m
  <2>4. QED
    BY <2>2, <2>3, FS_Injection
<1> DEFINE order == [i \in 1 .. n |-> CHOOSE c \in S : rank[c] = i - 1]
<1>6. \A i \in 1 .. n : order[i] \in S /\ rank[order[i]] = i - 1
  <2> SUFFICES ASSUME NEW i \in 1 .. n PROVE order[i] \in S /\ rank[order[i]] = i - 1
    OBVIOUS
  <2> HIDE DEF rank
  <2>1. i - 1 \in 0 .. n - 1
    BY <1>1
  <2>2. \E c \in S : rank[c] = i - 1
    BY <1>5, <2>1 DEF Surjection
  <2>3. QED
    BY <2>2
<1> HIDE DEF rank, below
<1>7. \A i, j \in DOMAIN order : i < j => order[i] < order[j]
  <2> SUFFICES ASSUME NEW i \in 1 .. n, NEW j \in 1 .. n, i < j PROVE order[i] < order[j]
    OBVIOUS
  <2>1. order[i] \in S /\ order[j] \in S /\ rank[order[i]] = i - 1 /\ rank[order[j]] = j - 1
    BY <1>6
  <2> HIDE DEF order
  <2>2. order[i] \in Int /\ order[j] \in Int /\ rank[order[i]] < rank[order[j]]
    <3>1. i - 1 < j - 1
      OBVIOUS
    <3>2. \A c \in S : c \in Int
      OBVIOUS
    <3>3. QED
      BY <2>1, <3>1, <3>2, Zenon
  <2>3. order[i] # order[j] /\ ~(order[j] < order[i])
    BY <1>4, <2>1, <2>2
  <2>4. QED
    BY <2>2, <2>3
<1>8. order \in [1 .. n -> S]
  BY <1>6
<1> DEFINE s == Text!Sorted(S)
<1> HIDE DEF order
<1>9. s \in [1 .. n -> S] /\ \A i, j \in DOMAIN s : i < j => s[i] < s[j]
  <2>1. \E t \in [1 .. n -> S] : \A i, j \in DOMAIN t : i < j => t[i] < t[j]
    BY <1>7, <1>8
  <2>2. s = CHOOSE t \in [1 .. n -> S] : \A i, j \in DOMAIN t : i < j => t[i] < t[j]
    BY SameCountText DEF Text!Sorted
  <2> HIDE DEF s, n
  <2>3. QED
    BY <2>1, <2>2
<1> HIDE DEF s
<1>10. s \in Injection(1 .. n, S)
  <2>1. \A i, j \in 1 .. n : s[i] = s[j] => i = j
    <3> SUFFICES ASSUME NEW i \in 1 .. n, NEW j \in 1 .. n, s[i] = s[j] PROVE i = j
      OBVIOUS
    <3>1. s[i] \in S /\ s[j] \in S
      BY <1>9
    <3>2. s[i] \in Int /\ s[j] \in Int
      <4>1. \A c \in S : c \in Int
        OBVIOUS
      <4>2. QED
        BY <3>1, <4>1
    <3>3. ~(i < j) /\ ~(j < i)
      BY <1>9, <3>2
    <3>4. QED
      BY <3>3
  <2>2. QED
    BY <1>9, <2>1 DEF Injection, IsInjective
<1>11. s \in Surjection(1 .. n, S)
  <2>1. Cardinality(1 .. n) = n
    BY <1>1, FS_Interval
  <2>2. QED
    BY <1>1, <1>10, <2>1, FS_Injection
<1>12. {s[i] : i \in 1 .. n} = S
  <2>1. \A i \in 1 .. n : s[i] \in S
    BY <1>9
  <2>2. \A c \in S : \E i \in 1 .. n : s[i] = c
    BY <1>11 DEF Surjection
  <2>3. QED
    BY <2>1, <2>2
<1>13. QED
  BY <1>1, <1>9, <1>12 DEF s

\* What a load has in memory after the first of a face's codes, and a font in the end.
WidthsOf(f, codes) == [c \in FontChars |-> IF c \in codes THEN f.glyph[c].width ELSE 0]
BitsOf(f, codes) == [c \in FontChars |-> IF c \in codes THEN Text!Packed(f.glyph[c]) ELSE {}]

Loading(l, f) ==
  /\ l.i \in 0 .. Cardinality(f.active) /\ l.memsize \in Nat /\ l.alloc \in Nat /\ l.memsize <= l.alloc
  /\ l.active = {Text!Sorted(f.active)[j] : j \in 1 .. l.i}
  /\ l = [i |-> l.i, memsize |-> l.memsize, alloc |-> l.alloc, active |-> l.active,
          width |-> WidthsOf(f, l.active), bits |-> BitsOf(f, l.active), fits |-> TRUE, moved |-> l.moved]

Loaded(f, moved) ==
  [height |-> f.height, gap |-> f.gap, width |-> WidthsOf(f, f.active), bits |-> BitsOf(f, f.active),
   active |-> f.active, fits |-> TRUE, moved |-> moved]

FontInv ==
  /\ s1 # Text!None => s2 \in FontFaces /\ s1 = Text!g15r_saveG15Font(s2)
  /\ s3 # Text!None => s1 # Text!None /\ s4 = Text!None /\ Loading(s3, s2)
  /\ s4 # Text!None => s1 # Text!None /\ s4 = Loaded(s2, s4.moved)
  /\ s5 # Text!None => s4 # Text!None /\ Placed(s4, s5)

LEMMA FaceKnown ==
  ASSUME Text!FontAssumption, NEW f \in FontFaces
  PROVE  /\ f.height \in Nat /\ f.gap \in 0 .. 255 /\ f.active \subseteq FontChars
         /\ f.active \subseteq 0 .. 255
         /\ \A c \in f.active : /\ f.glyph[c].width \in 0 .. 255
                                /\ f.glyph[c].pixels \subseteq (0 .. f.glyph[c].width - 1) \X (0 .. f.height - 1)
  BY DEF Text!FontAssumption

LEMMA SavedIs ==
  ASSUME Text!FontAssumption, NEW f \in FontFaces
  PROVE  LET file == Text!g15r_saveG15Font(f)
             n == Cardinality(f.active)
         IN  /\ file.height = f.height /\ file.gap = f.gap /\ file.numchars = n /\ n \in Nat
             /\ \A i \in 1 .. n : /\ file.glyphs[i] = Text!Saved(f, Text!Sorted(f.active)[i])
                                  /\ Text!Sorted(f.active)[i] \in f.active
             /\ {Text!Sorted(f.active)[i] : i \in 1 .. n} = f.active
<1> DEFINE file == Text!g15r_saveG15Font(f)
           n == Cardinality(f.active)
           s == Text!Sorted(f.active)
<1>1. n \in Nat /\ s \in [1 .. n -> f.active] /\ {s[i] : i \in 1 .. n} = f.active
  BY FaceKnown, SortedIs
<1>2. /\ file.height = f.height /\ file.gap = f.gap /\ file.numchars = n
      /\ file.glyphs = [i \in DOMAIN s |-> Text!Saved(f, s[i])]
  BY SameCountText DEF Text!g15r_saveG15Font
<1> HIDE DEF file, n, s
<1>3. \A i \in 1 .. n : file.glyphs[i] = Text!Saved(f, s[i]) /\ s[i] \in f.active
  BY <1>1, <1>2
<1>4. QED
  BY <1>1, <1>2, <1>3 DEF file, n, s

LEMMA RequestKeeps ==
  ASSUME Text!FontAssumption, FontInv, Text!g15r_requestG15DefaultFont
  PROVE  FontInv'
<1>1. UNCHANGED <<s1, s2, s4, s5>> /\ s3 = Text!None /\ s4 = Text!None
  BY DEF Text!g15r_requestG15DefaultFont
<1>2. CASE s1 = Text!None
  <2>1. s3' = s3
    BY <1>2 DEF Text!g15r_requestG15DefaultFont
  <2>2. QED
    BY <1>1, <2>1 DEF FontInv
<1>3. CASE s1 # Text!None
  <2>1. s2 \in FontFaces /\ FirstAlloc \in Nat
    BY <1>3 DEF FontInv, Text!FontAssumption
  <2>2. s3' = [i |-> 0, memsize |-> 0, alloc |-> FirstAlloc, active |-> {},
               width |-> [c \in FontChars |-> 0], bits |-> [c \in FontChars |-> {}],
               fits |-> TRUE, moved |-> FALSE]
    BY <1>3 DEF Text!g15r_requestG15DefaultFont
  <2>3. WidthsOf(s2, {}) = [c \in FontChars |-> 0] /\ BitsOf(s2, {}) = [c \in FontChars |-> {}]
    BY DEF WidthsOf, BitsOf
  <2>4. Cardinality(s2.active) \in Nat
    BY <2>1, SavedIs
  <2>5. {Text!Sorted(s2.active)[j] : j \in 1 .. 0} = {}
    OBVIOUS
  <2>6. Loading(s3', s2)
    <3> DEFINE l == s3'
               W == WidthsOf(s2, {})
               B == BitsOf(s2, {})
    <3>1. l = [i |-> 0, memsize |-> 0, alloc |-> FirstAlloc, active |-> {},
               width |-> W, bits |-> B, fits |-> TRUE, moved |-> FALSE]
      BY <2>2, <2>3
    <3> HIDE DEF l, W, B
    <3>2. /\ l.i = 0 /\ l.memsize = 0 /\ l.alloc = FirstAlloc /\ l.active = {} /\ l.moved = FALSE
          /\ l = [i |-> l.i, memsize |-> l.memsize, alloc |-> l.alloc, active |-> l.active,
                  width |-> W, bits |-> B, fits |-> TRUE, moved |-> l.moved]
      BY <3>1
    <3>3. l.i \in 0 .. Cardinality(s2.active) /\ l.memsize \in Nat /\ l.alloc \in Nat /\ l.memsize <= l.alloc
      BY <2>1, <2>4, <3>2
    <3>4. l.active = {Text!Sorted(s2.active)[j] : j \in 1 .. l.i}
      BY <2>5, <3>2
    <3>5. W = WidthsOf(s2, l.active) /\ B = BitsOf(s2, l.active)
      BY <3>2 DEF W, B
    <3>6. Loading(l, s2)
      BY <3>2, <3>3, <3>4, <3>5 DEF Loading
    <3>7. QED
      BY <3>6 DEF l
  <2>7. QED
    BY <1>1, <1>3, <2>6 DEF FontInv
<1>4. QED
  BY <1>2, <1>3

LEMMA GlyphKeeps ==
  ASSUME Text!FontAssumption, FontInv, Text!LoadGlyph
  PROVE  FontInv'
<1> DEFINE f == s2
           l == s3
           n == Cardinality(f.active)
           c == Text!Sorted(f.active)[l.i + 1]
           g == s1.glyphs[l.i + 1]
           size == Text!GlyphBytes(s1.height, g.width)
           memsize == l.memsize + size
           alloc == IF memsize > l.alloc THEN l.alloc + size * (s1.numchars - l.i) ELSE l.alloc
<1>1. /\ UNCHANGED <<s1, s2, s4, s5>> /\ l # Text!None /\ l.i < s1.numchars
      /\ \E moves \in BOOLEAN :
           l' = [l EXCEPT !.i = l.i + 1, !.memsize = memsize, !.alloc = alloc,
                          !.width[g.code] = g.width % 256, !.bits[g.code] = g.bits,
                          !.active = l.active \union {g.code},
                          !.fits = l.fits /\ l.memsize + size <= alloc,
                          !.moved = l.moved \/ moves]
  BY DEF Text!LoadGlyph
<1>2. /\ f \in FontFaces /\ s1 = Text!g15r_saveG15Font(f) /\ s1 # Text!None /\ s4 = Text!None
      /\ Loading(l, f)
  BY <1>1 DEF FontInv
<1>3. /\ n \in Nat /\ s1.numchars = n /\ s1.height = f.height /\ f.height \in Nat
      /\ l.i \in 0 .. n /\ l.i < n /\ l.i + 1 \in 1 .. n
      /\ l.memsize \in Nat /\ l.alloc \in Nat /\ l.memsize <= l.alloc
  <2>1. n \in Nat /\ s1.numchars = n /\ s1.height = f.height
    BY <1>2, SavedIs
  <2>2. f.height \in Nat
    BY <1>2, FaceKnown
  <2>3. l.i \in 0 .. n /\ l.memsize \in Nat /\ l.alloc \in Nat /\ l.memsize <= l.alloc
    BY <1>2 DEF Loading
  <2>4. l.i < n
    BY <1>1, <2>1
  <2> HIDE DEF n
  <2>5. l.i + 1 \in 1 .. n
    BY <2>1, <2>3, <2>4
  <2>6. QED
    BY <2>1, <2>2, <2>3, <2>4, <2>5
<1>4. c \in f.active /\ g = Text!Saved(f, c)
  BY <1>2, <1>3, SavedIs
<1>5. /\ c \in FontChars /\ g.code = c /\ g.width = f.glyph[c].width /\ g.bits = Text!Packed(f.glyph[c])
      /\ g.width \in 0 .. 255
  <2>1. f.active \subseteq FontChars /\ f.glyph[c].width \in 0 .. 255
    BY <1>2, <1>4, FaceKnown
  <2>2. g.code = c /\ g.width = f.glyph[c].width /\ g.bits = Text!Packed(f.glyph[c])
    BY <1>4 DEF Text!Saved
  <2> HIDE DEF c, g
  <2>3. QED
    BY <1>4, <2>1, <2>2
<1>6. size \in Nat
  <2> DEFINE w == g.width
             h == s1.height
  <2>1. w \in 0 .. 255 /\ h \in Nat
    BY <1>3, <1>5
  <2> HIDE DEF w, h
  <2>2. (w + 7) \div 8 \in Nat
    BY <2>1
  <2>3. h * ((w + 7) \div 8) \in Nat
    BY <2>1, <2>2
  <2>4. QED
    BY <2>3 DEF w, h, Text!GlyphBytes, Text!RowBytes
<1>7. memsize \in Nat /\ alloc \in Nat /\ memsize <= alloc
  <2> DEFINE k == n - l.i
  <2>1. k \in Nat \ {0} /\ s1.numchars - l.i = k
    BY <1>3
  <2> HIDE DEF size, k
  <2>2. size * k \in Nat /\ size <= size * k
    BY <1>6, <2>1
  <2>3. QED
    BY <1>3, <1>6, <2>1, <2>2
<1>8. g.width % 256 = f.glyph[c].width
  <2>1. \A w \in 0 .. 255 : w % 256 = w
    OBVIOUS
  <2>2. g.width % 256 = g.width
    BY <1>5, <2>1
  <2>3. QED
    BY <1>5, <2>2
<1> DEFINE A == l.active
           B == A \cup {c}
<1>9. /\ [WidthsOf(f, A) EXCEPT ![c] = f.glyph[c].width] = WidthsOf(f, B)
      /\ [BitsOf(f, A) EXCEPT ![c] = Text!Packed(f.glyph[c])] = BitsOf(f, B)
  BY <1>5 DEF WidthsOf, BitsOf
<1>10. B = {Text!Sorted(f.active)[j] : j \in 1 .. l.i + 1}
  <2> DEFINE s == Text!Sorted(f.active)
             i == l.i
  <2>1. A = {s[j] : j \in 1 .. i} /\ i \in Nat
    BY <1>2, <1>3 DEF Loading
  <2>2. B = A \cup {s[i + 1]}
    OBVIOUS
  <2> HIDE DEF s, i, A, B
  <2>3. B = {s[j] : j \in 1 .. i + 1}
    BY <2>1, <2>2
  <2>4. QED
    BY <2>3 DEF s, i
<1>11. l = [i |-> l.i, memsize |-> l.memsize, alloc |-> l.alloc, active |-> A,
            width |-> WidthsOf(f, A), bits |-> BitsOf(f, A), fits |-> TRUE, moved |-> l.moved]
  BY <1>2 DEF Loading
<1> HIDE DEF memsize, alloc, B, n, c, g, size
<1>12. PICK moves \in BOOLEAN :
         l' = [l EXCEPT !.i = l.i + 1, !.memsize = memsize, !.alloc = alloc,
                        !.width[c] = f.glyph[c].width, !.bits[c] = Text!Packed(f.glyph[c]),
                        !.active = B, !.fits = l.fits /\ l.memsize + size <= alloc,
                        !.moved = l.moved \/ moves]
  BY <1>1, <1>5, <1>8 DEF B
<1>13. l' = [i |-> l.i + 1, memsize |-> memsize, alloc |-> alloc, active |-> B,
             width |-> [WidthsOf(f, A) EXCEPT ![c] = f.glyph[c].width],
             bits |-> [BitsOf(f, A) EXCEPT ![c] = Text!Packed(f.glyph[c])],
             fits |-> l.fits /\ l.memsize + size <= alloc, moved |-> l.moved \/ moves]
  <2>1. l.width = WidthsOf(f, A) /\ l.bits = BitsOf(f, A)
    BY <1>11
  <2>2. QED
    BY <1>11, <1>12, <2>1
<1>14. l.fits = TRUE /\ l.memsize + size <= alloc
  <2>1. l.fits = TRUE
    BY <1>11
  <2>2. QED
    BY <1>7, <2>1 DEF memsize
<1>15. l' = [i |-> l.i + 1, memsize |-> memsize, alloc |-> alloc, active |-> B,
             width |-> WidthsOf(f, B), bits |-> BitsOf(f, B), fits |-> TRUE, moved |-> l.moved \/ moves]
  BY <1>9, <1>13, <1>14
<1>16. l.i + 1 \in 0 .. n
  BY <1>3
<1>17. Loading(l', f)
  BY <1>7, <1>10, <1>15, <1>16 DEF Loading, n
<1>18. QED
  BY <1>1, <1>2, <1>17 DEF FontInv

LEMMA FontInit == Text!Init => FontInv
  BY DEF Text!Init, FontInv

LEMMA ConvertKeeps ==
  ASSUME Text!FontAssumption, FontInv, Text!convertG15Font
  PROVE  FontInv'
<1>1. /\ UNCHANGED <<s3, s4, s5>> /\ s3 = Text!None /\ s4 = Text!None
      /\ s2' \in FontFaces /\ s1' = Text!g15r_saveG15Font(s2')
  BY DEF Text!convertG15Font
<1>2. s3' = Text!None /\ s4' = Text!None /\ s5 = Text!None /\ s5' = Text!None
  BY <1>1 DEF FontInv
<1>3. QED
  BY <1>1, <1>2 DEF FontInv

LEMMA DoneKeeps ==
  ASSUME Text!FontAssumption, FontInv, Text!LoadDone
  PROVE  FontInv'
<1> DEFINE n == Cardinality(s2.active)
           S == s2.active
<1>1. /\ UNCHANGED <<s1, s2, s5>> /\ s3 # Text!None /\ s3.i = s1.numchars /\ s3' = Text!None
      /\ s4' = [height |-> s1.height, gap |-> s1.gap, width |-> s3.width, bits |-> s3.bits,
                active |-> s3.active, fits |-> s3.fits, moved |-> s3.moved]
  BY DEF Text!LoadDone
<1>2. /\ s2 \in FontFaces /\ s1 = Text!g15r_saveG15Font(s2) /\ s1 # Text!None /\ s4 = Text!None
      /\ Loading(s3, s2)
  BY <1>1 DEF FontInv
<1>3. /\ s1.height = s2.height /\ s1.gap = s2.gap /\ s1.numchars = n
      /\ {Text!Sorted(S)[j] : j \in 1 .. n} = S
  BY <1>2, SavedIs
<1>4. s3.active = {Text!Sorted(S)[j] : j \in 1 .. s3.i}
  BY <1>2 DEF Loading
<1>5. s3.active = S
  BY <1>1, <1>3, <1>4
<1>6. /\ s3.width = WidthsOf(s2, s3.active) /\ s3.bits = BitsOf(s2, s3.active) /\ s3.fits = TRUE
  <2> DEFINE W == WidthsOf(s2, s3.active)
             B == BitsOf(s2, s3.active)
  <2>1. s3 = [i |-> s3.i, memsize |-> s3.memsize, alloc |-> s3.alloc, active |-> s3.active,
              width |-> W, bits |-> B, fits |-> TRUE, moved |-> s3.moved]
    BY <1>2 DEF Loading
  <2> HIDE DEF W, B
  <2>2. s3.width = W /\ s3.bits = B /\ s3.fits = TRUE
    BY <2>1
  <2>3. QED
    BY <2>2 DEF W, B
<1>7. s4' = Loaded(s2, s3.moved)
  BY <1>1, <1>3, <1>5, <1>6 DEF Loaded
<1>8. s4'.moved = s3.moved
  BY <1>7 DEF Loaded
<1>9. s5' = Text!None
  BY <1>1, <1>2 DEF FontInv
<1>10. s4' = Loaded(s2', s4'.moved)
  BY <1>1, <1>7, <1>8
<1>11. QED
  BY <1>1, <1>2, <1>9, <1>10 DEF FontInv

\* A loaded font can be measured.
LEMMA LoadedReadable ==
  ASSUME Text!FontAssumption, NEW f \in FontFaces, NEW moved
  PROVE  Readable(Loaded(f, moved))
<1> DEFINE W == WidthsOf(f, f.active)
           A == f.active
<1>1. f.gap \in 0 .. 255 /\ \A c \in A : f.glyph[c].width \in 0 .. 255
  BY FaceKnown
<1>2. W \in [FontChars -> 0 .. 255] /\ \A c \in FontChars \ A : W[c] = 0
  BY <1>1 DEF WidthsOf
<1>3. Loaded(f, moved).gap = f.gap /\ Loaded(f, moved).width = W /\ Loaded(f, moved).active = A
  BY DEF Loaded
<1> HIDE DEF W, A
<1>4. QED
  BY <1>1, <1>2, <1>3 DEF Readable

LEMMA PrintKeeps ==
  ASSUME Text!FontAssumption, FontInv, Text!PrintText
  PROVE  FontInv'
<1>1. UNCHANGED <<s1, s2, s3, s4>> /\ s4 # Text!None /\ s3 = Text!None
  BY DEF Text!PrintText
<1>2. PICK s \in FontTexts, x \in {0, 5}, center \in 0 .. 2 :
        s5' = [center |-> center, at |-> Text!g15r_G15FPrint(s4, s, x, center)]
  BY DEF Text!PrintText
<1>3. s1 # Text!None /\ s2 \in FontFaces /\ s4 = Loaded(s2, s4.moved)
  BY <1>1 DEF FontInv
<1>4. Readable(s4)
  BY <1>3, LoadedReadable
<1>5. Placed(s4, [center |-> center, at |-> Text!g15r_G15FPrint(s4, s, x, center)])
  <2>1. x \in Int
    OBVIOUS
  <2>2. QED
    BY <1>4, <2>1, TextFits
<1>6. Placed(s4', s5')
  BY <1>1, <1>2, <1>5
<1>7. QED
  BY <1>1, <1>3, <1>6 DEF FontInv

LEMMA FontStep ==
  ASSUME Text!FontAssumption, FontInv, [Text!Next]_(Text!vars)
  PROVE  FontInv'
<1>1. CASE UNCHANGED Text!vars
  BY <1>1 DEF Text!vars, FontInv
<1>2. QED
  BY <1>1, ConvertKeeps, RequestKeeps, GlyphKeeps, DoneKeeps, PrintKeeps DEF Text!Next

\* What the invariant says is what is to be seen.
LEMMA FontShown ==
  ASSUME Text!FontAssumption, FontInv
  PROVE  Text!TextShown
<1>1. ASSUME s4 # Text!None
      PROVE  /\ s4.fits /\ s4.active = s2.active
             /\ \A c \in s4.active : Text!RenderedPixels(s4.width[c], s4.bits[c])
                                       = {<<p[1] + 1, p[2]>> : p \in s2.glyph[c].pixels}
  <2>1. s2 \in FontFaces /\ s4 = Loaded(s2, s4.moved)
    BY <1>1 DEF FontInv
  <2>2. /\ s4.fits = TRUE /\ s4.active = s2.active
        /\ s4.width = WidthsOf(s2, s2.active) /\ s4.bits = BitsOf(s2, s2.active)
    BY <2>1 DEF Loaded
  <2>3. ASSUME NEW c \in s2.active
        PROVE  Text!RenderedPixels(s4.width[c], s4.bits[c]) = {<<p[1] + 1, p[2]>> : p \in s2.glyph[c].pixels}
    <3> DEFINE w == s2.glyph[c].width
               P == s2.glyph[c].pixels
               h == s2.height
    <3>1. w \in 0 .. 255 /\ h \in Nat /\ P \in SUBSET ((0 .. w - 1) \X (0 .. h - 1)) /\ c \in FontChars
      BY <2>1, FaceKnown
    <3>2. s4.width[c] = w /\ s4.bits[c] = {Text!BitOf(w, p) : p \in P}
      BY <2>2, <3>1 DEF WidthsOf, BitsOf, Text!Packed
    <3> HIDE DEF w, P, h
    <3>3. Text!RenderedPixels(w, {Text!BitOf(w, p) : p \in P}) = {<<p[1] + 1, p[2]>> : p \in P}
      BY <3>1, GlyphSurvives
    <3>4. QED
      BY <3>2, <3>3 DEF P
  <2>4. QED
    BY <2>2, <2>3
<1>2. Text!GlyphsSurvive
  BY <1>1 DEF Text!GlyphsSurvive
<1>3. Text!TextPlaced
  BY DEF FontInv, Placed, Text!TextPlaced
<1>4. QED
  BY <1>2, <1>3 DEF Text!TextShown

-----------------------------------------------------------------------------
(* The clock's dial.                                                       *)
\* The sine of every minute, and where the hands end.
LEMMA SinesAre ==
  /\ Dial!Sine(0) = 0 /\ Dial!Sine(1) = 1045 /\ Dial!Sine(2) = 2079 /\ Dial!Sine(3) = 3090
  /\ Dial!Sine(4) = 4067 /\ Dial!Sine(5) = 5000 /\ Dial!Sine(6) = 5878 /\ Dial!Sine(7) = 6691
  /\ Dial!Sine(8) = 7431 /\ Dial!Sine(9) = 8090 /\ Dial!Sine(10) = 8660 /\ Dial!Sine(11) = 9135
  /\ Dial!Sine(12) = 9511 /\ Dial!Sine(13) = 9781 /\ Dial!Sine(14) = 9945 /\ Dial!Sine(15) = 10000
  /\ Dial!Sine(16) = 9945 /\ Dial!Sine(17) = 9781 /\ Dial!Sine(18) = 9511 /\ Dial!Sine(19) = 9135
  /\ Dial!Sine(20) = 8660 /\ Dial!Sine(21) = 8090 /\ Dial!Sine(22) = 7431 /\ Dial!Sine(23) = 6691
  /\ Dial!Sine(24) = 5878 /\ Dial!Sine(25) = 5000 /\ Dial!Sine(26) = 4067 /\ Dial!Sine(27) = 3090
  /\ Dial!Sine(28) = 2079 /\ Dial!Sine(29) = 1045 /\ Dial!Sine(30) = 0 /\ Dial!Sine(31) = -1045
  /\ Dial!Sine(32) = -2079 /\ Dial!Sine(33) = -3090 /\ Dial!Sine(34) = -4067 /\ Dial!Sine(35) = -5000
  /\ Dial!Sine(36) = -5878 /\ Dial!Sine(37) = -6691 /\ Dial!Sine(38) = -7431 /\ Dial!Sine(39) = -8090
  /\ Dial!Sine(40) = -8660 /\ Dial!Sine(41) = -9135 /\ Dial!Sine(42) = -9511 /\ Dial!Sine(43) = -9781
  /\ Dial!Sine(44) = -9945 /\ Dial!Sine(45) = -10000 /\ Dial!Sine(46) = -9945 /\ Dial!Sine(47) = -9781
  /\ Dial!Sine(48) = -9511 /\ Dial!Sine(49) = -9135 /\ Dial!Sine(50) = -8660 /\ Dial!Sine(51) = -8090
  /\ Dial!Sine(52) = -7431 /\ Dial!Sine(53) = -6691 /\ Dial!Sine(54) = -5878 /\ Dial!Sine(55) = -5000
  /\ Dial!Sine(56) = -4067 /\ Dial!Sine(57) = -3090 /\ Dial!Sine(58) = -2079 /\ Dial!Sine(59) = -1045
<1>1. /\ Dial!Sines[1] = 0 /\ Dial!Sines[2] = 1045 /\ Dial!Sines[3] = 2079 /\ Dial!Sines[4] = 3090
      /\ Dial!Sines[5] = 4067 /\ Dial!Sines[6] = 5000 /\ Dial!Sines[7] = 5878 /\ Dial!Sines[8] = 6691
      /\ Dial!Sines[9] = 7431 /\ Dial!Sines[10] = 8090 /\ Dial!Sines[11] = 8660 /\ Dial!Sines[12] = 9135
      /\ Dial!Sines[13] = 9511 /\ Dial!Sines[14] = 9781 /\ Dial!Sines[15] = 9945 /\ Dial!Sines[16] = 10000
  BY DEF Dial!Sines
<1>2. QED
  BY <1>1 DEF Dial!Sine

LEMMA CosineIs ==
  /\ \A m \in 0 .. 44 : Dial!Cosine(m) = Dial!Sine(m + 15)
  /\ \A m \in 45 .. 59 : Dial!Cosine(m) = Dial!Sine(m - 45)
<1>1. \A m \in 45 .. 59 : (m + 15) % 60 = (m - 45) % 60
  OBVIOUS
<1>2. QED
  BY <1>1 DEF Dial!Cosine, Dial!Sine

LEMMA PosIs ==
  \A m \in 0 .. 59, short \in {6, 9} :
    Dial!get_clock_pos(m, short) = <<Dial!Rounded(250000 + Dial!Sine(m) * (21 - short)),
                                   Dial!Rounded(210000 - Dial!Cosine(m) * (20 - short))>>
<1>1. \A m \in 0 .. 59 : m % 60 = m
  OBVIOUS
<1>2. QED
  BY <1>1 DEF Dial!get_clock_pos, Dial!CLOCK_CENTERX, Dial!CLOCK_CENTERY, Dial!CLOCK_RADIUS

LEMMA MinuteEnds ==
  /\ Dial!get_clock_pos(0, 6) = <<25, 7>> /\ Dial!get_clock_pos(1, 6) = <<27, 7>>
  /\ Dial!get_clock_pos(2, 6) = <<28, 7>> /\ Dial!get_clock_pos(3, 6) = <<30, 8>>
  /\ Dial!get_clock_pos(4, 6) = <<31, 8>> /\ Dial!get_clock_pos(5, 6) = <<33, 9>>
  /\ Dial!get_clock_pos(6, 6) = <<34, 10>> /\ Dial!get_clock_pos(7, 6) = <<35, 11>>
  /\ Dial!get_clock_pos(8, 6) = <<36, 12>> /\ Dial!get_clock_pos(9, 6) = <<37, 13>>
  /\ Dial!get_clock_pos(10, 6) = <<38, 14>> /\ Dial!get_clock_pos(11, 6) = <<39, 15>>
  /\ Dial!get_clock_pos(12, 6) = <<39, 17>> /\ Dial!get_clock_pos(13, 6) = <<40, 18>>
  /\ Dial!get_clock_pos(14, 6) = <<40, 20>> /\ Dial!get_clock_pos(15, 6) = <<40, 21>>
  /\ Dial!get_clock_pos(16, 6) = <<40, 22>> /\ Dial!get_clock_pos(17, 6) = <<40, 24>>
  /\ Dial!get_clock_pos(18, 6) = <<39, 25>> /\ Dial!get_clock_pos(19, 6) = <<39, 27>>
  /\ Dial!get_clock_pos(20, 6) = <<38, 28>> /\ Dial!get_clock_pos(21, 6) = <<37, 29>>
  /\ Dial!get_clock_pos(22, 6) = <<36, 30>> /\ Dial!get_clock_pos(23, 6) = <<35, 31>>
  /\ Dial!get_clock_pos(24, 6) = <<34, 32>> /\ Dial!get_clock_pos(25, 6) = <<33, 33>>
  /\ Dial!get_clock_pos(26, 6) = <<31, 34>> /\ Dial!get_clock_pos(27, 6) = <<30, 34>>
  /\ Dial!get_clock_pos(28, 6) = <<28, 35>> /\ Dial!get_clock_pos(29, 6) = <<27, 35>>
  /\ Dial!get_clock_pos(30, 6) = <<25, 35>> /\ Dial!get_clock_pos(31, 6) = <<23, 35>>
  /\ Dial!get_clock_pos(32, 6) = <<22, 35>> /\ Dial!get_clock_pos(33, 6) = <<20, 34>>
  /\ Dial!get_clock_pos(34, 6) = <<19, 34>> /\ Dial!get_clock_pos(35, 6) = <<18, 33>>
  /\ Dial!get_clock_pos(36, 6) = <<16, 32>> /\ Dial!get_clock_pos(37, 6) = <<15, 31>>
  /\ Dial!get_clock_pos(38, 6) = <<14, 30>> /\ Dial!get_clock_pos(39, 6) = <<13, 29>>
  /\ Dial!get_clock_pos(40, 6) = <<12, 28>> /\ Dial!get_clock_pos(41, 6) = <<11, 27>>
  /\ Dial!get_clock_pos(42, 6) = <<11, 25>> /\ Dial!get_clock_pos(43, 6) = <<10, 24>>
  /\ Dial!get_clock_pos(44, 6) = <<10, 22>> /\ Dial!get_clock_pos(45, 6) = <<10, 21>>
  /\ Dial!get_clock_pos(46, 6) = <<10, 20>> /\ Dial!get_clock_pos(47, 6) = <<10, 18>>
  /\ Dial!get_clock_pos(48, 6) = <<11, 17>> /\ Dial!get_clock_pos(49, 6) = <<11, 15>>
  /\ Dial!get_clock_pos(50, 6) = <<12, 14>> /\ Dial!get_clock_pos(51, 6) = <<13, 13>>
  /\ Dial!get_clock_pos(52, 6) = <<14, 12>> /\ Dial!get_clock_pos(53, 6) = <<15, 11>>
  /\ Dial!get_clock_pos(54, 6) = <<16, 10>> /\ Dial!get_clock_pos(55, 6) = <<18, 9>>
  /\ Dial!get_clock_pos(56, 6) = <<19, 8>> /\ Dial!get_clock_pos(57, 6) = <<20, 8>>
  /\ Dial!get_clock_pos(58, 6) = <<22, 7>> /\ Dial!get_clock_pos(59, 6) = <<23, 7>>
  BY PosIs, CosineIs, SinesAre DEF Dial!Rounded

LEMMA HourEnds ==
  /\ Dial!get_clock_pos(0, 9) = <<25, 10>> /\ Dial!get_clock_pos(1, 9) = <<26, 10>>
  /\ Dial!get_clock_pos(2, 9) = <<27, 10>> /\ Dial!get_clock_pos(3, 9) = <<29, 11>>
  /\ Dial!get_clock_pos(4, 9) = <<30, 11>> /\ Dial!get_clock_pos(5, 9) = <<31, 11>>
  /\ Dial!get_clock_pos(6, 9) = <<32, 12>> /\ Dial!get_clock_pos(7, 9) = <<33, 13>>
  /\ Dial!get_clock_pos(8, 9) = <<34, 14>> /\ Dial!get_clock_pos(9, 9) = <<35, 15>>
  /\ Dial!get_clock_pos(10, 9) = <<35, 16>> /\ Dial!get_clock_pos(11, 9) = <<36, 17>>
  /\ Dial!get_clock_pos(12, 9) = <<36, 18>> /\ Dial!get_clock_pos(13, 9) = <<37, 19>>
  /\ Dial!get_clock_pos(14, 9) = <<37, 20>> /\ Dial!get_clock_pos(15, 9) = <<37, 21>>
  /\ Dial!get_clock_pos(16, 9) = <<37, 22>> /\ Dial!get_clock_pos(17, 9) = <<37, 23>>
  /\ Dial!get_clock_pos(18, 9) = <<36, 24>> /\ Dial!get_clock_pos(19, 9) = <<36, 25>>
  /\ Dial!get_clock_pos(20, 9) = <<35, 27>> /\ Dial!get_clock_pos(21, 9) = <<35, 27>>
  /\ Dial!get_clock_pos(22, 9) = <<34, 28>> /\ Dial!get_clock_pos(23, 9) = <<33, 29>>
  /\ Dial!get_clock_pos(24, 9) = <<32, 30>> /\ Dial!get_clock_pos(25, 9) = <<31, 31>>
  /\ Dial!get_clock_pos(26, 9) = <<30, 31>> /\ Dial!get_clock_pos(27, 9) = <<29, 31>>
  /\ Dial!get_clock_pos(28, 9) = <<27, 32>> /\ Dial!get_clock_pos(29, 9) = <<26, 32>>
  /\ Dial!get_clock_pos(30, 9) = <<25, 32>> /\ Dial!get_clock_pos(31, 9) = <<24, 32>>
  /\ Dial!get_clock_pos(32, 9) = <<23, 32>> /\ Dial!get_clock_pos(33, 9) = <<21, 31>>
  /\ Dial!get_clock_pos(34, 9) = <<20, 31>> /\ Dial!get_clock_pos(35, 9) = <<19, 31>>
  /\ Dial!get_clock_pos(36, 9) = <<18, 30>> /\ Dial!get_clock_pos(37, 9) = <<17, 29>>
  /\ Dial!get_clock_pos(38, 9) = <<16, 28>> /\ Dial!get_clock_pos(39, 9) = <<15, 27>>
  /\ Dial!get_clock_pos(40, 9) = <<15, 27>> /\ Dial!get_clock_pos(41, 9) = <<14, 25>>
  /\ Dial!get_clock_pos(42, 9) = <<14, 24>> /\ Dial!get_clock_pos(43, 9) = <<13, 23>>
  /\ Dial!get_clock_pos(44, 9) = <<13, 22>> /\ Dial!get_clock_pos(45, 9) = <<13, 21>>
  /\ Dial!get_clock_pos(46, 9) = <<13, 20>> /\ Dial!get_clock_pos(47, 9) = <<13, 19>>
  /\ Dial!get_clock_pos(48, 9) = <<14, 18>> /\ Dial!get_clock_pos(49, 9) = <<14, 17>>
  /\ Dial!get_clock_pos(50, 9) = <<15, 16>> /\ Dial!get_clock_pos(51, 9) = <<15, 15>>
  /\ Dial!get_clock_pos(52, 9) = <<16, 14>> /\ Dial!get_clock_pos(53, 9) = <<17, 13>>
  /\ Dial!get_clock_pos(54, 9) = <<18, 12>> /\ Dial!get_clock_pos(55, 9) = <<19, 11>>
  /\ Dial!get_clock_pos(56, 9) = <<20, 11>> /\ Dial!get_clock_pos(57, 9) = <<21, 11>>
  /\ Dial!get_clock_pos(58, 9) = <<23, 10>> /\ Dial!get_clock_pos(59, 9) = <<24, 10>>
  BY PosIs, CosineIs, SinesAre DEF Dial!Rounded

\* The minute hand is nowhere twice, and neither is the hour hand at the same minute.
LEMMA MinutesApart ==
  ASSUME NEW a \in 0 .. 59, NEW b \in 0 .. 59, Dial!get_clock_pos(a, 6) = Dial!get_clock_pos(b, 6)
  PROVE  a = b
  BY MinuteEnds, SMTT(30)

LEMMA HoursApart ==
  ASSUME NEW a \in 0 .. 59, NEW b \in 0 .. 59, Dial!get_clock_pos(a, 9) = Dial!get_clock_pos(b, 9)
  PROVE  a = b \/ (a \in 20 .. 21 /\ b \in 20 .. 21) \/ (a \in 39 .. 40 /\ b \in 39 .. 40)
  BY HourEnds, SMTT(30)

LEMMA HoursTold ==
  ASSUME NEW h \in 0 .. 11, NEW k \in 0 .. 11, NEW c \in 0 .. 4,
         Dial!get_clock_pos(h * 5 + c, 9) = Dial!get_clock_pos(k * 5 + c, 9)
  PROVE  h = k
<1>1. h * 5 + c \in 0 .. 59 /\ k * 5 + c \in 0 .. 59
  OBVIOUS
<1>2. \/ h * 5 + c = k * 5 + c
      \/ (h * 5 + c \in 20 .. 21 /\ k * 5 + c \in 20 .. 21)
      \/ (h * 5 + c \in 39 .. 40 /\ k * 5 + c \in 39 .. 40)
  BY <1>1, HoursApart
<1>3. QED
  BY <1>2

DialInv ==
  /\ s1 \in 0 .. 23 /\ s2 \in 0 .. 59
  /\ s6.kind = "analog" => s6.hands = Dial!Hands(s1, s2)

LEMMA DialInit == Dial!Init => DialInv
<1> SUFFICES ASSUME Dial!Init PROVE DialInv
  OBVIOUS
<1>1. s1 \in 0 .. 23 /\ s2 = 0
  BY DialAssumption DEF Dial!Init
<1>2. s6.kind = "digital"
  BY DEF Dial!Init, Dial!lcdclock, Dial!draw_digital
<1>3. QED
  BY <1>1, <1>2 DEF DialInv

LEMMA DialStep ==
  ASSUME DialHours \subseteq 0 .. 23, DialInv, [Dial!Next]_(Dial!vars)
  PROVE  DialInv'
<1>1. ASSUME NEW h, NEW m, NEW mode, NEW date
      PROVE  /\ Dial!draw_digital(h, m, mode, date).kind = "digital"
             /\ Dial!draw_analog(h, m, mode, date).hands = Dial!Hands(h, m)
  BY DEF Dial!draw_digital, Dial!draw_analog
<1>2. CASE UNCHANGED Dial!vars
  BY <1>2 DEF Dial!vars, DialInv
<1>3. CASE Dial!NextMinute
  <2>1. s1' \in 0 .. 23 /\ s2' \in 0 .. 59
    BY <1>3 DEF Dial!NextMinute, DialInv
  <2>2. s6'.kind = "analog" => s6'.hands = Dial!Hands(s1', s2')
    BY <1>1, <1>3 DEF Dial!NextMinute, Dial!lcdclock
  <2>3. QED
    BY <2>1, <2>2 DEF DialInv
<1>4. CASE Dial!myeventhandler
  <2>1. UNCHANGED <<s1, s2>>
    BY <1>4 DEF Dial!myeventhandler, Dial!Key
  <2>2. s6'.kind = "analog" => s6'.hands = Dial!Hands(s1, s2)
    BY <1>1, <1>4 DEF Dial!myeventhandler, Dial!Key
  <2>3. QED
    BY <2>1, <2>2 DEF DialInv
<1>5. QED
  BY <1>2, <1>3, <1>4 DEF Dial!Next

LEMMA DialShown ==
  ASSUME DialInv
  PROVE  Dial!HandsTellTime
<1>1. s1 \in 0 .. 23 /\ s2 \in 0 .. 59 /\ (s6.kind = "analog" => s6.hands = Dial!Hands(s1, s2))
  BY DEF DialInv
<1>2. \A h \in 0 .. 11, m \in 0 .. 59 : Dial!Dial[<<h, m>>] = Dial!Hands(h, m)
  BY DEF Dial!Dial
<1>3. ASSUME NEW h \in 0 .. 11, NEW m \in 0 .. 59, Dial!Hands(h, m) = Dial!Hands(s1, s2)
      PROVE  h = s1 % 12 /\ m = s2
  <2> DEFINE k == s1 % 12
  <2>1. h % 12 = h /\ k \in 0 .. 11
    BY <1>1
  <2> HIDE DEF k
  <2>2. /\ Dial!get_clock_pos(h * 5 + (m * 5) \div 60, 9) = Dial!get_clock_pos(k * 5 + (s2 * 5) \div 60, 9)
        /\ Dial!get_clock_pos(m, 6) = Dial!get_clock_pos(s2, 6)
    BY <1>3, <2>1 DEF Dial!Hands, k
  <2>3. m = s2
    BY <1>1, <2>2, MinutesApart
  <2>4. \A b \in 0 .. 59 : (b * 5) \div 60 \in 0 .. 4
    OBVIOUS
  <2>5. (s2 * 5) \div 60 \in 0 .. 4
    BY <1>1, <2>4
  <2>6. h = k
    BY <2>1, <2>2, <2>3, <2>5, HoursTold
  <2>7. QED
    BY <2>3, <2>6 DEF k
<1>4. QED
  BY <1>1, <1>2, <1>3 DEF Dial!HandsTellTime

-----------------------------------------------------------------------------
(* What is to be read on the panel.                                        *)
(* On a panel of any size whose rows are whole bytes, whatever pixels and frames  *)
(* programs send in whatever order, the device shows exactly the program's        *)
(* picture (g15r_setPixel, uf_convert_buf, dumpPixmapIntoLCDFormat).  Whatever    *)
(* faces are converted, saved and loaded, each glyph comes out with its pixels,   *)
(* and whatever text is printed with them, its characters do not overlap and lie  *)
(* where they were to (g15r_saveG15Font, g15r_loadG15Font, g15r_G15FPrint).  At   *)
(* every minute of the day the hands of the clock tell the time (lcdclock).       *)
THEOREM PanelStays ==
  ASSUME PanelAssumption, PanelRows \in Nat, PanelOffset \in Nat
  PROVE  PartSpec => []PanelShown
<1> DEFINE I == /\ part = "panel" => PanelInv
                /\ part = "fonts" => FontInv
                /\ part = "dial" => DialInv
<1>1. PartInit => I
  BY DialInit, FontInit DEF PartInit, LCD!Init, PanelInv
<1>2. I /\ [PartNext]_partvars => I'
  <2> SUFFICES ASSUME I, [PartNext]_partvars PROVE I'
    OBVIOUS
  <2>1. ASSUME part' = "panel" PROVE PanelInv'
    <3>1. part = "panel" /\ [LCD!Next]_(LCD!vars)
      BY <2>1 DEF PartNext, partvars, from1, LCD!vars
    <3>2. QED
      BY <3>1, PictureStep
  <2>2. ASSUME part' = "fonts" PROVE FontInv'
    <3>1. part = "fonts" /\ [Text!Next]_(Text!vars)
      BY <2>2 DEF PartNext, partvars, from1, from3, from5, from6, Text!vars
    <3>2. QED
      BY <3>1, FontStep, FontAssumption
  <2>3. ASSUME part' = "dial" PROVE DialInv'
    <3>1. part = "dial" /\ [Dial!Next]_(Dial!vars)
      BY <2>3 DEF PartNext, partvars, from1, from3, from5, from6, Dial!vars
    <3>2. QED
      BY <3>1, DialStep, DialAssumption
  <2>4. QED
    BY <2>1, <2>2, <2>3
<1>3. I => PanelShown
  BY PictureShown, FontShown, DialShown, FontAssumption DEF PanelShown
<1>4. QED
  BY <1>1, <1>2, <1>3, PTL DEF PartSpec

-----------------------------------------------------------------------------
(* The draw loop.                                                          *)
\* The inductive invariant.  NetFrameWhole needs to know that a buffer is torn only
\* while its thread copies, or by an image that was cut, and that a client's thread
\* copies only with the mutex that the draw thread holds while it draws.
IInv ==
  /\ TypeOK
  /\ LocksHeld
  /\ \A r \in torn \ cut : At(r, "copy")
  /\ NetFrameWhole

USE ScreensAssumption DEF vars, buffers, device, locks, events

LEMMA InitIInv == Init => IInv
<1> SUFFICES ASSUME Init PROVE IInv
  OBVIOUS
<1>1. TypeOK
  <2> USE DEF Init
  <2>1. /\ thread \in [Screens -> [pc : ThreadPC, tmp : Int]]
        /\ draw \in [pc : DrawPC, tmp : Int]
        /\ kbd \in [pc : KbdPC, tmp : Int]
    BY DEF DrawPC, ThreadPC, KbdPC
  <2>2. /\ requests \in [Screens -> 0..MaxRequests]
        /\ plugs \in 0..MaxPlugs
        /\ frame \in [Screens -> Nat]
    OBVIOUS
  <2>3. /\ panel \in [scr : Screens \union {NULL}, frm : Nat, torn : BOOLEAN]
        /\ led \in Screens \union {NULL}
        /\ pending \in Int
    OBVIOUS
  <2>4. QED
    BY <2>1, <2>2, <2>3 DEF TypeOK
<1>2. LocksHeld
  BY DEF Init, LocksHeld, At
<1>3. (\A r \in torn \ cut : At(r, "copy")) /\ NetFrameWhole
  BY DEF Init, NetFrameWhole
<1>4. QED
  BY <1>1, <1>2, <1>3 DEF IInv

\* A thread that goes on keeps its type.
LEMMA GotoTyped ==
  ASSUME TypeOK, NEW s \in Screens, NEW pc \in ThreadPC
  PROVE  [thread EXCEPT ![s].pc = pc] \in [Screens -> [pc : ThreadPC, tmp : Int]]
BY DEF TypeOK

\* The part of the invariant that speaks of a thread's own steps.
LEMMA ScreenIInv ==
  ASSUME IInv, NEW s \in Screens, ThreadRuns(s) \/ ClientRequest(s)
  PROVE  IInv'
<1> USE DEF IInv, At, Goto, ThreadPC
<1>1. CASE FrameArrives(s)
  BY <1>1 DEF FrameArrives, Request, TypeOK, LocksHeld, NetFrameWhole
<1>2. CASE ReqPriority(s)
  BY <1>2 DEF ReqPriority, GiveBack, Request, TypeOK, LocksHeld, NetFrameWhole
<1>3. CASE SetLights(s)
  BY <1>3 DEF SetLights, Request, TypeOK, LocksHeld, NetFrameWhole
<1>4. CASE CopyBegins(s)
  <2> USE <1>4 DEF CopyBegins, MayCopy
  <2>1. TypeOK'
    BY DEF TypeOK
  <2>2. LocksHeld'
    BY DEF TypeOK, LocksHeld
  <2>3. thread' = [thread EXCEPT ![s].pc = "copy"] /\ cut' = cut /\ panel' = panel
    OBVIOUS
  <2>4. \A r \in Screens : At(r, "copy") => At(r, "copy")'
    BY <2>3 DEF TypeOK
  <2>5. At(s, "copy")'
    BY <2>3 DEF TypeOK
  <2>6. ASSUME NEW r \in torn' \ cut' PROVE At(r, "copy")'
    <3>1. r = s \/ (r \in Screens /\ At(r, "copy"))
      BY <2>3 DEF TypeOK
    <3>2. QED
      BY <3>1, <2>4, <2>5
  <2>7. NetFrameWhole'
    BY <2>3 DEF NetFrameWhole
  <2>8. QED
    BY <2>1, <2>2, <2>6, <2>7
<1>5. CASE CopyEnds(s)
  <2> USE <1>5 DEF CopyEnds
  <2>1. ASSUME NEW r \in torn' \ cut' PROVE At(r, "copy")'
    <3>1. r \in Screens \ {s} /\ At(r, "copy")
      BY DEF TypeOK
    <3>2. thread'[r] = thread[r]
      BY <3>1 DEF TypeOK
    <3>3. QED
      BY <3>1, <3>2
  <2>2. NetFrameWhole'
    <3>1. panel' = panel /\ cut' = cut
      OBVIOUS
    <3>2. QED
      BY <3>1 DEF NetFrameWhole
  <2>3. TypeOK'
    <3>1. frame' \in [Screens -> Nat] /\ torn' \subseteq Screens
      BY DEF TypeOK
    <3>2. thread' = [thread EXCEPT ![s].pc = "bcast"] \/ thread' = [thread EXCEPT ![s].pc = "idle"]
      OBVIOUS
    <3>3. /\ [thread EXCEPT ![s].pc = "bcast"] \in [Screens -> [pc : ThreadPC, tmp : Int]]
          /\ [thread EXCEPT ![s].pc = "idle"] \in [Screens -> [pc : ThreadPC, tmp : Int]]
      BY GotoTyped
    <3>4. thread' \in [Screens -> [pc : ThreadPC, tmp : Int]]
      BY <3>2, <3>3
    <3>5. lcdlist' \in Screens \union {"draw", NULL}
      BY DEF TypeOK, Release
    <3>6. QED
      BY <3>1, <3>4, <3>5 DEF TypeOK
  <2>4. LocksHeld'
    <3>1. CASE s = current \/ s \in stateChanged
      <4>1. thread' = [thread EXCEPT ![s].pc = "bcast"] /\ lcdlist' = lcdlist
        BY <3>1
      <4>2. \A r \in Screens \ {s} : thread'[r] = thread[r]
        BY <4>1 DEF TypeOK
      <4>3. thread'[s].pc = "bcast" /\ draw' = draw /\ kbd' = kbd /\ g15lib' = g15lib
        BY <4>1 DEF TypeOK
      <4>4. QED
        BY <4>1, <4>2, <4>3 DEF LocksHeld
    <3>2. CASE ~(s = current \/ s \in stateChanged)
      BY <3>2 DEF TypeOK, LocksHeld, Release
    <3>3. QED
      BY <3>1, <3>2
  <2>5. QED
    BY <2>1, <2>2, <2>3, <2>4
<1>6. CASE Broadcast(s)
  BY <1>6 DEF Broadcast, Wake, DrawPC, TypeOK, LocksHeld, NetFrameWhole
<1>7. CASE PendingLoad(s)
  BY <1>7 DEF PendingLoad, TypeOK, LocksHeld, NetFrameWhole
<1>8. CASE PendingStore(s)
  BY <1>8 DEF PendingStore, Release, TypeOK, LocksHeld, NetFrameWhole
<1>9. QED
  BY <1>1, <1>2, <1>3, <1>4, <1>5, <1>6, <1>7, <1>8 DEF ThreadRuns, ClientRequest

LEMMA DrawIInv == ASSUME IInv, DrawThread PROVE IInv'
<1> USE DEF IInv, At, DrawAt, DrawGoto, DrawPC
<1>1. CASE CheckPending
  BY <1>1 DEF CheckPending, TypeOK, LocksHeld, NetFrameWhole
<1>2. CASE EnterWait
  BY <1>2 DEF EnterWait, TypeOK, LocksHeld, NetFrameWhole
<1>3. CASE WaitTimeout
  BY <1>3 DEF WaitTimeout, AfterTimeout, TypeOK, LocksHeld, NetFrameWhole
<1>4. CASE DecLoad
  BY <1>4 DEF DecLoad, TypeOK, LocksHeld, NetFrameWhole
<1>5. CASE DecStore
  BY <1>5 DEF DecStore, TypeOK, LocksHeld, NetFrameWhole
<1>6. CASE DrawLock
  BY <1>6 DEF DrawLock, TypeOK, LocksHeld, NetFrameWhole
<1>7. CASE DrawPanel
  <2> USE <1>7 DEF DrawPanel
  <2>1. TypeOK'
    BY DEF TypeOK
  <2>2. LocksHeld' /\ (\A r \in torn \ cut : At(r, "copy"))'
    BY DEF TypeOK, LocksHeld
  <2>3. NetFrameWhole'
    <3>1. current \in Screens \ Plugins /\ current \notin cut => current \notin torn
      BY DEF TypeOK, LocksHeld
    <3>2. plugged => panel'.scr = current /\ panel'.torn = (current \in torn)
      OBVIOUS
    <3>3. (~plugged => panel' = panel) /\ cut' = cut
      OBVIOUS
    <3>4. current \in torn => current \in Plugins \union cut
      BY <3>1 DEF TypeOK
    <3>5. QED
      BY <3>2, <3>3, <3>4 DEF NetFrameWhole
  <2>4. QED
    BY <2>1, <2>2, <2>3
<1>8. CASE DrawNoLights
  BY <1>8 DEF DrawNoLights, DrawUnlock, TypeOK, LocksHeld, NetFrameWhole
<1>9. CASE DrawLights
  BY <1>9 DEF DrawLights, TypeOK, LocksHeld, NetFrameWhole
<1>10. CASE DrawClear
  BY <1>10 DEF DrawClear, DrawUnlock, TypeOK, LocksHeld, NetFrameWhole
<1>11. QED
  BY <1>1, <1>2, <1>3, <1>4, <1>5, <1>6, <1>7, <1>8, <1>9, <1>10 DEF DrawThread

LEMMA KeyboardIInv == ASSUME IInv, KeyboardThread PROVE IInv'
<1> USE DEF IInv, At, KbdAt, KbdGoto, KbdPC
<1>1. CASE KbdPoll
  BY <1>1 DEF KbdPoll, PollOrExit, TypeOK, LocksHeld, NetFrameWhole
<1>2. CASE KbdRelock
  BY <1>2 DEF KbdRelock, TypeOK, LocksHeld, NetFrameWhole
<1>3. CASE KbdRetry
  BY <1>3 DEF KbdRetry, GiveUp, TypeOK, LocksHeld, NetFrameWhole
<1>4. CASE KbdBroadcast
  BY <1>4 DEF KbdBroadcast, Wake, DrawPC, TypeOK, LocksHeld, NetFrameWhole
<1>5. CASE KbdLoad
  BY <1>5 DEF KbdLoad, TypeOK, LocksHeld, NetFrameWhole
<1>6. CASE KbdStore
  BY <1>6 DEF KbdStore, PollOrExit, TypeOK, LocksHeld, NetFrameWhole
<1>7. QED
  BY <1>1, <1>2, <1>3, <1>4, <1>5, <1>6 DEF KeyboardThread

LEMMA NextIInv == IInv /\ [Next]_vars => IInv'
<1> SUFFICES ASSUME IInv, [Next]_vars PROVE IInv'
  OBVIOUS
<1>1. CASE \E s \in Screens : ThreadRuns(s) \/ ClientRequest(s)
  BY <1>1, ScreenIInv
<1>2. CASE DrawThread
  BY <1>2, DrawIInv
<1>3. CASE KeyboardThread
  BY <1>3, KeyboardIInv
<1>4. CASE Plug
  BY <1>4 DEF Plug, IInv, At, TypeOK, LocksHeld, NetFrameWhole
<1>5. CASE Signal
  BY <1>5 DEF Signal, IInv, At, TypeOK, LocksHeld, NetFrameWhole
<1>6. CASE UNCHANGED vars
  BY <1>6 DEF IInv, At, TypeOK, LocksHeld, NetFrameWhole
<1>7. QED
  BY <1>1, <1>2, <1>3, <1>4, <1>5, <1>6 DEF Next

LEMMA Invariance == Spec => []IInv
BY InitIInv, NextIInv, PTL DEF Spec

\* Every variable keeps its type, races on the counter included.
THEOREM DrawTypes == Spec => []TypeOK
<1>1. IInv => TypeOK
  BY DEF IInv
<1>2. QED
  BY <1>1, Invariance, PTL

\* For any number of clients and plugins, every path through the draw thread, the
\* keyboard thread and a client's thread pairs its locks with its unlocks.
THEOREM DrawLocks == Spec => []LocksHeld
<1>1. IInv => LocksHeld
  BY DEF IInv
<1>2. QED
  BY <1>1, Invariance, PTL

\* The panel never shows a half-copied frame of a client, only an image that the client
\* itself did not send to the end, for any number of clients
\* and any interleaving with the draw thread.
THEOREM DrawWhole == Spec => []NetFrameWhole
<1>1. IInv => NetFrameWhole
  BY DEF IInv
<1>2. QED
  BY <1>1, Invariance, PTL

\* Locks are their holders' and frames reach the panel whole, for any number of screens.
THEOREM DrawInvariant == Spec => []DrawSound
<1>1. IInv => DrawSound
  BY DEF IInv, DrawSound
<1>2. QED
  BY <1>1, Invariance, PTL

==============================================================================
