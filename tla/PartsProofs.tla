---------------------------- MODULE PartsProofs ----------------------------
(***************************************************************************)
(* Proofs about parts of Parts: the packets of keys, the spectrum plugins, *)
(* the viewer of text and the macro client's menu; and about the daemon's  *)
(* threads (PluginThread), for every set of plugins of each type.          *)
(***************************************************************************)
EXTENDS PluginThread, Parts, Sequences, FiniteSetTheorems, FunctionTheorems,
        SequenceTheorems, TLAPS

(* The packets of keys.                                                    *)
Kinds == {"G15", "G15v2", "G510", "Z10", "G13"}
Name(kind, b) == Packets!Bytes(kind)[b[1]][b[2] + 1]

LEMMA BitNumber == \A k \in 0 .. 7 : k \in {0, 1, 2, 3, 4, 5, 6, 7}
  OBVIOUS

LEMMA FourByteApart ==
  ASSUME NEW i \in 1 .. 3, NEW j \in 1 .. 3, NEW k \in 0 .. 7, NEW l \in 0 .. 7,
         Packets!FourByte[i][k + 1] # "no", Packets!FourByte[i][k + 1] = Packets!FourByte[j][l + 1]
  PROVE  i = j /\ k = l
<1>1. i \in {1, 2, 3} /\ j \in {1, 2, 3} OBVIOUS
<1>2. QED BY <1>1, BitNumber DEF Packets!FourByte

LEMMA G15v2Apart ==
  ASSUME NEW i \in 1 .. 2, NEW j \in 1 .. 2, NEW k \in 0 .. 7, NEW l \in 0 .. 7,
         Packets!FiveByteG15v2[i][k + 1] # "no",
         Packets!FiveByteG15v2[i][k + 1] = Packets!FiveByteG15v2[j][l + 1]
  PROVE  i = j /\ k = l
<1>1. i \in {1, 2} /\ j \in {1, 2} OBVIOUS
<1>2. QED BY <1>1, BitNumber DEF Packets!FiveByteG15v2

LEMMA G510Apart ==
  ASSUME NEW i \in 1 .. 4, NEW j \in 1 .. 4, NEW k \in 0 .. 7, NEW l \in 0 .. 7,
         Packets!FiveByteG510[i][k + 1] # "no",
         Packets!FiveByteG510[i][k + 1] = Packets!FiveByteG510[j][l + 1]
  PROVE  i = j /\ k = l
<1>1. i \in {1, 2, 3, 4} /\ j \in {1, 2, 3, 4} OBVIOUS
<1>2. QED BY <1>1, BitNumber DEF Packets!FiveByteG510

LEMMA NineByteApart ==
  ASSUME NEW i \in 1 .. 8, NEW j \in 1 .. 8, NEW k \in 0 .. 7, NEW l \in 0 .. 7,
         Packets!NineByte[i][k + 1] # "no", Packets!NineByte[i][k + 1] = Packets!NineByte[j][l + 1]
  PROVE  i = j /\ k = l
<1>1. i \in {1, 2, 3, 4, 5, 6, 7, 8} /\ j \in {1, 2, 3, 4, 5, 6, 7, 8} OBVIOUS
<1>2. QED BY <1>1, BitNumber DEF Packets!NineByte

LEMMA G13Apart ==
  ASSUME NEW i \in 1 .. 7, NEW j \in 1 .. 7, NEW k \in 0 .. 7, NEW l \in 0 .. 7,
         Packets!G13Bytes[i][k + 1] # "no", Packets!G13Bytes[i][k + 1] = Packets!G13Bytes[j][l + 1]
  PROVE  i = j /\ k = l
<1>1. i \in {1, 2, 3, 4, 5, 6, 7} /\ j \in {1, 2, 3, 4, 5, 6, 7} OBVIOUS
<1>2. QED BY <1>1, BitNumber DEF Packets!G13Bytes

Rows(kind) ==
  CASE kind = "Z10" -> 3 [] kind = "G15v2" -> 2 [] kind = "G510" -> 4
    [] kind = "G15" -> 8 [] kind = "G13" -> 7

LEMMA BytesKnown ==
  ASSUME NEW kind \in Kinds
  PROVE  DOMAIN Packets!Bytes(kind) = 1 .. Rows(kind) /\ Rows(kind) \in Nat
<1>1. CASE kind = "Z10" BY <1>1 DEF Rows, Packets!Bytes, Packets!FourByte
<1>2. CASE kind = "G15v2" BY <1>2 DEF Rows, Packets!Bytes, Packets!FiveByteG15v2
<1>3. CASE kind = "G510" BY <1>3 DEF Rows, Packets!Bytes, Packets!FiveByteG510
<1>4. CASE kind = "G15" BY <1>4 DEF Rows, Packets!Bytes, Packets!NineByte
<1>5. CASE kind = "G13" BY <1>5 DEF Rows, Packets!Bytes, Packets!G13Bytes
<1>6. QED BY <1>1, <1>2, <1>3, <1>4, <1>5 DEF Kinds

\* No two bits of a device's packet report the same key.
LEMMA KeysApart ==
  ASSUME NEW kind \in Kinds, NEW b \in Packets!AllBits(kind), NEW c \in Packets!AllBits(kind),
         Name(kind, b) # "no", Name(kind, b) = Name(kind, c)
  PROVE  b = c
<1> DEFINE i == b[1]  k == b[2]  j == c[1]  l == c[2]
<1>1. /\ b = <<i, k>> /\ c = <<j, l>>
      /\ i \in 1 .. Rows(kind) /\ j \in 1 .. Rows(kind) /\ k \in 0 .. 7 /\ l \in 0 .. 7
  BY BytesKnown DEF Packets!AllBits
<1>2. /\ Packets!Bytes(kind)[i][k + 1] # "no"
      /\ Packets!Bytes(kind)[i][k + 1] = Packets!Bytes(kind)[j][l + 1]
  BY DEF Name
<1> HIDE DEF i, j, k, l
<1>3. CASE kind = "Z10" BY <1>1, <1>2, <1>3, FourByteApart DEF Rows, Packets!Bytes
<1>4. CASE kind = "G15v2" BY <1>1, <1>2, <1>4, G15v2Apart DEF Rows, Packets!Bytes
<1>5. CASE kind = "G510" BY <1>1, <1>2, <1>5, G510Apart DEF Rows, Packets!Bytes
<1>6. CASE kind = "G15" BY <1>1, <1>2, <1>6, NineByteApart DEF Rows, Packets!Bytes
<1>7. CASE kind = "G13" BY <1>1, <1>2, <1>7, G13Apart DEF Rows, Packets!Bytes
<1>8. QED BY <1>3, <1>4, <1>5, <1>6, <1>7 DEF Kinds

\* So the keys decoded are as many as the bits that stand for one.
LEMMA KeysCounted ==
  ASSUME NEW kind \in Kinds, NEW bits \in SUBSET Packets!AllBits(kind)
  PROVE  Cardinality(Packets!Keys(Packets!Bytes(kind), bits)) = Cardinality(bits \intersect Packets!KeyBits(kind))
<1> DEFINE S == bits \intersect Packets!KeyBits(kind)
           T == Packets!Keys(Packets!Bytes(kind), bits)
           f == [b \in S |-> Name(kind, b)]
<1>1. IsFiniteSet(S)
  <2>1. IsFiniteSet(0 .. 7)
    <3>1. 0 \in Int /\ 7 \in Int OBVIOUS
    <3>2. QED BY <3>1, FS_Interval, Zenon
  <2>2. IsFiniteSet(1 .. Rows(kind))
    <3>1. Rows(kind) \in Int BY BytesKnown
    <3>2. QED BY <3>1, FS_Interval
  <2>3. IsFiniteSet(Packets!AllBits(kind)) BY <2>1, <2>2, BytesKnown, FS_Product DEF Packets!AllBits
  <2>4. QED BY <2>3, FS_Subset
<1>2. f \in [S -> T] /\ \A t \in T : \E b \in S : f[b] = t
  BY DEF Name, Packets!Keys, Packets!KeyBits, Packets!AllBits
<1>3. \A b, c \in S : f[b] = f[c] => b = c
  BY KeysApart DEF Name, Packets!KeyBits
<1>4. f \in Bijection(S, T) BY <1>2, <1>3, Fun_IsBij
<1>5. QED BY <1>1, <1>4, FS_Bijection DEF ExistsBijection

LEMMA SameCount == \A S : Packets!Cardinality(S) = Cardinality(S)
  BY DEF Packets!Cardinality, Cardinality

KeysInv == s1 \in Kinds /\ s2 \in SUBSET Packets!AllBits(s1)

LEMMA PacketStep ==
  ASSUME KeysInv, [Packets!Next]_(Packets!vars)
  PROVE  KeysInv' /\ Packets!TellsAll
<1> USE DEF KeysInv
<1>1. CASE UNCHANGED Packets!vars BY <1>1 DEF Packets!vars, Packets!TellsAll
<1>2. CASE Packets!ReadKeys
  <2>1. s1' = s1 /\ s2' \in SUBSET Packets!AllBits(s1) BY <1>2 DEF Packets!ReadKeys
  <2>2. s3' = Packets!Decoded(s1, TRUE, s2') BY <1>2 DEF Packets!ReadKeys
  <2>3. Packets!Decoded(s1, TRUE, s2') = Packets!Keys(Packets!Bytes(s1), s2')
    BY DEF Kinds, Packets!Decoded, Packets!Bytes, Packets!processKeyEvent4Byte,
           Packets!processKeyEvent5Byte, Packets!processKeyEvent9Byte, Packets!processKeyEventG13
  <2>4. Cardinality(s3') = Cardinality(s2' \intersect Packets!KeyBits(s1))
    <3>1. Cardinality(Packets!Keys(Packets!Bytes(s1), s2')) = Cardinality(s2' \intersect Packets!KeyBits(s1))
      BY <2>1, KeysCounted
    <3>2. QED BY <2>2, <2>3, <3>1
  <2>5. KeysInv' BY <2>1
  <2>6. Packets!TellsAll BY <2>4, SameCount DEF Packets!TellsAll
  <2>7. QED BY <2>5, <2>6
<1>3. CASE Packets!ReadKeyboard BY <1>3 DEF Packets!ReadKeyboard, Packets!TellsAll
<1>4. CASE Packets!ReadForeign BY <1>4 DEF Packets!ReadForeign, Packets!TellsAll
<1>5. CASE Packets!ReadFails BY <1>5 DEF Packets!ReadFails, Packets!TellsAll
<1>6. QED BY <1>1, <1>2, <1>3, <1>4, <1>5 DEF Packets!Next, Packets!getPressedKeys

(* Every packet of keys, on each of the five devices and after whatever was read  *)
(* before it, reports each key that is held by a key of its own and nothing else, *)
(* however many are held (processKeyEvent4Byte and its siblings).                 *)
THEOREM PacketsTell == PartSpec => PacketsTellAll
<1> DEFINE I == part = "keys" => KeysInv
<1>1. PartInit => I BY DEF PartInit, Packets!Init, KeysInv, Kinds
<1>2. I /\ [PartNext]_partvars => I' /\ (part = "keys" => Packets!TellsAll)
  <2> SUFFICES ASSUME I, [PartNext]_partvars, part = "keys" \/ part' = "keys"
               PROVE  KeysInv' /\ Packets!TellsAll
    OBVIOUS
  <2>1. part = "keys" /\ [Packets!Next]_(Packets!vars)
    BY DEF PartNext, partvars, from1, from3, Packets!vars
  <2>2. QED BY <2>1, PacketStep
<1>3. QED BY <1>1, <1>2, PTL DEF PartSpec, PacketsTellAll

-----------------------------------------------------------------------------
(* The spectrum plugins.                                                   *)
AllHeights == Heights \union {-1}
Powers == {2, 4, 8, 16, 32, 64, 128}
BarEffects == {"none", "peak", "analog", "line"}

\* The zeros that a dialog opened before the first init can have left.
Zero == IF s14 THEN {0} ELSE {}

SettingsSet ==
  [vis : {0, 1}, bars : Powers \union Zero, effect : BarEffects, detached : BOOLEAN,
   step : (2 .. 9) \union Zero, keys : BOOLEAN, title : BOOLEAN, pbar : BOOLEAN,
   rownum : (1 .. 4) \union Zero, overlay : BOOLEAN, limit : Int]

DialogSet ==
  [vis : {0, 1}, effect : BarEffects, detached : BOOLEAN, keys : BOOLEAN, title : BOOLEAN,
   pbar : BOOLEAN, overlay : BOOLEAN, bars : Int, step : Int, rownum : Int]

TmpSet == [bars : Powers \union Zero \union {-1}, step : (2 .. 9) \union {-1}, rownum : (1 .. 4) \union {-1}]

\* Settings whose limit is their own, or forgets the titles; those of a plugin that
\* is on have passed a check.
Untitled(c) == [c EXCEPT !.rownum = 0]
Fits(c) == c.limit = Bars!LimitOf(c) \/ (s14 /\ c.limit = Bars!LimitOf(Untitled(c)))
Sane(c) == c \in SettingsSet /\ Fits(c)
Steady(c) == Sane(c) /\ c.step # 0 /\ c.rownum # 0

BarsInv ==
  /\ s1 \in {"xmms", "audacious"} /\ s14 \in BOOLEAN
  /\ s2 \in SettingsSet \/ (s2 = Bars!Unset /\ s4 = Bars!NoDialog)
  /\ s6 # "off" => Steady(s2)
  /\ s3 # Bars!NoFile => Sane(s3)
  /\ s4 # Bars!NoDialog => s4 \in DialogSet /\ s5.bars # -1
  /\ s5 \in TmpSet
  /\ s12 \in Int

LEMMA HalfWide == Bars!HalfWord \in Int /\ Bars!HalfWord > 100
  BY SMT DEF Bars!HalfWord

LEMMA LimitInt == ASSUME NEW c \in SettingsSet PROVE Bars!LimitOf(c) \in Int
<1>1. c.rownum \in Int BY DEF SettingsSet, Zero
<1>2. QED
  BY <1>1, HalfWide DEF Bars!LimitOf, Bars!Unsigned, Bars!Rows, Bars!INFERIOR_SPACE, Bars!TitleRows, Bars!TitleHeight

LEMMA WithLimitSane ==
  ASSUME NEW c \in SettingsSet
  PROVE  /\ Sane(Bars!WithLimit(c))
         /\ Bars!WithLimit(c).step = c.step /\ Bars!WithLimit(c).rownum = c.rownum
<1> DEFINE d == Bars!WithLimit(c)
<1>1. d \in SettingsSet /\ d.limit = Bars!LimitOf(c) BY LimitInt DEF Bars!WithLimit, SettingsSet
<1>2. /\ d.pbar = c.pbar /\ d.title = c.title /\ d.overlay = c.overlay /\ d.rownum = c.rownum
      /\ d.step = c.step
  BY DEF Bars!WithLimit, SettingsSet
<1>3. Bars!LimitOf(d) = Bars!LimitOf(c)
  BY <1>2 DEF Bars!LimitOf, Bars!TitleRows
<1>4. QED BY <1>1, <1>2, <1>3 DEF Sane, Fits

LEMMA SettingsSane ==
  ASSUME NEW keys \in BOOLEAN, NEW detached \in BOOLEAN, NEW rownum \in 1 .. 4
  PROVE  Steady(Bars!SettingsOf(keys, detached, rownum))
<1> DEFINE c == [vis |-> 0, bars |-> 32, effect |-> "peak", detached |-> detached, step |-> 2, keys |-> keys,
                 title |-> TRUE, pbar |-> TRUE, rownum |-> rownum, overlay |-> FALSE, limit |-> 0]
<1>1. c \in SettingsSet BY DEF SettingsSet, Powers, BarEffects
<1>2. Sane(Bars!WithLimit(c)) /\ Bars!WithLimit(c).step = 2 /\ Bars!WithLimit(c).rownum = rownum
  BY <1>1, WithLimitSane
<1>3. QED BY <1>2 DEF Bars!SettingsOf, Steady

LEMMA DefaultsSane ==
  /\ Steady(Bars!Defaults) /\ Bars!Defaults.bars = 32
  /\ Bars!Defaults.step = 2 /\ Bars!Defaults.rownum = 1
<1>1. 1 \in 1 .. 4 /\ 4 \in 1 .. 4 OBVIOUS
<1>2. Steady(Bars!Defaults) BY <1>1, SettingsSane, Zenon DEF Bars!Defaults
<1>3. QED BY <1>2 DEF Bars!Defaults, Bars!SettingsOf, Bars!WithLimit

\* The file's checks take away the zeros and nothing else.
LEMMA AcceptedKeys ==
  ASSUME NEW c \in SettingsSet
  PROVE  Bars!Accepted(c) = [c EXCEPT !.bars = IF @ = 0 THEN 32 ELSE @,
                                      !.step = IF @ = 0 THEN 2 ELSE @,
                                      !.rownum = IF @ = 0 THEN 1 ELSE @]
<1>1. /\ Bars!Refused(c, "bars") <=> c.bars = 0
      /\ Bars!Refused(c, "step") <=> c.step = 0
      /\ Bars!Refused(c, "rownum") <=> c.rownum = 0
  BY DEF SettingsSet, Powers, Zero, Bars!Refused
<1>2. \A key \in DOMAIN c : key \notin {"bars", "step", "rownum"} => ~Bars!Refused(c, key)
  BY DEF Bars!Refused
<1>3. Bars!Accepted(c) = [key \in DOMAIN c |-> IF Bars!Refused(c, key) THEN Bars!Defaults[key] ELSE c[key]]
  BY DEF Bars!Accepted
<1>4. Bars!Defaults["bars"] = 32 /\ Bars!Defaults["step"] = 2 /\ Bars!Defaults["rownum"] = 1
  BY DefaultsSane
<1> DEFINE e == [c EXCEPT !.bars = IF @ = 0 THEN 32 ELSE @, !.step = IF @ = 0 THEN 2 ELSE @,
                          !.rownum = IF @ = 0 THEN 1 ELSE @]
<1>5. DOMAIN e = DOMAIN c /\ e = [key \in DOMAIN c |-> e[key]] BY DEF SettingsSet
<1>6. ASSUME NEW key \in DOMAIN c PROVE e[key] = IF Bars!Refused(c, key) THEN Bars!Defaults[key] ELSE c[key]
  <2>1. CASE key = "bars" BY <1>1, <1>4, <2>1 DEF SettingsSet
  <2>2. CASE key = "step" BY <1>1, <1>4, <2>2 DEF SettingsSet
  <2>3. CASE key = "rownum" BY <1>1, <1>4, <2>3 DEF SettingsSet
  <2>4. CASE key \notin {"bars", "step", "rownum"} BY <1>2, <2>4 DEF SettingsSet
  <2>5. QED BY <2>1, <2>2, <2>3, <2>4
<1> HIDE DEF e
<1>7. e = [key \in DOMAIN c |-> IF Bars!Refused(c, key) THEN Bars!Defaults[key] ELSE c[key]] BY <1>5, <1>6
<1>8. QED BY <1>3, <1>7 DEF e

LEMMA AcceptedFits ==
  ASSUME NEW c \in SettingsSet
  PROVE  /\ Bars!Accepted(c) \in SettingsSet /\ Bars!Accepted(c).step # 0 /\ Bars!Accepted(c).rownum # 0
         /\ Fits(c) => Fits(Bars!Accepted(c))
<1> DEFINE d == Bars!Accepted(c)
<1>1. d = [c EXCEPT !.bars = IF @ = 0 THEN 32 ELSE @, !.step = IF @ = 0 THEN 2 ELSE @,
                    !.rownum = IF @ = 0 THEN 1 ELSE @]
  BY AcceptedKeys
<1> HIDE DEF d
<1>2. d \in SettingsSet
  <2>1. /\ (IF c.bars = 0 THEN 32 ELSE c.bars) \in Powers
        /\ (IF c.step = 0 THEN 2 ELSE c.step) \in 2 .. 9
        /\ (IF c.rownum = 0 THEN 1 ELSE c.rownum) \in 1 .. 4
    BY DEF SettingsSet, Powers, Zero
  <2>2. QED BY <1>1, <2>1 DEF SettingsSet
<1>3. d.step # 0 /\ d.rownum # 0 BY <1>1 DEF SettingsSet
<1>4. /\ d.limit = c.limit /\ d.pbar = c.pbar /\ d.title = c.title /\ d.overlay = c.overlay
      /\ d.rownum = IF c.rownum = 0 THEN 1 ELSE c.rownum
  BY <1>1 DEF SettingsSet
<1>5. Bars!LimitOf(Untitled(d)) = Bars!LimitOf(Untitled(c))
  BY <1>2, <1>4 DEF Untitled, SettingsSet, Bars!LimitOf, Bars!TitleRows
<1>6. ASSUME Fits(c) PROVE Fits(d)
  <2>1. CASE c.rownum = 0
    <3>1. s14 BY <2>1 DEF SettingsSet, Zero
    <3>2. Bars!LimitOf(c) = Bars!LimitOf(Untitled(c))
      BY <2>1 DEF Untitled, SettingsSet, Bars!LimitOf, Bars!TitleRows
    <3>3. QED BY <1>4, <1>5, <1>6, <3>1, <3>2 DEF Fits
  <2>2. CASE c.rownum # 0
    <3>1. Bars!LimitOf(d) = Bars!LimitOf(c) BY <1>4, <2>2 DEF Bars!LimitOf, Bars!TitleRows
    <3>2. QED BY <1>4, <1>5, <1>6, <3>1 DEF Fits
  <2>3. QED BY <2>1, <2>2
<1>7. QED BY <1>2, <1>3, <1>6 DEF d

LEMMA ReadSane ==
  ASSUME BarsInv, NEW c \in SettingsSet
  PROVE  /\ Bars!read_config(c) \in SettingsSet
         /\ Steady(c) => Steady(Bars!read_config(c))
<1>1. CASE s3 = Bars!NoFile BY <1>1, AcceptedFits DEF Bars!read_config, Steady, Sane
<1>2. CASE s3 # Bars!NoFile
  <2>1. s3 \in SettingsSet /\ Fits(s3) BY <1>2 DEF BarsInv, Sane
  <2>2. QED BY <1>2, <2>1, AcceptedFits DEF Bars!read_config, Steady, Sane
<1>3. QED BY <1>1, <1>2

LEMMA AppliedSane ==
  ASSUME BarsInv, s4 # Bars!NoDialog
  PROVE  Sane(Bars!Applied) /\ (s6 # "off" => Steady(Bars!Applied))
<1>1. s2 \in SettingsSet /\ s4 \in DialogSet /\ s5 \in TmpSet /\ s5.bars # -1 BY DEF BarsInv
<1>2. /\ Bars!Left(s5.bars, s2.bars) \in Powers \union Zero
      /\ Bars!Left(s5.step, s2.step) \in (2 .. 9) \union Zero
      /\ Bars!Left(s5.rownum, s2.rownum) \in (1 .. 4) \union Zero
  BY <1>1 DEF SettingsSet, TmpSet, Bars!Left, Bars!Untouched
<1> DEFINE c == [vis |-> s4.vis, effect |-> s4.effect, detached |-> s4.detached, keys |-> s4.keys,
                 title |-> s4.title, pbar |-> s4.pbar, overlay |-> s4.overlay,
                 bars |-> Bars!Left(s5.bars, s2.bars), step |-> Bars!Left(s5.step, s2.step),
                 rownum |-> Bars!Left(s5.rownum, s2.rownum), limit |-> 0]
<1>3. c \in SettingsSet BY <1>1, <1>2 DEF SettingsSet, DialogSet
<1>4. Sane(Bars!WithLimit(c)) /\ Bars!WithLimit(c).step = c.step /\ Bars!WithLimit(c).rownum = c.rownum
  BY <1>3, WithLimitSane
<1>5. s2.step # 0 /\ s2.rownum # 0 => c.step # 0 /\ c.rownum # 0
  BY <1>1 DEF TmpSet, Bars!Left, Bars!Untouched
<1>6. QED BY <1>4, <1>5 DEF Bars!Applied, BarsInv, Steady

\* What an early dialog allows stays allowed.
LEMMA SetsGrow ==
  ASSUME s14 => s14'
  PROVE  /\ \A c : c \in SettingsSet => c \in SettingsSet'
         /\ \A c : c \in TmpSet => c \in TmpSet'
<1>1. Zero \subseteq Zero' BY DEF Zero
<1>2. QED BY <1>1 DEF SettingsSet, TmpSet

\* The limit is that of the player whose plugin it is.
LEMMA BarsKeep ==
  ASSUME s1 \in {"xmms", "audacious"}, s1' = s1, s14' \in BOOLEAN, s14 => s14',
         s2' \in SettingsSet' \/ (s2' = Bars!Unset /\ s4' = Bars!NoDialog),
         s6' # "off" => Steady(s2'),
         s3' # Bars!NoFile => Sane(s3'),
         s4' # Bars!NoDialog => s4' \in DialogSet /\ s5'.bars # -1,
         s5' \in TmpSet', s12' \in Int
  PROVE  BarsInv'
<1>1. Steady(s2') => (Steady(s2))'
  BY SetsGrow DEF Steady, Sane, Fits, Untitled, Bars!LimitOf, Bars!TitleRows, Bars!TitleHeight
<1>2. Sane(s3') => (Sane(s3))'
  BY SetsGrow DEF Sane, Fits, Untitled, Bars!LimitOf, Bars!TitleRows, Bars!TitleHeight
<1>3. Bars!Unset' = Bars!Unset /\ Bars!NoDialog' = Bars!NoDialog /\ Bars!NoFile' = Bars!NoFile
  BY DEF Bars!Unset, Bars!NoDialog, Bars!NoFile
<1>4. DialogSet' = DialogSet BY DEF DialogSet
<1>5. QED BY <1>1, <1>2, <1>3, <1>4 DEF BarsInv

LEMMA InitBars == Bars!Init => BarsInv
<1> SUFFICES ASSUME Bars!Init PROVE BarsInv
  OBVIOUS
<1>1. Sane(Bars!SettingsOf(TRUE, FALSE, 4))
  <2>1. 4 \in 1 .. 4 OBVIOUS
  <2>2. QED BY <2>1, SettingsSane, Zenon DEF Steady
<1>2. s3 # Bars!NoFile => Sane(s3) BY <1>1 DEF Bars!Init
<1>3. s5 \in TmpSet BY DEF Bars!Init, Bars!Untouchedtmp, Bars!Untouched, TmpSet
<1>4. s1 \in {"xmms", "audacious"} /\ s6 = "off" /\ s12 = 0 /\ s2 = Bars!Unset /\ s4 = Bars!NoDialog
  BY Zenon DEF Bars!Init
<1>5. s14 \in BOOLEAN BY Zenon DEF Bars!Init
<1>6. s12 \in Int BY <1>4
<1>7. QED BY <1>2, <1>3, <1>4, <1>5, <1>6 DEF BarsInv

\* What stands of the invariant where a step leaves the settings alone.
LEMMA BarsUnchanged ==
  ASSUME BarsInv, UNCHANGED <<s1, s2, s3, s4, s5, s14>>, s6' = s6 \/ s6 # "off", s12' \in Int
  PROVE  BarsInv'
<1>1. s2' \in SettingsSet' \/ (s2' = Bars!Unset /\ s4' = Bars!NoDialog) BY SetsGrow DEF BarsInv
<1>2. s5' \in TmpSet' BY SetsGrow DEF BarsInv
<1>3. (s6' # "off" => Steady(s2')) /\ (s3' # Bars!NoFile => Sane(s3')) BY DEF BarsInv
<1>4. QED BY <1>1, <1>2, <1>3, BarsKeep DEF BarsInv

LEMMA InitStarts ==
  ASSUME BarsInv, Bars!init
  PROVE  BarsInv' /\ Bars!SettingsSurvive
<1>1. s2' = Bars!read_config(Bars!Defaults) BY DEF Bars!init
<1>2. UNCHANGED <<s1, s3, s4, s5, s12, s14>> BY DEF Bars!init, Bars!remote
<1>3. Steady(s2') BY <1>1, DefaultsSane, ReadSane DEF Steady, Sane
<1>4. s2' \in SettingsSet' /\ s5' \in TmpSet' BY <1>2, <1>3, SetsGrow DEF BarsInv, Steady, Sane
<1>5. s3' # Bars!NoFile => Sane(s3') BY <1>2 DEF BarsInv
<1>6. BarsInv' BY <1>2, <1>3, <1>4, <1>5, BarsKeep DEF BarsInv
<1>7. ASSUME s3 # Bars!NoFile, NEW key \in DOMAIN s3
      PROVE  s2'[key] = s3[key] \/ (s14 /\ key \in {"bars", "step", "rownum"} /\ s3[key] = 0)
  <2>1. s3 \in SettingsSet BY <1>7 DEF BarsInv, Sane
  <2>2. s2' = Bars!Accepted(s3) BY <1>1, <1>7 DEF Bars!read_config
  <2>3. s2' = [s3 EXCEPT !.bars = IF @ = 0 THEN 32 ELSE @, !.step = IF @ = 0 THEN 2 ELSE @,
                         !.rownum = IF @ = 0 THEN 1 ELSE @]
    BY <2>1, <2>2, AcceptedKeys
  <2>4. s3.bars = 0 \/ s3.step = 0 \/ s3.rownum = 0 => s14 BY <2>1 DEF SettingsSet, Powers, Zero
  <2>5. key \in DOMAIN s3 BY <1>7
  <2>6. QED BY <2>1, <2>3, <2>4, <2>5 DEF SettingsSet
<1>8. QED BY <1>6, <1>7 DEF Bars!SettingsSurvive

LEMMA CleanupKeeps == ASSUME BarsInv, Bars!cleanup PROVE BarsInv'
<1>1. UNCHANGED <<s1, s2, s4, s5, s12, s14>> /\ s3' = s2 /\ s6 # "off" /\ s6' = "off"
  BY DEF Bars!cleanup, Bars!remote, Bars!write_config
<1>2. Sane(s3') /\ s2' \in SettingsSet' /\ s5' \in TmpSet'
  BY <1>1, SetsGrow DEF BarsInv, Steady, Sane
<1>3. QED BY <1>1, <1>2, BarsKeep DEF BarsInv

LEMMA QuitKeepsBars == ASSUME BarsInv, Bars!quit PROVE BarsInv'
<1>1. /\ UNCHANGED <<s1, s3, s14>> /\ s2' = Bars!Unset /\ s4' = Bars!NoDialog /\ s6' = "off" /\ s12' = 0
      /\ s5' = Bars!Untouchedtmp
  BY DEF Bars!quit
<1>2. s5' \in TmpSet' BY <1>1 DEF Bars!Untouchedtmp, Bars!Untouched, TmpSet
<1>3. s3' # Bars!NoFile => Sane(s3') BY <1>1 DEF BarsInv
<1>4. QED BY <1>1, <1>2, <1>3, BarsKeep DEF BarsInv

\* What a step does to the dialog, where the rest stands.
LEMMA DialogKeeps ==
  ASSUME BarsInv, UNCHANGED <<s1, s2, s3, s6, s12, s14>>, s2 \in SettingsSet, s5' \in TmpSet,
         s4' # Bars!NoDialog => s4' \in DialogSet /\ s5'.bars # -1
  PROVE  BarsInv'
<1>1. s2' \in SettingsSet' /\ s5' \in TmpSet' BY SetsGrow
<1>2. (s6' # "off" => Steady(s2')) /\ (s3' # Bars!NoFile => Sane(s3')) BY DEF BarsInv
<1>3. QED BY <1>1, <1>2, BarsKeep DEF BarsInv

LEMMA WidgetsTyped == ASSUME NEW c \in SettingsSet' PROVE Bars!Widgets(c) \in DialogSet
  BY DEF Bars!Widgets, SettingsSet, DialogSet, Powers, Zero

\* A dialog that finds the settings unset is an early one.
LEMMA ConfKeeps == ASSUME BarsInv, Bars!conf PROVE BarsInv'
<1>1. UNCHANGED <<s1, s2, s3, s6, s12>> /\ s5' = [s5 EXCEPT !.bars = s2.bars]
      /\ s14' = (s14 \/ s2.bars = 0)
  BY DEF Bars!conf, Bars!remote, Bars!Unset
<1>2. s14' \in BOOLEAN /\ (s14 => s14') BY <1>1
<1>3. s2 \in SettingsSet'
  <2>1. CASE s2 \in SettingsSet BY <1>2, <2>1, SetsGrow
  <2>2. CASE s2 = Bars!Unset
    <3>1. s14' BY <1>1, <2>2 DEF Bars!Unset
    <3>2. QED BY <2>2, <3>1 DEF Bars!Unset, SettingsSet, Zero, BarEffects
  <2>3. QED BY <2>1, <2>2 DEF BarsInv
<1>4. s5' \in TmpSet' /\ s5'.bars # -1
  <2>1. s5 \in TmpSet' BY <1>2, SetsGrow DEF BarsInv
  <2>2. s2.bars \in Powers \union Zero' BY <1>3 DEF SettingsSet
  <2>3. QED BY <1>1, <2>1, <2>2 DEF TmpSet, Powers, Zero
<1>5. s4' \in DialogSet
  <2>1. s4' = IF s4 = Bars!NoDialog THEN Bars!Widgets(s2) ELSE s4 BY DEF Bars!conf
  <2>2. QED BY <1>3, <2>1, WidgetsTyped DEF BarsInv
<1>6. (s6' # "off" => Steady(s2')) /\ (s3' # Bars!NoFile => Sane(s3')) BY <1>1 DEF BarsInv
<1>7. s2' \in SettingsSet' BY <1>1, <1>3
<1>8. QED BY <1>1, <1>2, <1>4, <1>5, <1>6, <1>7, BarsKeep DEF BarsInv

LEMMA ToggleKeeps == ASSUME BarsInv, Bars!Toggle PROVE BarsInv'
<1>1. UNCHANGED <<s1, s2, s3, s5, s6, s12, s14>> /\ s4 \in DialogSet /\ s2 \in SettingsSet
  BY DEF Bars!Toggle, Bars!remote, BarsInv
<1>2. s4' \in DialogSet
  <2>1. CASE s4' = [s4 EXCEPT !.vis = 1 - @] BY <1>1, <2>1 DEF DialogSet
  <2>2. ASSUME NEW effect \in Bars!Effects, s4' = [s4 EXCEPT !.effect = effect] PROVE s4' \in DialogSet
    BY <1>1, <2>2 DEF DialogSet, Bars!Effects, BarEffects
  <2>3. ASSUME NEW switch \in {"detached", "keys", "title", "pbar", "overlay"}, s4' = [s4 EXCEPT ![switch] = ~@]
        PROVE  s4' \in DialogSet
    <3>1. CASE switch = "detached" BY <1>1, <2>3, <3>1 DEF DialogSet
    <3>2. CASE switch = "keys" BY <1>1, <2>3, <3>2 DEF DialogSet
    <3>3. CASE switch = "title" BY <1>1, <2>3, <3>3 DEF DialogSet
    <3>4. CASE switch = "pbar" BY <1>1, <2>3, <3>4 DEF DialogSet
    <3>5. CASE switch = "overlay" BY <1>1, <2>3, <3>5 DEF DialogSet
    <3>6. QED BY <2>3, <3>1, <3>2, <3>3, <3>4, <3>5
  <2>4. QED BY <2>1, <2>2, <2>3 DEF Bars!Toggle
<1>3. s5' \in TmpSet /\ s5'.bars # -1 BY <1>1 DEF Bars!Toggle, BarsInv
<1>4. QED BY <1>1, <1>2, <1>3, DialogKeeps

\* A slider's jumps go from one power of two to the next, within the slider's range,
\* and never leave zero.
LEMMA SliderKeeps == ASSUME BarsInv, Bars!adj_changed PROVE BarsInv'
<1>1. UNCHANGED <<s1, s2, s3, s6, s12, s14>> /\ s4 \in DialogSet /\ s5 \in TmpSet /\ s5.bars \in Powers \union Zero
      /\ s2 \in SettingsSet
  BY DEF Bars!adj_changed, Bars!remote, BarsInv, TmpSet
<1>2. s4' \in DialogSet /\ s5' \in TmpSet /\ s5'.bars # -1
  <2>1. ASSUME NEW to \in 2 .. 128, NEW bars,
               bars = IF to > s5.bars THEN s5.bars * 2 ELSE IF to < s5.bars THEN s5.bars \div 2 ELSE s5.bars,
               s5' = [s5 EXCEPT !.bars = bars], s4' = [s4 EXCEPT !.bars = IF bars < 2 THEN 2 ELSE bars]
        PROVE  s4' \in DialogSet /\ s5' \in TmpSet /\ s5'.bars # -1
    <3>1. bars \in Powers \union Zero BY <1>1, <2>1 DEF Powers, Zero
    <3>2. bars \in Int /\ bars # -1 BY <3>1 DEF Powers, Zero
    <3>3. QED BY <1>1, <2>1, <3>1, <3>2 DEF DialogSet, TmpSet
  <2>2. ASSUME NEW rownum \in 1 .. 4, s5' = [s5 EXCEPT !.rownum = rownum], s4' = [s4 EXCEPT !.rownum = rownum]
        PROVE  s4' \in DialogSet /\ s5' \in TmpSet /\ s5'.bars # -1
    BY <1>1, <2>2 DEF DialogSet, TmpSet, Powers, Zero
  <2>3. ASSUME NEW step \in {2, 5, 9}, s5' = [s5 EXCEPT !.step = step], s4' = [s4 EXCEPT !.step = step]
        PROVE  s4' \in DialogSet /\ s5' \in TmpSet /\ s5'.bars # -1
    BY <1>1, <2>3 DEF DialogSet, TmpSet, Powers, Zero
  <2>4. QED BY <2>1, <2>2, <2>3 DEF Bars!adj_changed
<1>3. QED BY <1>1, <1>2, DialogKeeps

LEMMA ResetKeeps == ASSUME BarsInv, Bars!reset_defaults_gui PROVE BarsInv'
<1>1. UNCHANGED <<s1, s2, s3, s6, s12, s14>> /\ s4 \in DialogSet /\ s2 \in SettingsSet
  BY DEF Bars!reset_defaults_gui, Bars!remote, BarsInv
<1>2. Bars!Widgets(Bars!Defaults) \in DialogSet
  <2>1. Bars!Defaults \in SettingsSet' BY <1>1, DefaultsSane, SetsGrow DEF Steady, Sane
  <2>2. QED BY <2>1, WidgetsTyped
<1>3. s4' \in DialogSet BY <1>1, <1>2 DEF Bars!reset_defaults_gui, DialogSet
<1>4. s5' \in TmpSet /\ s5'.bars # -1
  BY DefaultsSane DEF Bars!reset_defaults_gui, TmpSet, Powers
<1>5. QED BY <1>1, <1>3, <1>4, DialogKeeps

\* What a step does to the settings in effect and in the file, where the rest stands.
LEMMA SettingsKeep ==
  ASSUME BarsInv, UNCHANGED <<s1, s5, s6, s12, s14>>, s2' \in SettingsSet, s6 # "off" => Steady(s2'),
         s3' = s3 \/ Sane(s3'), s4' = s4 \/ s4' = Bars!NoDialog
  PROVE  BarsInv'
<1>1. s3' # Bars!NoFile => Sane(s3') BY DEF BarsInv
<1>2. s2' \in SettingsSet' /\ s5' \in TmpSet' BY SetsGrow DEF BarsInv
<1>3. s4' # Bars!NoDialog => s4' \in DialogSet /\ s5'.bars # -1 BY DEF BarsInv
<1>4. QED BY <1>1, <1>2, <1>3, BarsKeep DEF BarsInv

LEMMA ApplyKeeps == ASSUME BarsInv, Bars!conf_apply \/ Bars!conf_ok PROVE BarsInv'
<1>1. CASE Bars!conf_apply
  <2>1. UNCHANGED <<s1, s3, s4, s5, s6, s12, s14>> /\ s2' = Bars!Applied /\ s4 # Bars!NoDialog
    BY <1>1 DEF Bars!conf_apply, Bars!remote
  <2>2. QED BY <2>1, AppliedSane, SettingsKeep DEF Sane
<1>2. CASE Bars!conf_ok
  <2>1. UNCHANGED <<s1, s5, s6, s12, s14>> /\ s2' = Bars!Applied /\ s3' = Bars!Applied
        /\ s4 # Bars!NoDialog /\ s4' = Bars!NoDialog
    BY <1>2 DEF Bars!conf_ok, Bars!remote, Bars!write_config
  <2>2. QED BY <2>1, AppliedSane, SettingsKeep DEF Sane
<1>3. QED BY <1>1, <1>2

LEMMA CancelKeeps == ASSUME BarsInv, Bars!conf_cancel PROVE BarsInv'
<1>1. UNCHANGED <<s1, s3, s5, s6, s12, s14>> /\ s4' = Bars!NoDialog /\ s4 # Bars!NoDialog
  BY DEF Bars!conf_cancel, Bars!remote
<1>2. s2' = s2 \/ s2' = Bars!read_config(s2) BY DEF Bars!conf_cancel
<1>3. s2 \in SettingsSet /\ (s6 # "off" => Steady(s2)) BY <1>1 DEF BarsInv
<1>4. s2' \in SettingsSet /\ (s6 # "off" => Steady(s2')) BY <1>2, <1>3, ReadSane
<1>5. QED BY <1>1, <1>4, SettingsKeep

LEMMA KeysKeep == ASSUME BarsInv, Bars!poll_g15keys PROVE BarsInv'
<1>1. UNCHANGED <<s1, s4, s5, s6, s12, s14>> /\ s2' = [s2 EXCEPT !.vis = 1 - @] /\ s3' = s2' /\ s6 = "on"
  BY DEF Bars!poll_g15keys, Bars!remote, Bars!write_config
<1>2. Steady(s2')
  <2>1. s2 \in SettingsSet /\ Fits(s2) /\ s2.step # 0 /\ s2.rownum # 0 BY <1>1 DEF BarsInv, Steady, Sane
  <2>2. s2' \in SettingsSet /\ s2'.limit = s2.limit /\ s2'.step = s2.step BY <1>1, <2>1 DEF SettingsSet
  <2>3. s2'.pbar = s2.pbar /\ s2'.title = s2.title /\ s2'.overlay = s2.overlay /\ s2'.rownum = s2.rownum
    BY <1>1, <2>1 DEF SettingsSet
  <2>4. Bars!LimitOf(s2') = Bars!LimitOf(s2) BY <2>3 DEF Bars!LimitOf, Bars!TitleRows
  <2>5. Bars!LimitOf(Untitled(s2')) = Bars!LimitOf(Untitled(s2))
    BY <2>1, <2>2, <2>3 DEF Untitled, SettingsSet, Bars!LimitOf, Bars!TitleRows
  <2>6. QED BY <2>1, <2>2, <2>3, <2>4, <2>5 DEF Steady, Sane, Fits
<1>3. s2' \in SettingsSet /\ Sane(s3') BY <1>1, <1>2 DEF Steady, Sane
<1>4. QED BY <1>1, <1>2, <1>3, SettingsKeep

LEMMA BarInt ==
  ASSUME AllHeights \subseteq Int, BarsInv, NEW h \in AllHeights
  PROVE  Bars!BarHeight(h) \in Int /\ Bars!PeakAfter(h) \in Int
<1>1. s2.limit \in Int BY DEF BarsInv, SettingsSet, Bars!Unset
<1>2. Bars!BarHeight(h) \in Int
  BY <1>1, HalfWide DEF Bars!BarHeight, Bars!Unsigned, Bars!Signed
<1>3. QED BY <1>2 DEF BarsInv, Bars!PeakAfter

LEMMA PlayKeeps ==
  ASSUME AllHeights \subseteq Int, BarsInv,
         \/ Bars!poll_mmediakeys \/ Bars!playback_start \/ Bars!playback_stop
         \/ Bars!divide_error \/ Bars!g15send_func
  PROVE  BarsInv'
<1>1. UNCHANGED <<s1, s2, s3, s4, s5, s14>> /\ (s6' = s6 \/ s6 # "off")
  BY DEF Bars!poll_mmediakeys, Bars!playback_start, Bars!playback_stop, Bars!divide_error, Bars!g15send_func,
         Bars!settings
<1>2. s12' \in Int
  BY BarInt DEF AllHeights, BarsInv, Bars!poll_mmediakeys, Bars!playback_start, Bars!playback_stop,
                Bars!divide_error, Bars!g15send_func
<1>3. QED BY <1>1, <1>2, BarsUnchanged

LEMMA BarsStep ==
  ASSUME AllHeights \subseteq Int, BarsInv, [Bars!Next]_(Bars!vars)
  PROVE  BarsInv' /\ Bars!SettingsSurvive
<1>1. CASE UNCHANGED Bars!vars
  <2>1. UNCHANGED <<s1, s2, s3, s4, s5, s6, s12, s14>> BY <1>1 DEF Bars!vars, Bars!settings
  <2>2. BarsInv' BY <2>1, BarsUnchanged DEF BarsInv
  <2>3. Bars!SettingsSurvive
    <3>1. Bars!init => Bars!SettingsSurvive BY InitStarts
    <3>2. QED BY <3>1 DEF Bars!SettingsSurvive
  <2>4. QED BY <2>2, <2>3
<1>2. Bars!init => Bars!SettingsSurvive BY InitStarts
<1>3. Bars!SettingsSurvive BY <1>2 DEF Bars!SettingsSurvive
<1>4. CASE Bars!Next
  BY <1>3, <1>4, InitStarts, CleanupKeeps, QuitKeepsBars, ConfKeeps, ToggleKeeps, SliderKeeps, ResetKeeps, ApplyKeeps, CancelKeeps,
     KeysKeep, PlayKeeps DEF Bars!Next
<1>5. QED BY <1>1, <1>4

-----------------------------------------------------------------------------
\* The titles take one of few heights; the limit leaves room for them, or for none.
LEMMA TitlesKnown ==
  ASSUME Steady(s2), s1 \in {"xmms", "audacious"}
  PROVE  /\ Bars!TitleRows(s2) \in {0, 7, 14, 21, 28, 9, 18, 27, 36}
         /\ Bars!FreeRows \in {0, Bars!TitleRows(s2)}
         /\ s2.limit = LET left == 42 - (IF s2.pbar THEN 7 ELSE 0) - Bars!FreeRows
                       IN  IF left < 0 THEN left + 2 * Bars!HalfWord ELSE left
<1>1. s2.rownum \in {1, 2, 3, 4} /\ s2 \in SettingsSet /\ Fits(s2) BY DEF Steady, Sane, SettingsSet, Zero
<1>2. Bars!TitleRows(s2) \in {0, 7, 14, 21, 28, 9, 18, 27, 36}
  BY <1>1 DEF Bars!TitleRows, Bars!TitleHeight
<1>3. Bars!FreeRows = IF s14 /\ s2.limit = Bars!LimitOf(Untitled(s2)) THEN 0 ELSE Bars!TitleRows(s2)
  BY DEF Bars!FreeRows, Untitled
<1>4. Bars!TitleRows(Untitled(s2)) = 0 /\ Untitled(s2).pbar = s2.pbar
  BY <1>1 DEF Untitled, SettingsSet, Bars!TitleRows, Bars!TitleHeight
<1>5. s2.limit = Bars!Unsigned(43 - (IF s2.pbar THEN 7 ELSE 0) - Bars!FreeRows - 1)
  <2>1. CASE s14 /\ s2.limit = Bars!LimitOf(Untitled(s2))
    BY <1>3, <1>4, <2>1 DEF Bars!LimitOf, Bars!Rows, Bars!INFERIOR_SPACE
  <2>2. CASE ~(s14 /\ s2.limit = Bars!LimitOf(Untitled(s2)))
    BY <1>1, <1>3, <2>2 DEF Fits, Bars!LimitOf, Bars!Rows, Bars!INFERIOR_SPACE
  <2>3. QED BY <2>1, <2>2
<1>6. Bars!FreeRows \in {0, Bars!TitleRows(s2)} /\ Bars!FreeRows \in Int BY <1>2, <1>3
<1>7. QED BY <1>2, <1>5, <1>6, HalfWide DEF Bars!Unsigned

\* The diode that a row lies in, for every height of a diode.
LEMMA Diodes ==
  ASSUME NEW top \in Int, NEW bottom \in Int, NEW step \in 2 .. 9,
         top + step - (top % step) - 1 <= bottom
  PROVE  LET end == top + step - (top % step) - 1
             last == bottom - ((bottom - end) \div step) * step
         IN  last \in Int /\ last >= top /\ last <= bottom
<1>1. CASE step = 2 BY <1>1
<1>2. CASE step = 3 BY <1>2
<1>3. CASE step = 4 BY <1>3
<1>4. CASE step = 5 BY <1>4
<1>5. CASE step = 6 BY <1>5
<1>6. CASE step = 7 BY <1>6
<1>7. CASE step = 8 BY <1>7
<1>8. CASE step = 9 BY <1>8
<1>9. QED BY <1>1, <1>2, <1>3, <1>4, <1>5, <1>6, <1>7, <1>8

Bounded == AllHeights \subseteq -Bars!HalfWord .. Bars!HalfWord - 1
Progress == IF s2.pbar THEN 7 ELSE 0
Room == Bars!TitleRows(s2) + Progress < 43
BarsPlaced == Steady(s2) /\ s1 \in {"xmms", "audacious"} /\ s12 \in Int

LEMMA LimitKnown ==
  ASSUME BarsPlaced, Room
  PROVE  s2.limit = 42 - Progress - Bars!FreeRows /\ s2.limit \in 6 .. 42
<1>1. CASE s2.pbar BY <1>1, TitlesKnown, HalfWide DEF BarsPlaced, Room, Progress
<1>2. CASE ~s2.pbar BY <1>2, TitlesKnown, HalfWide DEF BarsPlaced, Room, Progress
<1>3. QED BY <1>1, <1>2

LEMMA BarFits ==
  ASSUME Bounded, BarsPlaced, Room, NEW h \in AllHeights
  PROVE  Bars!BarHeight(h) \in 0 .. s2.limit
<1>1. s2.limit \in 6 .. 42 BY LimitKnown
<1>2. h \in -Bars!HalfWord .. Bars!HalfWord - 1 BY DEF Bounded
<1>3. CASE Bars!Peaks
  BY <1>1, <1>2, <1>3, HalfWide DEF Bars!BarHeight, Bars!Unsigned, Bars!Signed
<1>4. CASE ~Bars!Peaks
  BY <1>1, <1>2, <1>4, HalfWide DEF Bars!BarHeight, Bars!Unsigned, Bars!Signed
<1>5. QED BY <1>3, <1>4

LEMMA BottomKnown == Bars!Bottom = IF s2.pbar THEN 36 ELSE 42
  BY DEF Bars!Bottom, Bars!Rows, Bars!INFERIOR_SPACE

\* The highest bar begins below the titles.
LEMMA TopFits ==
  ASSUME Bounded, BarsPlaced, Room, NEW h \in AllHeights
  PROVE  /\ Bars!Bottom - Bars!BarHeight(h) \in Bars!FreeRows .. Bars!Bottom
         /\ Bars!FreeRows \in 0 .. Bars!Bottom
         /\ Bars!Bottom \in Int
<1> DEFINE bar == Bars!BarHeight(h)  titles == Bars!FreeRows  limit == s2.limit
<1>1. bar \in 0 .. limit /\ limit = 42 - Progress - titles /\ limit \in 6 .. 42 /\ titles \in Int
  BY BarFits, LimitKnown, TitlesKnown DEF BarsPlaced
<1>2. titles >= 0 BY TitlesKnown DEF BarsPlaced
<1>3. bar = Bars!BarHeight(h) /\ titles = Bars!FreeRows OBVIOUS
<1> HIDE DEF bar, titles, limit
<1>4. CASE s2.pbar
  <2>1. Bars!Bottom = 36 /\ Progress = 7 BY <1>4, BottomKnown DEF Progress
  <2>2. QED BY <1>1, <1>2, <1>3, <2>1
<1>5. CASE ~s2.pbar
  <2>1. Bars!Bottom = 42 /\ Progress = 0 BY <1>5, BottomKnown DEF Progress
  <2>2. QED BY <1>1, <1>2, <1>3, <2>1
<1>6. QED BY <1>4, <1>5

LEMMA BarsFit ==
  ASSUME Bounded, BarsPlaced, Room, NEW h \in AllHeights
  PROVE  /\ Bars!BarTop(h) >= Bars!FreeRows - (IF s2.effect = "analog" THEN s2.step - 2 ELSE 0)
         /\ Bars!BarTop(h) <= Bars!Bottom
<1> DEFINE top == Bars!Bottom - Bars!BarHeight(h)
           end == top + s2.step - (top % s2.step) - 1
           last == Bars!Bottom - ((Bars!Bottom - end) \div s2.step) * s2.step
<1>1. top \in Bars!FreeRows .. Bars!Bottom /\ Bars!FreeRows \in 0 .. Bars!Bottom /\ Bars!Bottom \in Int
      /\ Bars!FreeRows \in Int
  BY TopFits, TitlesKnown DEF BarsPlaced
<1>2. s2.step \in 2 .. 9 BY DEF BarsPlaced, Steady, Sane, SettingsSet, Zero
<1>3. Bars!BarTop(h) = IF s2.effect # "analog" THEN top
                       ELSE IF end > Bars!Bottom THEN Bars!Bottom ELSE last - s2.step + 2
  BY DEF Bars!BarTop
<1>4. end <= Bars!Bottom => last \in Int /\ last >= top /\ last <= Bars!Bottom
  <2>1. top \in Int BY <1>1
  <2> HIDE DEF top
  <2>2. QED BY <2>1, <1>1, <1>2, Diodes
<1>5. end \in Int BY <1>1, <1>2
<1> HIDE DEF top, end, last
<1>6. CASE s2.effect # "analog" BY <1>1, <1>3, <1>6
<1>7. CASE s2.effect = "analog" /\ end > Bars!Bottom BY <1>1, <1>2, <1>3, <1>7
<1>8. CASE s2.effect = "analog" /\ ~(end > Bars!Bottom)
  <2>1. end <= Bars!Bottom BY <1>1, <1>5, <1>8
  <2>2. Bars!BarTop(h) = last - s2.step + 2 BY <1>3, <1>8
  <2>3. QED BY <1>1, <1>2, <1>4, <2>1, <2>2, <1>8
<1>9. QED BY <1>6, <1>7, <1>8

LEMMA PeaksFit ==
  ASSUME Bounded, BarsPlaced, Room, NEW h \in AllHeights, Bars!PeakShown(h)
  PROVE  /\ Bars!PeakRow(h) >= Bars!FreeRows - 1
         /\ Bars!PeakRow(h) <= Bars!BarTop(h) + (IF s1 = "audacious" THEN 1 ELSE 0)
<1> DEFINE bar == Bars!BarHeight(h)  after == Bars!PeakAfter(h)  bottom == Bars!Bottom
           titles == Bars!FreeRows
<1>1. bar \in 0 .. s2.limit /\ s2.limit = 42 - Progress - titles /\ s2.limit \in 6 .. 42 /\ titles \in Int
  BY BarFits, LimitKnown, TitlesKnown DEF BarsPlaced
<1>2. s2.effect = "peak" /\ Bars!BarTop(h) = bottom - bar BY DEF Bars!PeakShown, Bars!Peaks, Bars!BarTop
<1>3. s12 \in Int /\ s1 \in {"xmms", "audacious"} BY DEF BarsPlaced
<1>4. after = IF IF s1 = "xmms" THEN bar >= s12 ELSE bar > s12 THEN bar ELSE s12 - 1
  BY <1>2 DEF Bars!PeakAfter, Bars!Peaks
<1>5. after > 0 /\ after < s2.limit
  <2>1. after > 0 /\ Bars!Unsigned(after) < s2.limit BY DEF Bars!PeakShown
  <2>2. after \in Int BY <1>1, <1>3, <1>4
  <2> HIDE DEF after
  <2>3. QED BY <1>1, <2>1, <2>2, HalfWide DEF Bars!Unsigned
<1>6. Bars!PeakRow(h) = bottom - after - (IF s2.detached THEN 2 ELSE 0) BY DEF Bars!PeakRow
<1>7. bottom = 42 - (IF s2.pbar THEN 6 ELSE 0) /\ Progress = IF s2.pbar THEN 7 ELSE 0
  BY BottomKnown DEF Progress
<1>8. after \in Int /\ after >= bar - (IF s1 = "audacious" THEN 1 ELSE 0) BY <1>1, <1>3, <1>4
<1> HIDE DEF bar, after, bottom, titles
<1>9. Bars!PeakRow(h) >= titles - 1 BY <1>1, <1>5, <1>6, <1>7, <1>8
<1>10. Bars!PeakRow(h) <= Bars!BarTop(h) + (IF s1 = "audacious" THEN 1 ELSE 0)
  BY <1>1, <1>2, <1>3, <1>6, <1>7, <1>8
<1>11. QED BY <1>9, <1>10 DEF titles

LEMMA BarsKept == ASSUME Bounded, BarsInv PROVE Bars!BarsKeepOff
<1>1. s6 = "on" => BarsPlaced BY DEF BarsInv, BarsPlaced
<1>2. QED
  BY <1>1, BarsFit, PeaksFit DEF Bars!BarsKeepOff, Room, Progress, AllHeights, Bars!INFERIOR_SPACE, Bars!Rows

(* Whatever heights an analysis comes to and however often the settings are       *)
(* changed, applied, cancelled, saved and read back, in either player, killed or   *)
(* ended: bars and peaks stay out of the rows that the limit in effect leaves to   *)
(* the titles, and what was saved is what the next start takes up, but for the     *)
(* zeros of a dialog that was opened before the plugin ever ran                    *)
(* (g15analyser_conf_apply, g15spectrum_read_config, g15send_func).                *)
THEOREM SpectrumStays ==
  ASSUME Heights \subseteq -Bars!HalfWord .. Bars!HalfWord - 1
  PROVE  PartSpec => SpectrumKeeps
<1> DEFINE I == part = "bars" => BarsInv
<1>1. Bounded /\ AllHeights \subseteq Int BY HalfWide DEF Bounded, AllHeights
<1>2. PartInit => I BY InitBars DEF PartInit
<1>3. I /\ [PartNext]_partvars => I' /\ (part = "bars" => Bars!SettingsSurvive)
  <2> SUFFICES ASSUME I, [PartNext]_partvars, part = "bars" \/ part' = "bars"
               PROVE  BarsInv' /\ Bars!SettingsSurvive
    OBVIOUS
  <2>1. part = "bars" /\ [Bars!Next]_(Bars!vars)
    BY DEF PartNext, partvars, from1, from3, from5, from6, from7, from9, Bars!vars, Bars!settings, Bars!remote
  <2>2. QED BY <1>1, <2>1, BarsStep
<1>4. I => (part = "bars" => Bars!BarsKeepOff) BY <1>1, BarsKept
<1>5. QED BY <1>2, <1>3, <1>4, PTL DEF PartSpec, SpectrumKeeps

-----------------------------------------------------------------------------
(* The viewer of text.                                                     *)
CatAssumption == CatColumns \in Nat \ {0} /\ CatLines \in Nat
Display == {r \in Seq(Seq(Nat)) : Len(r) = CatLines + 1}
Bottom == CatLines + 1

LEMMA NewLine ==
  ASSUME CatAssumption, NEW r \in Display
  PROVE  LET q == Stream!display_newline(r)
         IN  q \in Display /\ (\A i \in 1 .. Bottom : q[i] = IF i = Bottom THEN <<>> ELSE r[i + 1])
  BY DEF CatAssumption, Display, Bottom, Stream!display_newline

LEMMA AddChar ==
  ASSUME CatAssumption, NEW r \in Display, NEW p \in Nat
  PROVE  LET q == Stream!display_add_char(r, p)
         IN  q \in Display /\ (\A i \in 1 .. Bottom : q[i] = IF i = Bottom THEN Append(r[i], p) ELSE r[i])
<1>1. DOMAIN r = 1 .. Bottom /\ Bottom \in 1 .. Bottom /\ Len(r) = Bottom BY DEF CatAssumption, Display, Bottom
<1>2. r[Bottom] \in Seq(Nat) BY <1>1 DEF Display
<1>3. Append(r[Bottom], p) \in Seq(Nat) BY <1>2
<1>4. QED BY <1>1, <1>3 DEF Display, Stream!display_add_char

LEMMA RemLine ==
  ASSUME CatAssumption, NEW r \in Display
  PROVE  LET q == Stream!display_remline(r)
         IN  q \in Display /\ (\A i \in 1 .. Bottom : q[i] = IF i = 1 THEN <<>> ELSE r[i - 1])
  BY DEF CatAssumption, Display, Bottom, Stream!display_remline, Stream!Cons, Stream!Front

LEMMA RemChar ==
  ASSUME CatAssumption, NEW r \in Display, Len(r[Bottom]) > 1
  PROVE  LET q == Stream!display_rem_char(r)
         IN  q \in Display /\ \A i \in 1 .. Bottom :
               q[i] = IF i = Bottom THEN SubSeq(r[Bottom], 1, Len(r[Bottom]) - 1) ELSE r[i]
<1>1. DOMAIN r = 1 .. Bottom /\ Bottom \in 1 .. Bottom /\ Len(r) = Bottom BY DEF CatAssumption, Display, Bottom
<1>2. r[Bottom] \in Seq(Nat) BY <1>1 DEF Display
<1>3. SubSeq(r[Bottom], 1, Len(r[Bottom]) - 1) \in Seq(Nat) BY <1>2
<1>4. QED BY <1>1, <1>3 DEF Display, Stream!display_rem_char, Stream!Last, Stream!Front

\* Rows that hold places of the text so far, in order, and no more than they have
\* memory for.
Good(r, b) ==
  /\ r \in Display
  /\ \A i, j \in 1 .. Bottom : \A m \in 1 .. Len(r[i]), n \in 1 .. Len(r[j]) :
       i < j \/ (i = j /\ m < n) => r[i][m] < r[j][n]
  /\ \A i \in 1 .. Bottom : Len(r[i]) <= CatColumns /\ \A m \in 1 .. Len(r[i]) : r[i][m] <= b

LEMMA RowsTyped ==
  ASSUME NEW r \in Display
  PROVE  \A i \in 1 .. Bottom : r[i] \in Seq(Nat) /\ Len(r[i]) \in Nat /\ \A m \in 1 .. Len(r[i]) : r[i][m] \in Nat
  BY DEF Display, Bottom

LEMMA GoodLater ==
  ASSUME NEW r, NEW b \in Nat, Good(r, b)
  PROVE  Good(r, b + 1)
<1>1. \A i \in 1 .. Bottom : \A m \in 1 .. Len(r[i]) : r[i][m] <= b + 1 BY RowsTyped DEF Good
<1>2. QED BY <1>1 DEF Good

LEMMA NewLineGood ==
  ASSUME CatAssumption, NEW b \in Nat, NEW r, Good(r, b)
  PROVE  Good(Stream!display_newline(r), b)
<1> DEFINE q == Stream!display_newline(r)
<1>1. q \in Display /\ (\A i \in 1 .. Bottom : q[i] = IF i = Bottom THEN <<>> ELSE r[i + 1])
  BY NewLine DEF Good
<1>2. Bottom \in Nat BY DEF CatAssumption, Bottom
<1> HIDE DEF q
<1>3. ASSUME NEW i \in 1 .. Bottom, NEW m \in 1 .. Len(q[i])
      PROVE  i # Bottom /\ i + 1 \in 1 .. Bottom /\ q[i] = r[i + 1] /\ m \in 1 .. Len(r[i + 1])
  BY <1>1, <1>2
<1>4. ASSUME NEW i \in 1 .. Bottom, NEW j \in 1 .. Bottom, NEW m \in 1 .. Len(q[i]), NEW n \in 1 .. Len(q[j]),
             i < j \/ (i = j /\ m < n)
      PROVE  q[i][m] < q[j][n]
  <2>1. i + 1 < j + 1 \/ (i + 1 = j + 1 /\ m < n) BY <1>2, <1>4
  <2>2. r[i + 1][m] < r[j + 1][n] BY <1>3, <2>1 DEF Good
  <2>3. QED BY <1>3, <2>2
<1>5. ASSUME NEW i \in 1 .. Bottom PROVE Len(q[i]) <= CatColumns /\ \A m \in 1 .. Len(q[i]) : q[i][m] <= b
  <2>1. CASE i = Bottom BY <1>1, <2>1 DEF CatAssumption
  <2>2. CASE i # Bottom
    <3>1. i + 1 \in 1 .. Bottom /\ q[i] = r[i + 1] BY <1>1, <1>2, <2>2
    <3>2. QED BY <3>1 DEF Good
  <2>3. QED BY <2>1, <2>2
<1>6. QED BY <1>1, <1>4, <1>5 DEF Good, q

LEMMA AddCharGood ==
  ASSUME CatAssumption, NEW b \in Nat, NEW r, Good(r, b), Len(r[Bottom]) < CatColumns
  PROVE  Good(Stream!display_add_char(r, b + 1), b + 1)
<1> DEFINE q == Stream!display_add_char(r, b + 1)
<1>1. q \in Display /\ (\A i \in 1 .. Bottom : q[i] = IF i = Bottom THEN Append(r[i], b + 1) ELSE r[i])
  <2>1. r \in Display /\ b + 1 \in Nat BY DEF Good
  <2>2. QED BY <2>1, AddChar
<1>2. Bottom \in Nat /\ Bottom \in 1 .. Bottom BY DEF CatAssumption, Bottom
<1>3. r \in Display BY DEF Good
<1> HIDE DEF q
<1>4. ASSUME NEW i \in 1 .. Bottom, NEW m \in 1 .. Len(q[i])
      PROVE  \/ m \in 1 .. Len(r[i]) /\ q[i][m] = r[i][m] /\ r[i][m] <= b /\ r[i][m] \in Nat
             \/ i = Bottom /\ m = Len(r[i]) + 1 /\ q[i][m] = b + 1
  <2>1. r[i] \in Seq(Nat) BY <1>3, RowsTyped
  <2>2. CASE i # Bottom BY <1>1, <1>3, <2>2, RowsTyped DEF Good
  <2>3. CASE i = Bottom
    <3>1. q[i] = Append(r[i], b + 1) BY <1>1, <2>3
    <3>2. CASE m \in 1 .. Len(r[i])
      <4>1. q[i][m] = r[i][m] BY <2>1, <3>1, <3>2
      <4>2. QED BY <1>3, <3>2, <4>1, RowsTyped DEF Good
    <3>3. CASE m \notin 1 .. Len(r[i])
      <4>1. m = Len(r[i]) + 1 /\ q[i][m] = b + 1 BY <2>1, <3>1, <3>3
      <4>2. QED BY <2>3, <4>1
    <3>4. QED BY <3>2, <3>3
  <2>4. QED BY <2>2, <2>3
<1>5. ASSUME NEW i \in 1 .. Bottom, NEW j \in 1 .. Bottom, NEW m \in 1 .. Len(q[i]), NEW n \in 1 .. Len(q[j]),
             i < j \/ (i = j /\ m < n)
      PROVE  q[i][m] < q[j][n]
  <2>1. CASE m \in 1 .. Len(r[i]) /\ q[i][m] = r[i][m] /\ r[i][m] <= b /\ r[i][m] \in Nat
    <3>1. CASE n \in 1 .. Len(r[j]) /\ q[j][n] = r[j][n] BY <1>5, <2>1, <3>1 DEF Good
    <3>2. CASE q[j][n] = b + 1 BY <2>1, <3>2
    <3>3. QED BY <1>4, <3>1, <3>2
  <2>2. CASE i = Bottom /\ m = Len(r[i]) + 1
    <3>1. j = Bottom /\ m < n BY <1>2, <1>5, <2>2
    <3>2. Len(r[Bottom]) \in Nat /\ Len(q[Bottom]) = Len(r[Bottom]) + 1
      <4>1. r[Bottom] \in Seq(Nat) /\ q[Bottom] = Append(r[Bottom], b + 1) BY <1>1, <1>2, <1>3, RowsTyped
      <4>2. QED BY <4>1
    <3>3. QED BY <2>2, <3>1, <3>2
  <2>3. QED BY <1>4, <2>1, <2>2
<1>6. ASSUME NEW i \in 1 .. Bottom PROVE Len(q[i]) <= CatColumns /\ \A m \in 1 .. Len(q[i]) : q[i][m] <= b + 1
  <2>1. Len(r[i]) \in Nat /\ r[i] \in Seq(Nat) BY <1>3, RowsTyped
  <2>2. Len(q[i]) <= CatColumns
    <3>1. CASE i = Bottom
      <4>1. Len(q[i]) = Len(r[i]) + 1
        <5>1. q[i] = Append(r[i], b + 1) BY <1>1, <3>1
        <5>2. QED BY <2>1, <5>1
      <4>2. QED BY <2>1, <3>1, <4>1 DEF CatAssumption
    <3>2. CASE i # Bottom BY <1>1, <3>2 DEF Good
    <3>3. QED BY <3>1, <3>2
  <2>3. \A m \in 1 .. Len(q[i]) : q[i][m] <= b + 1 BY <1>4
  <2>4. QED BY <2>2, <2>3
<1>7. QED BY <1>1, <1>5, <1>6 DEF Good, q

LEMMA RemLineGood ==
  ASSUME CatAssumption, NEW b \in Nat, NEW r, Good(r, b)
  PROVE  Good(Stream!display_remline(r), b)
<1> DEFINE q == Stream!display_remline(r)
<1>1. q \in Display /\ (\A i \in 1 .. Bottom : q[i] = IF i = 1 THEN <<>> ELSE r[i - 1])
  BY RemLine DEF Good
<1>2. Bottom \in Nat BY DEF CatAssumption, Bottom
<1> HIDE DEF q
<1>3. ASSUME NEW i \in 1 .. Bottom, NEW m \in 1 .. Len(q[i])
      PROVE  i # 1 /\ i - 1 \in 1 .. Bottom /\ q[i] = r[i - 1] /\ m \in 1 .. Len(r[i - 1])
  BY <1>1, <1>2
<1>4. ASSUME NEW i \in 1 .. Bottom, NEW j \in 1 .. Bottom, NEW m \in 1 .. Len(q[i]), NEW n \in 1 .. Len(q[j]),
             i < j \/ (i = j /\ m < n)
      PROVE  q[i][m] < q[j][n]
  <2>1. i - 1 < j - 1 \/ (i - 1 = j - 1 /\ m < n) BY <1>2, <1>4
  <2>2. r[i - 1][m] < r[j - 1][n] BY <1>3, <2>1 DEF Good
  <2>3. QED BY <1>3, <2>2
<1>5. ASSUME NEW i \in 1 .. Bottom PROVE Len(q[i]) <= CatColumns /\ \A m \in 1 .. Len(q[i]) : q[i][m] <= b
  <2>1. CASE i = 1 BY <1>1, <2>1 DEF CatAssumption
  <2>2. CASE i # 1
    <3>1. i - 1 \in 1 .. Bottom /\ q[i] = r[i - 1] BY <1>1, <1>2, <2>2
    <3>2. QED BY <3>1 DEF Good
  <2>3. QED BY <2>1, <2>2
<1>6. QED BY <1>1, <1>4, <1>5 DEF Good, q

LEMMA Shorter ==
  ASSUME NEW f \in Seq(Nat), Len(f) > 1, NEW g, g = SubSeq(f, 1, Len(f) - 1)
  PROVE  Len(g) = Len(f) - 1 /\ \A m \in 1 .. Len(f) - 1 : g[m] = f[m]
<1>1. \A i \in 1 .. Len(f) - 1 : f[i] \in Nat OBVIOUS
<1>2. Len(f) - 1 \in Int /\ 1 \in Int OBVIOUS
<1>3. PICK n \in Int : n = Len(f) - 1 BY <1>2
<1>4. \A i \in 1 .. n : f[i] \in Nat BY <1>1, <1>3
<1>5. /\ Len(SubSeq(f, 1, n)) = IF 1 <= n THEN n - 1 + 1 ELSE 0
      /\ \A i \in 1 .. n - 1 + 1 : SubSeq(f, 1, n)[i] = f[1 + i - 1]
  BY <1>2, <1>4, SubSeqProperties
<1>6. g = SubSeq(f, 1, n) BY <1>3
<1>7. QED BY <1>3, <1>5, <1>6

LEMMA RemCharGood ==
  ASSUME CatAssumption, NEW b \in Nat, NEW r, Good(r, b)
  PROVE  Good(Stream!display_rem_char(r), b)
<1>1. Bottom \in Nat /\ Bottom \in 1 .. Bottom BY DEF CatAssumption, Bottom
<1>2. r \in Display /\ Len(r) = Bottom BY DEF Good, Display, Bottom
<1>3. CASE Len(r[Bottom]) <= 1
  <2>1. Stream!display_rem_char(r) = Stream!display_remline(r)
    BY <1>2, <1>3 DEF Stream!display_rem_char, Stream!Last
  <2>2. QED BY <2>1, RemLineGood
<1>4. CASE ~(Len(r[Bottom]) <= 1)
  <2> DEFINE q == Stream!display_rem_char(r)
  <2>1. Len(r[Bottom]) \in Nat /\ Len(r[Bottom]) > 1 BY <1>1, <1>2, <1>4, RowsTyped
  <2>2. q \in Display /\ \A i \in 1 .. Bottom :
          q[i] = IF i = Bottom THEN SubSeq(r[Bottom], 1, Len(r[Bottom]) - 1) ELSE r[i]
    BY <1>2, <2>1, RemChar
  <2> HIDE DEF q
  <2>3. ASSUME NEW i \in 1 .. Bottom
        PROVE  /\ Len(q[i]) \in Nat /\ Len(q[i]) <= Len(r[i])
               /\ \A m \in 1 .. Len(q[i]) : m \in 1 .. Len(r[i]) /\ q[i][m] = r[i][m]
    <3>1. r[i] \in Seq(Nat) BY <1>2, RowsTyped
    <3>2. CASE i = Bottom
      <4>1. q[i] = SubSeq(r[i], 1, Len(r[i]) - 1) /\ Len(r[i]) > 1 BY <2>1, <2>2, <3>2
      <4>2. Len(q[i]) = Len(r[i]) - 1 /\ \A m \in 1 .. Len(r[i]) - 1 : q[i][m] = r[i][m]
        BY <3>1, <4>1, Shorter
      <4>3. QED BY <4>1, <4>2
    <3>3. CASE i # Bottom BY <2>2, <3>1, <3>3
    <3>4. QED BY <3>2, <3>3
  <2>4. ASSUME NEW i \in 1 .. Bottom, NEW j \in 1 .. Bottom, NEW m \in 1 .. Len(q[i]), NEW n \in 1 .. Len(q[j]),
               i < j \/ (i = j /\ m < n)
        PROVE  q[i][m] < q[j][n]
    BY <2>3, <2>4 DEF Good
  <2>5. ASSUME NEW i \in 1 .. Bottom PROVE Len(q[i]) <= CatColumns /\ \A m \in 1 .. Len(q[i]) : q[i][m] <= b
    <3>1. Len(r[i]) \in Nat /\ Len(r[i]) <= CatColumns BY <1>2, RowsTyped DEF Good
    <3>2. Len(q[i]) <= CatColumns BY <2>3, <3>1 DEF CatAssumption
    <3>3. ASSUME NEW m \in 1 .. Len(q[i]) PROVE q[i][m] <= b
      <4>1. m \in 1 .. Len(r[i]) /\ q[i][m] = r[i][m] BY <2>3
      <4>2. r[i][m] <= b BY <4>1 DEF Good
      <4>3. QED BY <4>1, <4>2
    <3>4. QED BY <3>2, <3>3
  <2>6. QED BY <2>2, <2>4, <2>5 DEF Good, q
<1>5. QED BY <1>3, <1>4

CatChars == {"letter", "nl", "bs", "bell", "esc", "[", "K"}
Clean(t) == \A k \in 1 .. Len(t) : t[k] # "bs"

\* Letters that stand side by side have only bells between them, and only bells
\* have come since the last one.
OneLine(r, t) ==
  \A i \in 1 .. Bottom : \A j \in 1 .. Len(r[i]) - 1 : \A k \in r[i][j] + 1 .. r[i][j + 1] - 1 : t[k] = "bell"
TailOpen(r, t) == Len(r[Bottom]) > 0 => \A k \in r[Bottom][Len(r[Bottom])] + 1 .. Len(t) : t[k] = "bell"
Stands(r, k) == \E i \in 1 .. Bottom : \E m \in 1 .. Len(r[i]) : r[i][m] = k
AllThere(r, t) ==
  \A i \in 1 .. Bottom : \A m \in 1 .. Len(r[i]) :
    /\ 1 <= r[i][m]
    /\ \A k \in r[i][m] .. Len(t) : t[k] \notin {"nl", "bell"} => Stands(r, k)

CatInv ==
  /\ s1 \in BOOLEAN /\ s2 \in {0, 1} /\ s3 \in Nat /\ s6 \in Seq(CatChars)
  /\ s5 \in {"next", "skip", "esc", "[", "K", "done", "crashed"}
  /\ Good(s4, Len(s6))
  /\ Clean(s6) =>
       /\ s5 \in {"next", "skip", "done"}
       /\ OneLine(s4, s6) /\ (s5 = "next" => TailOpen(s4, s6))
       /\ ~s1 /\ s3 < s2 => Len(s4[Bottom]) = 0
       /\ s1 => s5 # "skip" /\ AllThere(s4, s6)

LEMMA Appended ==
  ASSUME NEW t \in Seq(CatChars), NEW c \in CatChars
  PROVE  LET u == Append(t, c)
         IN  /\ u \in Seq(CatChars) /\ Len(t) \in Nat /\ Len(u) = Len(t) + 1 /\ u[Len(t) + 1] = c
             /\ \A k \in 1 .. Len(t) : u[k] = t[k]
  OBVIOUS

LEMMA CleanBefore ==
  ASSUME NEW t \in Seq(CatChars), NEW c \in CatChars, Clean(Append(t, c))
  PROVE  Clean(t) /\ c # "bs"
<1> DEFINE u == Append(t, c)
<1>1. Len(t) \in Nat /\ Len(u) = Len(t) + 1 /\ u[Len(t) + 1] = c /\ \A k \in 1 .. Len(t) : u[k] = t[k]
  BY Appended
<1>2. Clean(u) OBVIOUS
<1> HIDE DEF u
<1>3. c # "bs"
  <2>1. Len(t) + 1 \in 1 .. Len(u) BY <1>1
  <2>2. QED BY <1>1, <1>2, <2>1 DEF Clean
<1>4. ASSUME NEW k \in 1 .. Len(t) PROVE t[k] # "bs"
  <2>1. k \in 1 .. Len(u) BY <1>1
  <2>2. QED BY <1>1, <1>2, <2>1 DEF Clean
<1>5. QED BY <1>3, <1>4 DEF Clean

\* Where a place stands in a display, and where not.
LEMMA PlaceBounds ==
  ASSUME NEW b \in Nat, NEW r, Good(r, b), NEW i \in 1 .. Bottom, NEW m \in 1 .. Len(r[i])
  PROVE  r[i][m] \in Nat /\ r[i][m] <= b
<1>1. r \in Display BY DEF Good
<1>2. r[i][m] \in Nat BY <1>1, RowsTyped
<1>3. QED BY <1>2 DEF Good

LEMMA OneLineLater ==
  ASSUME NEW t \in Seq(CatChars), NEW c \in CatChars, NEW r, Good(r, Len(t)), OneLine(r, t)
  PROVE  OneLine(r, Append(t, c))
<1> DEFINE u == Append(t, c)
<1>1. Len(t) \in Nat /\ \A k \in 1 .. Len(t) : u[k] = t[k] BY Appended
<1> HIDE DEF u
<1>2. ASSUME NEW i \in 1 .. Bottom, NEW j \in 1 .. Len(r[i]) - 1, NEW k \in r[i][j] + 1 .. r[i][j + 1] - 1
      PROVE  u[k] = "bell"
  <2>1. Len(r[i]) \in Nat BY RowsTyped DEF Good
  <2>2. j \in 1 .. Len(r[i]) /\ j + 1 \in 1 .. Len(r[i]) BY <2>1
  <2>3. r[i][j] \in Nat /\ r[i][j + 1] \in Nat /\ r[i][j + 1] <= Len(t) BY <1>1, <2>2, PlaceBounds
  <2>4. k \in 1 .. Len(t) BY <1>1, <2>3
  <2>5. QED BY <1>1, <1>2, <2>4 DEF OneLine
<1>3. QED BY <1>2 DEF OneLine, u

LEMMA NewLineKeeps ==
  ASSUME CatAssumption, NEW t \in Seq(CatChars), NEW r, Good(r, Len(t)), OneLine(r, t)
  PROVE  LET q == Stream!display_newline(r)
         IN  /\ OneLine(q, t) /\ Len(q[Bottom]) = 0
             /\ AllThere(r, t) => AllThere(q, t)
<1> DEFINE q == Stream!display_newline(r)
<1>1. q \in Display /\ (\A i \in 1 .. Bottom : q[i] = IF i = Bottom THEN <<>> ELSE r[i + 1])
  BY NewLine DEF Good
<1>2. Bottom \in Nat /\ Bottom \in 1 .. Bottom /\ Len(t) \in Nat BY DEF CatAssumption, Bottom
<1> HIDE DEF q
<1>3. Len(q[Bottom]) = 0 BY <1>1, <1>2
<1>4. ASSUME NEW i \in 1 .. Bottom, Len(q[i]) > 0
      PROVE  i # Bottom /\ i + 1 \in 1 .. Bottom /\ q[i] = r[i + 1]
  BY <1>1, <1>2, <1>4
<1>5. OneLine(q, t)
  <2>1. ASSUME NEW i \in 1 .. Bottom, NEW j \in 1 .. Len(q[i]) - 1
        PROVE  i + 1 \in 1 .. Bottom /\ q[i] = r[i + 1]
    <3>1. Len(q[i]) \in Nat BY <1>1, RowsTyped
    <3>2. QED BY <1>4, <3>1
  <2>2. QED BY <2>1 DEF OneLine
<1>6. ASSUME AllThere(r, t) PROVE AllThere(q, t)
  <2>1. ASSUME NEW i \in 1 .. Bottom, NEW m \in 1 .. Len(q[i]), NEW k \in q[i][m] .. Len(t), t[k] \notin {"nl", "bell"}
        PROVE  Stands(q, k)
    <3>1. i + 1 \in 1 .. Bottom /\ q[i] = r[i + 1]
      <4>1. Len(q[i]) \in Nat BY <1>1, RowsTyped
      <4>2. QED BY <1>4, <4>1
    <3>2. m \in 1 .. Len(r[i + 1]) /\ k \in r[i + 1][m] .. Len(t) BY <3>1
    <3>3. PICK j \in 1 .. Bottom : \E n \in 1 .. Len(r[j]) : r[j][n] = k BY <1>6, <2>1, <3>1, <3>2 DEF AllThere, Stands
    <3>4. PICK n \in 1 .. Len(r[j]) : r[j][n] = k BY <3>3
    <3>5. j # 1
      <4>1. SUFFICES ASSUME j = 1 PROVE FALSE OBVIOUS
      <4>2. j < i + 1 BY <4>1
      <4>3. r[j][n] < r[i + 1][m] BY <3>1, <3>2, <3>4, <4>2 DEF Good
      <4> DEFINE a == r[j][n]
                 b == r[i + 1][m]
      <4>4. a \in Nat /\ b \in Nat BY <1>2, <3>1, <3>2, PlaceBounds
      <4>5. a < b /\ a = k /\ k \in b .. Len(t) BY <3>2, <3>4, <4>3
      <4> HIDE DEF a, b
      <4>6. QED BY <1>2, <4>4, <4>5
    <3>6. j - 1 \in 1 .. Bottom /\ q[j - 1] = r[j]
      <4>1. j - 1 \in 1 .. Bottom /\ j - 1 # Bottom /\ (j - 1) + 1 = j BY <1>2, <3>5
      <4>2. QED BY <1>1, <4>1
    <3>7. QED BY <3>4, <3>6 DEF Stands
  <2>2. ASSUME NEW i \in 1 .. Bottom, NEW m \in 1 .. Len(q[i]) PROVE 1 <= q[i][m]
    <3>1. Len(q[i]) \in Nat BY <1>1, RowsTyped
    <3>2. i + 1 \in 1 .. Bottom /\ q[i] = r[i + 1] BY <1>4, <3>1
    <3>3. m \in 1 .. Len(r[i + 1]) BY <3>2
    <3>4. 1 <= r[i + 1][m] BY <1>6, <3>2, <3>3 DEF AllThere
    <3>5. QED BY <3>2, <3>4
  <2>3. QED BY <2>1, <2>2 DEF AllThere
<1>7. QED BY <1>3, <1>5, <1>6 DEF q

LEMMA AddCharKeeps ==
  ASSUME CatAssumption, NEW t \in Seq(CatChars), NEW c \in CatChars, NEW r, Good(r, Len(t)),
         Len(r[Bottom]) < CatColumns, OneLine(r, t), TailOpen(r, t)
  PROVE  LET q == Stream!display_add_char(r, Len(t) + 1)
             u == Append(t, c)
         IN  /\ OneLine(q, u) /\ TailOpen(q, u)
             /\ AllThere(r, t) => AllThere(q, u)
<1> DEFINE q == Stream!display_add_char(r, Len(t) + 1)
           u == Append(t, c)
<1>1. u \in Seq(CatChars) /\ Len(t) \in Nat /\ Len(u) = Len(t) + 1 /\ (\A k \in 1 .. Len(t) : u[k] = t[k])
  BY Appended
<1>2. Bottom \in Nat /\ Bottom \in 1 .. Bottom /\ r \in Display BY DEF CatAssumption, Bottom, Good
<1>3. q \in Display /\ (\A i \in 1 .. Bottom : q[i] = IF i = Bottom THEN Append(r[i], Len(t) + 1) ELSE r[i])
  <2>1. Len(t) + 1 \in Nat BY <1>1
  <2>2. QED BY <1>2, <2>1, AddChar
<1>4. OneLine(r, u) BY OneLineLater
<1> HIDE DEF q, u
<1>5. r[Bottom] \in Seq(Nat) /\ Len(r[Bottom]) \in Nat BY <1>2, RowsTyped
<1>6. /\ Len(q[Bottom]) = Len(r[Bottom]) + 1 /\ q[Bottom][Len(r[Bottom]) + 1] = Len(t) + 1
      /\ \A m \in 1 .. Len(r[Bottom]) : q[Bottom][m] = r[Bottom][m]
  <2>1. q[Bottom] = Append(r[Bottom], Len(t) + 1) BY <1>2, <1>3
  <2>2. QED BY <1>5, <2>1
<1>7. OneLine(q, u)
  <2>1. ASSUME NEW i \in 1 .. Bottom, NEW j \in 1 .. Len(q[i]) - 1, NEW k \in q[i][j] + 1 .. q[i][j + 1] - 1
        PROVE  u[k] = "bell"
    <3>1. CASE i # Bottom
      <4>1. q[i] = r[i] BY <1>3, <3>1
      <4>2. QED BY <1>4, <2>1, <4>1 DEF OneLine
    <3>2. CASE i = Bottom /\ j < Len(r[Bottom])
      <4>1. j \in 1 .. Len(r[Bottom]) /\ j + 1 \in 1 .. Len(r[Bottom]) /\ j \in 1 .. Len(r[Bottom]) - 1 BY <1>5, <3>2
      <4>2. q[Bottom][j] = r[Bottom][j] /\ q[Bottom][j + 1] = r[Bottom][j + 1] BY <1>6, <4>1
      <4>3. QED BY <1>2, <1>4, <2>1, <3>2, <4>1, <4>2 DEF OneLine
    <3>3. CASE i = Bottom /\ ~(j < Len(r[Bottom]))
      <4>1. j = Len(r[Bottom]) /\ Len(r[Bottom]) > 0 /\ j \in 1 .. Len(r[Bottom]) BY <1>5, <1>6, <3>3
      <4>2. q[Bottom][j] = r[Bottom][j] /\ q[Bottom][j + 1] = Len(t) + 1 BY <1>6, <4>1
      <4>3. r[Bottom][j] \in Nat BY <1>1, <1>2, <4>1, PlaceBounds
      <4>4. k \in r[Bottom][Len(r[Bottom])] + 1 .. Len(t) /\ k \in 1 .. Len(t) BY <1>1, <2>1, <3>3, <4>1, <4>2, <4>3
      <4>5. t[k] = "bell" BY <4>1, <4>4 DEF TailOpen
      <4>6. QED BY <1>1, <4>4, <4>5
    <3>4. QED BY <3>1, <3>2, <3>3
  <2>2. QED BY <2>1 DEF OneLine
<1>8. TailOpen(q, u) BY <1>1, <1>5, <1>6 DEF TailOpen
<1>9. ASSUME AllThere(r, t) PROVE AllThere(q, u)
  <2>1. \A i \in 1 .. Bottom : \A m \in 1 .. Len(r[i]) : m \in 1 .. Len(q[i]) /\ q[i][m] = r[i][m]
    <3>1. TAKE i \in 1 .. Bottom
    <3>2. TAKE m \in 1 .. Len(r[i])
    <3>3. CASE i = Bottom BY <1>5, <1>6, <3>3
    <3>4. CASE i # Bottom BY <1>3, <3>4
    <3>5. QED BY <3>3, <3>4
  <2>2. Stands(q, Len(t) + 1)
    <3>1. Len(r[Bottom]) + 1 \in 1 .. Len(q[Bottom]) BY <1>5, <1>6
    <3>2. QED BY <1>2, <1>6, <3>1 DEF Stands
  <2>3. ASSUME NEW k, Stands(r, k) PROVE Stands(q, k)
    <3>1. PICK i \in 1 .. Bottom : \E m \in 1 .. Len(r[i]) : r[i][m] = k BY <2>3 DEF Stands
    <3>2. PICK m \in 1 .. Len(r[i]) : r[i][m] = k BY <3>1
    <3>3. QED BY <2>1, <3>2 DEF Stands
  <2>6. ASSUME NEW i \in 1 .. Bottom, NEW m \in 1 .. Len(q[i])
        PROVE  \/ m \in 1 .. Len(r[i]) /\ q[i][m] = r[i][m] /\ 1 <= r[i][m]
               \/ q[i][m] = Len(t) + 1
    <3>1. CASE i # Bottom BY <1>3, <1>9, <3>1 DEF AllThere
    <3>2. CASE i = Bottom /\ m = Len(r[Bottom]) + 1 BY <1>6, <3>2
    <3>3. CASE i = Bottom /\ m # Len(r[Bottom]) + 1
      <4>1. m \in 1 .. Len(r[Bottom]) BY <1>5, <1>6, <3>3
      <4>2. QED BY <1>6, <1>9, <3>3, <4>1 DEF AllThere
    <3>4. QED BY <3>1, <3>2, <3>3
  <2>4. ASSUME NEW i \in 1 .. Bottom, NEW m \in 1 .. Len(q[i]), NEW k \in q[i][m] .. Len(u), u[k] \notin {"nl", "bell"}
        PROVE  Stands(q, k)
    <3>1. CASE k = Len(t) + 1 BY <2>2, <3>1
    <3>2. CASE k # Len(t) + 1
      <4>1. q[i][m] \in Nat BY <1>3, RowsTyped
      <4>2. q[i][m] <= Len(t) /\ k \in q[i][m] .. Len(t) BY <1>1, <2>4, <3>2, <4>1
      <4>3. m \in 1 .. Len(r[i]) /\ q[i][m] = r[i][m] /\ 1 <= r[i][m] BY <1>1, <2>6, <4>2
      <4>4. k \in 1 .. Len(t) /\ k \in r[i][m] .. Len(t) BY <1>1, <4>1, <4>2, <4>3
      <4>5. t[k] \notin {"nl", "bell"} BY <1>1, <2>4, <4>4
      <4>6. Stands(r, k) BY <1>9, <4>3, <4>4, <4>5 DEF AllThere
      <4>7. QED BY <2>3, <4>6
    <3>3. QED BY <3>1, <3>2
  <2>5. ASSUME NEW i \in 1 .. Bottom, NEW m \in 1 .. Len(q[i]) PROVE 1 <= q[i][m]
    BY <1>1, <2>6
  <2>7. QED BY <2>4, <2>5 DEF AllThere
<1>10. QED BY <1>7, <1>8, <1>9 DEF q, u

\* What is read and not shown: a bell, the end of a line, the rest of a full line.
LEMMA UnseenKeeps ==
  ASSUME NEW t \in Seq(CatChars), NEW c \in {"nl", "bell"}, NEW r \in Display, AllThere(r, t)
  PROVE  AllThere(r, Append(t, c))
<1> DEFINE u == Append(t, c)
<1>1. Len(t) \in Nat /\ Len(u) = Len(t) + 1 /\ u[Len(t) + 1] = c /\ (\A k \in 1 .. Len(t) : u[k] = t[k])
  <2>1. c \in CatChars BY DEF CatChars
  <2>2. QED BY <2>1, Appended
<1> HIDE DEF u
<1>2. ASSUME NEW i \in 1 .. Bottom, NEW m \in 1 .. Len(r[i]), NEW k \in r[i][m] .. Len(u), u[k] \notin {"nl", "bell"}
      PROVE  Stands(r, k)
  <2>1. k # Len(t) + 1 BY <1>1, <1>2
  <2>2. 1 <= r[i][m] /\ r[i][m] \in Nat BY RowsTyped DEF AllThere
  <2>3. k \in r[i][m] .. Len(t) /\ k \in 1 .. Len(t) BY <1>1, <1>2, <2>1, <2>2
  <2>4. QED BY <1>1, <1>2, <2>2, <2>3 DEF AllThere
<1>3. QED BY <1>2 DEF AllThere, u

LEMMA BellKeeps ==
  ASSUME CatAssumption, NEW t \in Seq(CatChars), NEW r, Good(r, Len(t)), TailOpen(r, t)
  PROVE  TailOpen(r, Append(t, "bell"))
<1> DEFINE u == Append(t, "bell")
<1>1. Len(t) \in Nat /\ Len(u) = Len(t) + 1 /\ u[Len(t) + 1] = "bell" /\ (\A k \in 1 .. Len(t) : u[k] = t[k])
  <2>1. "bell" \in CatChars BY DEF CatChars
  <2>2. QED BY <2>1, Appended
<1>2. Bottom \in 1 .. Bottom /\ r \in Display BY DEF CatAssumption, Bottom, Good
<1> HIDE DEF u
<1>3. ASSUME Len(r[Bottom]) > 0, NEW k \in r[Bottom][Len(r[Bottom])] + 1 .. Len(u) PROVE u[k] = "bell"
  <2>1. Len(r[Bottom]) \in 1 .. Len(r[Bottom]) BY <1>2, <1>3, RowsTyped
  <2>2. r[Bottom][Len(r[Bottom])] \in Nat BY <1>1, <1>2, <2>1, PlaceBounds
  <2>3. CASE k = Len(t) + 1 BY <1>1, <2>3
  <2>4. CASE k # Len(t) + 1
    <3>1. k \in r[Bottom][Len(r[Bottom])] + 1 .. Len(t) /\ k \in 1 .. Len(t) BY <1>1, <2>2, <2>4
    <3>2. QED BY <1>1, <1>3, <3>1 DEF TailOpen
  <2>5. QED BY <2>3, <2>4
<1>4. QED BY <1>3 DEF TailOpen, u

LEMMA ShowKeeps ==
  ASSUME CatAssumption, CatInv, NEW c \in {"letter", "nl", "bs", "bell"}, Stream!Show(c),
         c # "nl" => s1 \/ (~(s3 < s2) /\ Len(s4[Bottom]) # CatColumns),
         c # "nl" => s5 = "next",
         s6' = Append(s6, c), s1' = s1, s2' = s2
  PROVE  CatInv'
<1> USE CatAssumption
<1>1. /\ s6 \in Seq(CatChars) /\ c \in CatChars /\ s6' \in Seq(CatChars) /\ Len(s6) \in Nat /\ Len(s6') = Len(s6) + 1
  <2>1. c \in CatChars BY DEF CatChars
  <2>2. QED BY <2>1, Appended DEF CatInv
<1>2. /\ Bottom \in 1 .. Bottom /\ s4 \in Display /\ Good(s4, Len(s6)) /\ Len(s4) = Bottom
      /\ s4[Bottom] \in Seq(Nat) /\ Len(s4[Bottom]) \in Nat /\ Len(s4[Bottom]) <= CatColumns
  <2>1. Bottom \in 1 .. Bottom /\ Good(s4, Len(s6)) BY DEF CatAssumption, Bottom, CatInv
  <2>2. s4 \in Display /\ Len(s4) = Bottom BY <2>1 DEF Good, Display, Bottom
  <2>3. QED BY <2>1, <2>2, RowsTyped DEF Good
<1>3. Stream!Last(s4) = s4[Bottom] BY <1>2 DEF Stream!Last
<1>4. ASSUME Clean(s6') PROVE Clean(s6) /\ c # "bs" BY <1>1, <1>4, CleanBefore
<1> DEFINE q == Stream!display_newline(s4)
<1>5. Good(q, Len(s6)) /\ q \in Display /\ Len(q[Bottom]) = 0
  <2>1. Good(q, Len(s6)) BY <1>1, <1>2, NewLineGood
  <2>2. q[Bottom] = <<>> BY <1>2, NewLine
  <2>3. QED BY <2>1, <2>2 DEF Good
<1>6. ASSUME Clean(s6) PROVE OneLine(q, s6) /\ TailOpen(q, s6) /\ (s1 => AllThere(q, s6))
  <2>1. OneLine(s4, s6) /\ (s1 => AllThere(s4, s6)) BY <1>6 DEF CatInv
  <2>2. OneLine(q, s6) /\ (AllThere(s4, s6) => AllThere(q, s6)) BY <1>1, <1>2, <2>1, NewLineKeeps
  <2>3. TailOpen(q, s6) BY <1>5 DEF TailOpen
  <2>4. QED BY <2>1, <2>2, <2>3
<1>7. Stream!Here = Len(s6) + 1 BY DEF Stream!Here
<1> HIDE DEF q
<1>8. CASE c = "nl"
  <2>1. s4' = q /\ s3' = 0 /\ s5' = "next" BY <1>8 DEF Stream!Show, Stream!Wrapped, q
  <2>2. Good(s4', Len(s6')) BY <1>1, <1>5, <2>1, GoodLater
  <2>3. ASSUME Clean(s6')
        PROVE  /\ OneLine(s4', s6') /\ TailOpen(s4', s6') /\ Len(s4'[Bottom]) = 0
               /\ s1 => AllThere(s4', s6')
    <3>1. OneLine(q, s6) /\ (s1 => AllThere(q, s6)) BY <1>4, <1>6, <2>3
    <3>2. OneLine(q, s6') BY <1>1, <1>5, <3>1, OneLineLater
    <3>3. s1 => AllThere(q, s6') BY <1>1, <1>5, <1>8, <3>1, UnseenKeeps
    <3>4. QED BY <1>5, <2>1, <3>2, <3>3 DEF TailOpen
  <2>4. QED BY <1>1, <2>1, <2>2, <2>3 DEF CatInv
<1>9. CASE c # "nl" /\ Len(s4[Bottom]) >= CatColumns /\ c # "bs"
  <2>1. s4' = Stream!display_add_char(q, Len(s6) + 1) /\ s3' = 0 /\ s5' = "next"
    BY <1>3, <1>7, <1>9 DEF Stream!Show, Stream!Wrapped, q
  <2>2. s1 BY <1>2, <1>9 DEF CatAssumption
  <2>3. Len(q[Bottom]) < CatColumns BY <1>5 DEF CatAssumption
  <2>4. Good(s4', Len(s6')) BY <1>1, <1>5, <2>1, <2>3, AddCharGood
  <2>5. ASSUME Clean(s6') PROVE OneLine(s4', s6') /\ TailOpen(s4', s6') /\ AllThere(s4', s6')
    <3>1. OneLine(q, s6) /\ TailOpen(q, s6) /\ AllThere(q, s6) BY <1>4, <1>6, <2>2, <2>5
    <3>2. QED BY <1>1, <1>5, <2>1, <2>3, <3>1, AddCharKeeps
  <2>6. QED BY <1>1, <2>1, <2>2, <2>4, <2>5 DEF CatInv
<1>10. CASE c = "bs"
  <2>1. s4' = s4 /\ s3' = s3 /\ s5' = "esc" BY <1>3, <1>10 DEF Stream!Show
  <2>2. Good(s4', Len(s6')) BY <1>1, <1>2, <2>1, GoodLater
  <2>3. QED BY <1>1, <1>4, <1>10, <2>1, <2>2 DEF CatInv
<1>11. CASE c = "bell" /\ ~(Len(s4[Bottom]) >= CatColumns)
  <2>1. s4' = s4 /\ s3' = s3 /\ s5' = "next" BY <1>3, <1>11 DEF Stream!Show
  <2>2. Good(s4', Len(s6')) BY <1>1, <1>2, <2>1, GoodLater
  <2>3. ASSUME Clean(s6')
        PROVE  /\ OneLine(s4', s6') /\ TailOpen(s4', s6') /\ (s1 => AllThere(s4', s6'))
               /\ ~s1 /\ s3 < s2 => Len(s4'[Bottom]) = 0
    <3>1. /\ OneLine(s4, s6) /\ TailOpen(s4, s6) /\ (s1 => AllThere(s4, s6))
          /\ ~s1 /\ s3 < s2 => Len(s4[Bottom]) = 0
      BY <1>4, <1>11, <2>3 DEF CatInv
    <3>2. OneLine(s4, s6') BY <1>1, <1>2, <3>1, OneLineLater
    <3>3. TailOpen(s4, s6') BY <1>1, <1>2, <1>11, <3>1, BellKeeps
    <3>4. s1 => AllThere(s4, s6') BY <1>1, <1>2, <1>11, <3>1, UnseenKeeps
    <3>5. QED BY <2>1, <3>1, <3>2, <3>3, <3>4
  <2>4. QED BY <1>1, <2>1, <2>2, <2>3 DEF CatInv
<1>12. CASE c = "letter" /\ ~(Len(s4[Bottom]) >= CatColumns)
  <2>1. s4' = Stream!display_add_char(s4, Len(s6) + 1) /\ s3' = s3 /\ s5' = "next"
    BY <1>3, <1>7, <1>12 DEF Stream!Show
  <2>2. Len(s4[Bottom]) < CatColumns BY <1>2, <1>12 DEF CatAssumption
  <2>3. Good(s4', Len(s6')) BY <1>1, <1>2, <2>1, <2>2, AddCharGood
  <2>4. s1 \/ ~(s3 < s2) BY <1>12
  <2>5. ASSUME Clean(s6') PROVE OneLine(s4', s6') /\ TailOpen(s4', s6') /\ (s1 => AllThere(s4', s6'))
    <3>1. OneLine(s4, s6) /\ TailOpen(s4, s6) /\ (s1 => AllThere(s4, s6)) BY <1>4, <1>12, <2>5 DEF CatInv
    <3>2. QED BY <1>1, <1>2, <2>1, <2>2, <3>1, AddCharKeeps
  <2>6. QED BY <1>1, <2>1, <2>3, <2>4, <2>5 DEF CatInv
<1>13. QED BY <1>8, <1>9, <1>10, <1>11, <1>12

LEMMA StreamStep ==
  ASSUME CatAssumption, CatInv, Stream!Next
  PROVE  CatInv'
<1> USE CatAssumption
<1>0. /\ s6 \in Seq(CatChars) /\ Len(s6) \in Nat /\ Bottom \in 1 .. Bottom /\ Good(s4, Len(s6)) /\ s4 \in Display
      /\ Stream!Last(s4) = s4[Bottom]
  BY DEF CatInv, Good, CatAssumption, Bottom, Display, Stream!Last
<1>1. CASE Stream!Eof BY <1>1 DEF Stream!Eof, CatInv
<1>2. ASSUME NEW c \in Stream!Comes, Stream!Read(c) \/ Stream!Skip(c) \/ Stream!RubOut(c),
             s6' = Append(s6, c), s1' = s1, s2' = s2
      PROVE  CatInv'
  <2>1. /\ c \in CatChars /\ s6' \in Seq(CatChars) /\ Len(s6') = Len(s6) + 1
        /\ s6'[Len(s6) + 1] = c /\ (\A k \in 1 .. Len(s6) : s6'[k] = s6[k])
    <3>1. c \in CatChars BY <1>2 DEF Stream!Comes, Stream!Read, Stream!Skip, Stream!RubOut, CatChars, CatInv
    <3>2. QED BY <1>0, <1>2, <3>1, Appended
  <2>2. Good(s4, Len(s6')) BY <1>0, <2>1, GoodLater
  <2>3. ASSUME Clean(s6') PROVE Clean(s6) /\ c # "bs" /\ OneLine(s4, s6')
    <3>1. Clean(s6) /\ c # "bs" BY <1>0, <1>2, <2>1, <2>3, CleanBefore
    <3>2. OneLine(s4, s6) BY <3>1 DEF CatInv
    <3>3. QED BY <1>0, <1>2, <2>1, <3>1, <3>2, OneLineLater
  <2>4. CASE Stream!Read(c)
    <3>1. s5 = "next" /\ c \in {"letter", "nl", "bs", "bell"} BY <2>4 DEF Stream!Read, Stream!Comes
    <3>2. CASE ~s1 /\ s3 < s2
      <4>1. s3' = s3 + 1 /\ s4' = s4 /\ s5' = s5 BY <2>4, <3>2 DEF Stream!Read
      <4>2. s3 + 1 \in Nat BY DEF CatInv
      <4>3. ASSUME Clean(s6') PROVE Len(s4[Bottom]) = 0 BY <2>3, <3>2, <4>3 DEF CatInv
      <4>4. ASSUME Clean(s6') PROVE TailOpen(s4, s6') BY <4>3, <4>4 DEF TailOpen
      <4>5. QED BY <1>2, <2>1, <2>2, <2>3, <3>1, <3>2, <4>1, <4>2, <4>3, <4>4 DEF CatInv
    <3>3. CASE ~(~s1 /\ s3 < s2) /\ ~s1 /\ Len(s4[Bottom]) = CatColumns
      <4>1. s3' = s3 /\ s4' = s4 /\ s5' = "skip" BY <1>0, <2>4, <3>3 DEF Stream!Read
      <4>2. QED BY <1>2, <2>1, <2>2, <2>3, <3>3, <4>1 DEF CatInv
    <3>4. CASE ~(~s1 /\ s3 < s2) /\ ~(~s1 /\ Len(s4[Bottom]) = CatColumns)
      <4>1. Stream!Show(c) BY <1>0, <2>4, <3>4 DEF Stream!Read
      <4>2. s1 \/ (~(s3 < s2) /\ Len(s4[Bottom]) # CatColumns) BY <3>4
      <4>3. QED BY <1>2, <3>1, <4>1, <4>2, ShowKeeps
    <3>5. QED BY <3>2, <3>3, <3>4
  <2>5. CASE Stream!Skip(c)
    <3>1. s5 = "skip" BY <2>5 DEF Stream!Skip
    <3>2. CASE c = "nl"
      <4>1. Stream!Show(c) BY <2>5, <3>2 DEF Stream!Skip
      <4>2. QED BY <1>2, <3>2, <4>1, ShowKeeps
    <3>3. CASE c # "nl"
      <4>1. s3' = s3 /\ s4' = s4 /\ s5' = s5 BY <2>5, <3>3 DEF Stream!Skip
      <4>2. QED BY <1>2, <2>1, <2>2, <2>3, <3>1, <4>1 DEF CatInv
    <3>4. QED BY <3>2, <3>3
  <2>6. CASE Stream!RubOut(c)
    <3>1. /\ s5 \in {"esc", "[", "K"} /\ s5' \in {"next", "[", "K", "crashed"} /\ s3' = s3
          /\ s4' \in {s4, Stream!display_rem_char(s4)}
      BY <2>6 DEF Stream!RubOut
    <3>2. ~Clean(s6') BY <2>3, <3>1 DEF CatInv
    <3>3. Good(Stream!display_rem_char(s4), Len(s6)) BY <1>0, RemCharGood
    <3>4. Good(Stream!display_rem_char(s4), Len(s6')) BY <1>0, <2>1, <3>3, GoodLater
    <3>5. Good(s4', Len(s6')) BY <2>2, <3>1, <3>4
    <3>6. QED BY <1>2, <2>1, <3>1, <3>2, <3>5 DEF CatInv
  <2>7. QED BY <1>2, <2>4, <2>5, <2>6
<1>3. QED BY <1>1, <1>2 DEF Stream!Next, Stream!main_loop

LEMMA StreamShown ==
  ASSUME CatAssumption, CatInv
  PROVE  Stream!CatShows
<1>1. s4 \in Display /\ Len(s4) = Bottom /\ DOMAIN s4 = 1 .. Bottom /\ Good(s4, Len(s6))
  BY DEF CatInv, Good, Display, Bottom
<1>2. \A i \in 1 .. Bottom : s4[i] \in Seq(Nat) /\ DOMAIN s4[i] = 1 .. Len(s4[i])
  <2>1. \A i \in 1 .. Bottom : s4[i] \in Seq(Nat) BY <1>1, RowsTyped
  <2>2. QED BY <2>1
<1>3. s6 \in Seq(CatChars) /\ DOMAIN s6 = 1 .. Len(s6) BY DEF CatInv
<1>4. Len(s4) = CatLines + 1 /\ \A i \in DOMAIN s4 : Len(s4[i]) <= CatColumns BY <1>1 DEF Bottom, Good
<1>5. Stream!InOrder(s4) BY <1>1, <1>2 DEF Stream!InOrder, Good
<1>6. ASSUME "bs" \notin Stream!ToSet(s6) PROVE Clean(s6)
  <2>1. "bs" \notin {s6[k] : k \in DOMAIN s6} BY <1>6 DEF Stream!ToSet
  <2>2. QED BY <1>3, <2>1 DEF Clean
<1>7. ASSUME Clean(s6), NEW i \in DOMAIN s4, NEW j \in 1 .. Len(s4[i]) - 1
      PROVE  Stream!Between(s4[i][j], s4[i][j + 1]) \subseteq {"bell"}
  <2>1. OneLine(s4, s6) BY <1>7 DEF CatInv
  <2>2. QED BY <1>1, <2>1 DEF OneLine, Stream!Between
<1>8. ASSUME Clean(s6), s1, NEW p \in Stream!Shown(s4)
      PROVE  Stream!LettersFrom(p) \subseteq Stream!Shown(s4)
  <2>1. AllThere(s4, s6) BY <1>8 DEF CatInv
  <2>2. PICK i \in 1 .. Bottom : p \in Stream!ToSet(s4[i]) BY <1>1, <1>8 DEF Stream!Shown
  <2>3. PICK m \in 1 .. Len(s4[i]) : p = s4[i][m] BY <1>2, <2>2 DEF Stream!ToSet
  <2>4. ASSUME NEW k, Stands(s4, k) PROVE k \in Stream!Shown(s4)
    <3>1. PICK j \in 1 .. Bottom : \E n \in 1 .. Len(s4[j]) : s4[j][n] = k BY <2>4 DEF Stands
    <3>2. k \in Stream!ToSet(s4[j]) BY <1>2, <3>1 DEF Stream!ToSet
    <3>3. QED BY <1>1, <3>2 DEF Stream!Shown
  <2>5. ASSUME NEW k \in p .. Len(s6), s6[k] \notin {"nl", "bell"} PROVE Stands(s4, k)
    BY <2>1, <2>3, <2>5 DEF AllThere
  <2>6. QED BY <2>4, <2>5 DEF Stream!LettersFrom
<1>9. QED BY <1>4, <1>5, <1>6, <1>7, <1>8 DEF Stream!CatShows

(* g15cat shows the stream it reads: on a display of any size no line outgrows   *)
(* its memory and letters stand in the order they came in, whatever a shell rubs *)
(* out; as long as it rubs out nothing, letters of a row come from one line, and *)
(* no letter after one that is still there has been lost.                        *)
THEOREM CatStays ==
  ASSUME CatAssumption
  PROVE  PartSpec => []CatShows
<1> DEFINE Inv == part = "cat" => CatInv
<1>1. PartInit => Inv
  <2>1. ASSUME Stream!Init PROVE CatInv
    <3>1. s4 = [i \in 1 .. Bottom |-> <<>>] /\ Bottom \in Nat BY <2>1 DEF Stream!Init, Bottom, CatAssumption
    <3>2. s4 \in Display /\ \A i \in 1 .. Bottom : Len(s4[i]) = 0 BY <3>1 DEF Display, Bottom, CatAssumption
    <3>3. s6 = <<>> /\ s6 \in Seq(CatChars) /\ Len(s6) = 0 BY <2>1 DEF Stream!Init
    <3>4. Good(s4, Len(s6)) BY <3>2, <3>3 DEF Good, CatAssumption
    <3>5. Bottom \in 1 .. Bottom BY DEF Bottom, CatAssumption
    <3>6. OneLine(s4, s6) /\ TailOpen(s4, s6) /\ AllThere(s4, s6) BY <3>2, <3>5 DEF OneLine, TailOpen, AllThere
    <3>7. QED BY <2>1, <3>2, <3>3, <3>4, <3>5, <3>6 DEF Stream!Init, CatInv
  <2>2. QED BY <2>1 DEF PartInit
<1>2. Inv /\ [PartNext]_partvars => Inv'
  <2> SUFFICES ASSUME Inv, [PartNext]_partvars, part' = "cat" PROVE CatInv'
    OBVIOUS
  <2>1. part = "cat" /\ CatInv BY DEF PartNext, partvars
  <2>2. CASE PartNext
    <3>1. Stream!Next BY <2>1, <2>2 DEF PartNext
    <3>2. QED BY <2>1, <3>1, StreamStep
  <2>3. CASE UNCHANGED partvars
    BY <2>1, <2>3 DEF partvars, from1, from3, from5, from6, from7, CatInv, TailOpen, OneLine,
                      AllThere, Stands, Good, Clean
  <2>4. QED BY <2>2, <2>3
<1>3. Inv => CatShows BY StreamShown DEF CatShows
<1>4. QED BY <1>1, <1>2, <1>3, PTL DEF PartSpec

-----------------------------------------------------------------------------
(* The macro client's menu.                                                *)
USE DEF Menu!Menu, Menu!Message, Menu!marks, Menu!drawing, Menu!history, Menu!Whole, Menu!Current

LEMMA InitMenu == MenuConfigs \in Nat /\ Menu!Init => Menu!IInv
<1> SUFFICES ASSUME MenuConfigs \in Nat, Menu!Init PROVE Menu!IInv
  OBVIOUS
<1> USE DEF Menu!Init
<1>1. Menu!TypeOK BY DEF Menu!TypeOK
<1>2. QED BY <1>1 DEF Menu!IInv, Menu!Waited, Menu!Drawn

LEMMA MenuStep == MenuConfigs \in Nat /\ Menu!IInv /\ [Menu!Next]_(Menu!vars) => Menu!IInv'
<1> SUFFICES ASSUME MenuConfigs \in Nat, Menu!IInv, [Menu!Next]_(Menu!vars) PROVE Menu!IInv'
  OBVIOUS
<1> USE DEF Menu!IInv, Menu!TypeOK, Menu!Waited, Menu!Drawn, Menu!Noted
<1>1. CASE UNCHANGED Menu!vars BY <1>1 DEF Menu!vars
<1>2. CASE Menu!LookAtRecording BY <1>2 DEF Menu!LookAtRecording
<1>3. CASE Menu!TimeoutEnds BY <1>3 DEF Menu!TimeoutEnds
<1>4. CASE Menu!LookAtMarks
  <2>1. CASE Menu!Full
    <3>1. s10' BY <1>4, <2>1 DEF Menu!LookAtMarks
    <3>2. QED BY <1>4, <3>1 DEF Menu!LookAtMarks
  <2>2. CASE ~Menu!Full BY <1>4, <2>2 DEF Menu!LookAtMarks, Menu!Full
  <2>3. QED BY <2>1, <2>2
<1>5. CASE Menu!renderSelectionList BY <1>5 DEF Menu!renderSelectionList
<1>6. CASE Menu!SendCanvas BY <1>6 DEF Menu!SendCanvas
<1>7. CASE Menu!MarkDrawn BY <1>7 DEF Menu!MarkDrawn
<1>8. CASE Menu!ResetRecording BY <1>8 DEF Menu!ResetRecording
<1>9. ASSUME NEW change \in {-1, 0, 1}, Menu!gui_selectChange(change) PROVE Menu!IInv'
  <2>1. s1' = Menu!Moved(change) BY <1>9 DEF Menu!gui_selectChange
  <2>2. Menu!Moved(change) \in 0..MenuConfigs
    <3>1. \A i \in Int : i % (MenuConfigs + 1) \in 0..MenuConfigs OBVIOUS
    <3>2. s1 + change \in Int OBVIOUS
    <3>3. QED BY <3>1, <3>2 DEF Menu!Moved
  <2>3. QED BY <1>9, <2>1, <2>2 DEF Menu!gui_selectChange
<1>10. CASE Menu!SwitchConfig BY <1>10 DEF Menu!SwitchConfig, Menu!Key
<1>11. CASE Menu!SwitchDone BY <1>11 DEF Menu!SwitchDone
<1>12. CASE Menu!Record BY <1>12 DEF Menu!Record, Menu!Key
<1>13. QED
  BY <1>1, <1>2, <1>3, <1>4, <1>5, <1>6, <1>7, <1>8, <1>9, <1>10, <1>11, <1>12 DEF Menu!Next

(* The panel shows the menu with the configuration in use and the one selected   *)
(* when nothing is left to draw, for any number of keys and configurations, but  *)
(* where a key or a recording fell between drawing and noting (mainLoop,         *)
(* gui_selectChange).                                                            *)
THEOREM MenuStays == ASSUME MenuConfigs \in Nat PROVE PartSpec => []MenuShown
<1> DEFINE I == part = "menu" => Menu!IInv
<1>1. PartInit => I BY InitMenu DEF PartInit
<1>2. I /\ [PartNext]_partvars => I'
  <2> SUFFICES ASSUME I, [PartNext]_partvars, part' = "menu" PROVE Menu!IInv'
    OBVIOUS
  <2>1. part = "menu" /\ (Menu!Next \/ UNCHANGED Menu!vars)
    BY DEF PartNext, partvars, from1, from3, from5, from6, from7, from9, Menu!vars
  <2>2. QED BY <2>1, MenuStep
<1>3. I => MenuShown
  BY DEF Menu!IInv, Menu!TypeOK, Menu!Drawn, Menu!Noted, Menu!MenuShown, Menu!Redraw, MenuShown
<1>4. QED BY <1>1, <1>2, <1>3, PTL DEF PartSpec

-----------------------------------------------------------------------------
(* The threads: keys go to a plugin that is ready, and nodes are their threads'. *)
Places == {"file", "init", "handler", "loop", "close", "look", "remove", "gone"}

TypeOK ==
  /\ pc \in [Plugins -> Places]
  /\ nodes \subseteq Screens /\ handler \subseteq Plugins /\ ready \subseteq Plugins
  /\ leaving \in BOOLEAN /\ destroyed \in BOOLEAN /\ late \in BOOLEAN /\ fault \in BOOLEAN

\* Only a screen's thread looks at leaving to take its node away, and only a keyboard's
\* becomes the handler.
Placed ==
  \A p \in Plugins : /\ pc[p] \in {"look", "remove"} => p \in Screens
                     /\ pc[p] = "handler" => p \in Keyboards

\* A keyboard's thread that is past its start stays ready as long as the daemon does.
HandlerRuns ==
  ~leaving => /\ \A p \in Plugins : pc[p] = "handler" => p \in ready
              /\ \A p \in handler : p \in Keyboards /\ p \in ready /\ pc[p] = "loop"

NodesOwned == ~leaving => nodes = {p \in Screens : pc[p] \notin {"file", "gone"}}

\* A thread on its way to its node after the daemon began to leave looked before that.
LateKnown ==
  /\ ~leaving => ~fault
  /\ leaving => \A p \in Plugins : pc[p] = "remove" => late
  /\ fault => late

IInv == TypeOK /\ Placed /\ HandlerRuns /\ NodesOwned /\ LateKnown

USE DEF Plugins, Places

-----------------------------------------------------------------------------
LEMMA InitInvariant == Init => IInv
  BY DEF Init, IInv, TypeOK, Placed, HandlerRuns, NodesOwned, LateKnown

LEMMA LoadKeeps ==
  ASSUME IInv, NEW p \in Plugins, g15_plugin_load(p)
  PROVE  IInv'
<1> USE DEF IInv, g15_plugin_load, Goto
<1>1. TypeOK' BY DEF TypeOK
<1>2. Placed' BY DEF TypeOK, Placed
<1>3. HandlerRuns' BY DEF TypeOK, HandlerRuns
<1>4. NodesOwned' BY DEF TypeOK, NodesOwned
<1>5. LateKnown' BY DEF TypeOK, LateKnown
<1>6. QED BY <1>1, <1>2, <1>3, <1>4, <1>5

LEMMA InitKeeps ==
  ASSUME IInv, NEW p \in Plugins, NEW ok \in BOOLEAN, plugin_init(p, ok)
  PROVE  IInv'
<1> USE DEF IInv, plugin_init, Goto
<1>1. TypeOK' BY DEF TypeOK
<1>2. Placed' BY DEF TypeOK, Placed
<1>3. HandlerRuns' BY DEF TypeOK, HandlerRuns
<1>4. NodesOwned' BY DEF TypeOK, NodesOwned
<1>5. LateKnown' BY DEF TypeOK, LateKnown
<1>6. QED BY <1>1, <1>2, <1>3, <1>4, <1>5

LEMMA HandlerKeeps ==
  ASSUME IInv, NEW p \in Plugins, SetHandler(p)
  PROVE  IInv'
<1> USE DEF IInv, SetHandler, Goto
<1>1. TypeOK' BY DEF TypeOK
<1>2. Placed' BY DEF TypeOK, Placed
<1>3. HandlerRuns' BY DEF TypeOK, Placed, HandlerRuns
<1>4. NodesOwned' BY DEF TypeOK, NodesOwned
<1>5. LateKnown' BY DEF TypeOK, LateKnown
<1>6. QED BY <1>1, <1>2, <1>3, <1>4, <1>5

LEMMA LoopKeeps ==
  ASSUME IInv, NEW p \in Plugins, Loop(p)
  PROVE  IInv'
<1> USE DEF IInv, Loop, Goto
<1>1. TypeOK' BY DEF TypeOK
<1>2. Placed' BY DEF TypeOK, Placed
<1>3. HandlerRuns' BY DEF TypeOK, HandlerRuns
<1>4. NodesOwned' BY DEF TypeOK, NodesOwned
<1>5. LateKnown' BY DEF TypeOK, LateKnown
<1>6. QED BY <1>1, <1>2, <1>3, <1>4, <1>5

LEMMA CloseKeeps ==
  ASSUME IInv, NEW p \in Plugins, plugin_close(p)
  PROVE  IInv'
<1> USE DEF IInv, plugin_close, Goto
<1>1. TypeOK' BY DEF TypeOK
<1>2. Placed' BY DEF TypeOK, Placed
<1>3. HandlerRuns' BY DEF TypeOK, HandlerRuns
<1>4. NodesOwned' BY DEF TypeOK, NodesOwned
<1>5. LateKnown' BY DEF TypeOK, LateKnown
<1>6. QED BY <1>1, <1>2, <1>3, <1>4, <1>5

LEMMA QuitKeeps ==
  ASSUME IInv, NEW p \in Plugins, LookAtLeaving(p)
  PROVE  IInv'
<1> USE DEF IInv, LookAtLeaving, Quit, Goto
<1>1. TypeOK' BY DEF TypeOK
<1>2. Placed' BY DEF TypeOK, Placed
<1>3. HandlerRuns' BY DEF TypeOK, HandlerRuns
<1>4. NodesOwned' BY DEF TypeOK, NodesOwned
<1>5. LateKnown' BY DEF TypeOK, LateKnown
<1>6. QED BY <1>1, <1>2, <1>3, <1>4, <1>5

LEMMA RemoveKeeps ==
  ASSUME IInv, NEW p \in Plugins, RemoveNode(p)
  PROVE  IInv'
<1> USE DEF IInv, RemoveNode, Goto
<1>1. TypeOK' BY DEF TypeOK
<1>2. Placed' BY DEF TypeOK, Placed
<1>3. HandlerRuns' BY DEF TypeOK, HandlerRuns
<1>4. NodesOwned' BY DEF TypeOK, NodesOwned
<1>5. LateKnown'
  <2>1. CASE leaving BY <2>1 DEF TypeOK, LateKnown
  <2>2. CASE ~leaving
    <3>1. p \in nodes BY <2>2 DEF Placed, NodesOwned
    <3>2. QED BY <2>2, <3>1 DEF TypeOK, LateKnown
  <2>3. QED BY <2>1, <2>2
<1>6. QED BY <1>1, <1>2, <1>3, <1>4, <1>5

LEMMA EndKeeps ==
  ASSUME IInv, Leave \/ ll_lcdlist_destroy
  PROVE  IInv'
<1>1. CASE Leave
  BY <1>1 DEF Leave, IInv, TypeOK, Placed, HandlerRuns, NodesOwned, LateKnown
<1>2. CASE ll_lcdlist_destroy
  BY <1>2 DEF ll_lcdlist_destroy, IInv, TypeOK, Placed, HandlerRuns, NodesOwned, LateKnown
<1>3. QED BY <1>1, <1>2

THEOREM Invariant == Spec => []IInv
<1>1. IInv /\ [Next]_vars => IInv'
  <2> SUFFICES ASSUME IInv, [Next]_vars PROVE IInv'
    OBVIOUS
  <2>1. CASE UNCHANGED vars
    BY <2>1 DEF vars, IInv, TypeOK, Placed, HandlerRuns, NodesOwned, LateKnown
  <2>2. ASSUME NEW p \in Plugins, g15_plugin_load(p) PROVE IInv'
    BY <2>2, LoadKeeps
  <2>3. ASSUME NEW p \in Plugins, NEW ok \in BOOLEAN, plugin_init(p, ok) PROVE IInv'
    BY <2>3, InitKeeps
  <2>4. ASSUME NEW p \in Plugins, SetHandler(p) PROVE IInv'
    BY <2>4, HandlerKeeps
  <2>5. ASSUME NEW p \in Plugins, Loop(p) PROVE IInv'
    BY <2>5, LoopKeeps
  <2>6. ASSUME NEW p \in Plugins, plugin_close(p) PROVE IInv'
    BY <2>6, CloseKeeps
  <2>7. ASSUME NEW p \in Plugins, LookAtLeaving(p) PROVE IInv'
    BY <2>7, QuitKeeps
  <2>8. ASSUME NEW p \in Plugins, RemoveNode(p) PROVE IInv'
    BY <2>8, RemoveKeeps
  <2>9. CASE Leave \/ ll_lcdlist_destroy
    BY <2>9, EndKeeps
  <2>10. QED
    BY <2>1, <2>2, <2>3, <2>4, <2>5, <2>6, <2>7, <2>8, <2>9 DEF Next
<1>2. QED
  BY <1>1, InitInvariant, PTL DEF Spec

(* Whatever plugins there are, and whichever of them fail to start, quit or are *)
(* late when the daemon leaves: keys go only to a keyboard plugin that is       *)
(* ready, the list holds exactly the screens of the threads that have not       *)
(* ended, and a node is freed twice only by a thread that looked at leaving     *)
(* just before (logitools_plugins.c).                                           *)
THEOREM ThreadsInvariant == Spec => []ThreadsServe
<1>1. IInv => ThreadsServe
  BY DEF IInv, TypeOK, HandlerRuns, NodesOwned, LateKnown, ThreadsServe
<1>2. QED
  BY <1>1, Invariant, PTL
=============================================================================
