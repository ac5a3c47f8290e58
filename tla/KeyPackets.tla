----------------------------- MODULE KeyPackets -----------------------------
(***************************************************************************)
(* The key packets of the five kinds of device and what getPressedKeys     *)
(* makes of them: the set of pressed keys, of which the daemon's thread    *)
(* only ever sees the last.                                                *)
(***************************************************************************)
EXTENDS Naturals, Sequences, FiniteSets

CONSTANTS Devices,    \* kinds of device: "G15" (9 bytes), "G15v2", "G510" (5), "Z10" (4), "G13"
          MaxHeld     \* bound: bits held at a time

VARIABLES device,     \* the device the library has opened
          held,       \* the one bits <<byte, bit>> of the device's last packet of keys
          pressed,    \* *pressed_keys of the caller, the same word in every call
          result      \* what the last call returned

vars == <<device, held, pressed, result>>

---------------------------------------------------------------------------
\* A table has a sequence of eight names for each byte behind the header, the
\* lowest bit first; "no" is a bit nobody reads.  G15_KEY_G19 and
\* G15_KEY_HEADSETMUTE are the same bit of the word of keys, here "G19".

FourByte == <<
  <<"G1", "G2", "G3", "G4", "G5", "G6", "G7", "G8">>,
  <<"G9", "G10", "G11", "G12", "M1", "M2", "M3", "MR">>,
  <<"LIGHT", "G19", "no", "no", "no", "no", "no", "no">> >>

FiveByteG15v2 == <<
  <<"G1", "G2", "G3", "G4", "G5", "G6", "M1", "M2">>,
  <<"LIGHT", "L2", "L3", "L4", "L5", "M3", "MR", "L1">> >>

FiveByteG510 == <<
  <<"G1", "G2", "G3", "G4", "G5", "G6", "G7", "G8">>,
  <<"G9", "G10", "G11", "G12", "G13", "G14", "G15", "G16">>,
  <<"G17", "G18", "no", "LIGHT", "M1", "M2", "M3", "MR">>,
  <<"L1", "L2", "L3", "L4", "L5", "no", "no", "no">> >>

\* Mutant: the bit of G18 reports G17.
NineByteG18 == <<
  <<"G1", "no", "G13", "no", "no", "no", "no", "LIGHT">>,
  <<"G7", "G2", "no", "G14", "no", "no", "no", "L2">>,
  <<"no", "G8", "G3", "no", "G15", "no", "no", "L3">>,
  <<"no", "no", "G9", "G4", "no", "G16", "no", "L4">>,
  <<"no", "no", "no", "G10", "G5", "no", "G17", "L5">>,
  <<"M1", "no", "no", "no", "G11", "G6", "no", "no">>,
  <<"no", "M2", "no", "no", "no", "G12", "MR", "no">>,
  <<"no", "no", "M3", "no", "no", "no", "G17", "L1">> >>

NineByte == <<
  <<"G1", "no", "G13", "no", "no", "no", "no", "LIGHT">>,
  <<"G7", "G2", "no", "G14", "no", "no", "no", "L2">>,
  <<"no", "G8", "G3", "no", "G15", "no", "no", "L3">>,
  <<"no", "no", "G9", "G4", "no", "G16", "no", "L4">>,
  <<"no", "no", "no", "G10", "G5", "no", "G17", "L5">>,
  <<"M1", "no", "no", "no", "G11", "G6", "no", "no">>,
  <<"no", "M2", "no", "no", "no", "G12", "MR", "no">>,
  <<"no", "no", "M3", "no", "no", "no", "G18", "L1">> >>

G13Bytes == <<
  <<"no", "no", "no", "no", "no", "no", "no", "no">>,          \* the joystick, which the library ignores
  <<"no", "no", "no", "no", "no", "no", "no", "no">>,
  <<"G1", "G2", "G3", "G4", "G5", "G6", "G7", "G8">>,
  <<"G9", "G10", "G11", "G12", "G13", "G14", "G15", "G16">>,
  <<"G17", "G18", "G19", "G20", "G21", "G22", "no", "LIGHT">>,
  <<"L1", "L2", "L3", "L4", "L5", "M1", "M2", "M3">>,
  <<"MR", "no", "no", "no", "no", "no", "no", "no">> >>

Keys(table, bits) == {table[b[1]][b[2] + 1] : b \in bits} \ {"no"}

\* The decoders: each clears the word before it looks at the header.
processKeyEvent4Byte(own, bits) == IF own THEN Keys(FourByte, bits) ELSE {}
processKeyEvent5Byte(own, kind, bits) ==
  IF ~own THEN {} ELSE Keys(IF kind = "G510" THEN FiveByteG510 ELSE FiveByteG15v2, bits)
processKeyEvent9Byte(own, bits) == IF own THEN Keys(NineByte, bits) ELSE {}
processKeyEventG13(bits) == Keys(G13Bytes, bits)

\* A packet of the device's own length, with the header of a packet of keys or
\* with another one.
Decoded(kind, own, bits) ==
  CASE kind = "Z10" -> processKeyEvent4Byte(own, bits)
    [] kind \in {"G15v2", "G510"} -> processKeyEvent5Byte(own, kind, bits)
    [] kind = "G15" -> processKeyEvent9Byte(own, bits)
    [] kind = "G13" -> processKeyEventG13(bits)

Bytes(kind) ==
  CASE kind = "Z10" -> FourByte [] kind = "G15v2" -> FiveByteG15v2 [] kind = "G510" -> FiveByteG510
    [] kind = "G15" -> NineByte [] kind = "G13" -> G13Bytes

\* The bits of a device's packet that stand for a key.
KeyBits(kind) ==
  {b \in (DOMAIN Bytes(kind)) \X (0 .. 7) : Bytes(kind)[b[1]][b[2] + 1] # "no"}
AllBits(kind) == (DOMAIN Bytes(kind)) \X (0 .. 7)

---------------------------------------------------------------------------
Init ==
  /\ device \in Devices
  /\ held = {}
  /\ pressed = {}
  /\ result = "none"

\* The user presses or releases one key (or what a bit stands for) and the device
\* sends a packet with all that are held.
ReadKeys ==
  /\ \E bit \in AllBits(device) :
       held' = IF bit \in held THEN held \ {bit} ELSE held \union {bit}
  /\ Cardinality(held') <= MaxHeld
  /\ pressed' = Decoded(device, TRUE, held')
  /\ result' = "no_error"
  /\ UNCHANGED device

\* The ordinary keyboard's packets begin with 1 and leave the word as it is.
ReadKeyboard ==
  /\ device # "G13"
  /\ result' = "try_again"
  /\ UNCHANGED <<device, held, pressed>>

\* A packet of the right length with another header: it is decoded, as no key.
\* On a G13 it has no length the switch knows and ends as an unknown error.
ReadForeign ==
  /\ IF device = "G13" THEN result' = "error" /\ UNCHANGED pressed
     ELSE result' = "no_error" /\ pressed' = Decoded(device, FALSE, {})
  /\ UNCHANGED <<device, held>>

\* Nothing came, or the device is gone.  The G13's branch looks at the first byte
\* of a buffer nobody wrote: if the last packet still lies there it is decoded
\* once more and the call succeeds; otherwise the error is returned.
ReadFails ==
  /\ \/ result' = "error" /\ UNCHANGED pressed
     \/ device = "G13" /\ result \in {"no_error", "stale"}
        /\ pressed' = Decoded(device, TRUE, held) /\ result' = "stale"
  /\ UNCHANGED <<device, held>>

getPressedKeys == ReadKeys \/ ReadKeyboard \/ ReadForeign \/ ReadFails

Next == getPressedKeys

Spec == Init /\ [][Next]_vars

---------------------------------------------------------------------------
TellsAll ==
  held' # held => Cardinality(pressed') = Cardinality(held' \intersect KeyBits(device))

(* A packet of keys brings the whole truth, whatever was read before it: every *)
(* held key is reported by a key of its own, so no two keys of a device share  *)
(* one, none is lost, and nothing is reported that is not held.                *)
PacketsTellAll == [][TellsAll]_vars
=============================================================================
