------------------------------ MODULE ClockFace ------------------------------
(***************************************************************************)
(* What the clock plugin draws: the time as text, or as two hands over the *)
(* dial with the time beside it.  The keys switch between the formats (the *)
(* configuration's part of that is in Daemon).  The time goes on minute by *)
(* minute; the second hand is left out.                                    *)
(***************************************************************************)
EXTENDS Integers, Sequences

CONSTANTS Hours       \* bound: the hours of the day that pass, a set of 0 .. 23

VARIABLES hour, minute,   \* localtime
          mode,           \* 24-hour format
          showdate, digital,
          face            \* what the last pass of lcdclock put into lcd->buf

vars == <<hour, minute, mode, showdate, digital, face>>

CLOCK_CENTERX == 25
CLOCK_CENTERY == 21
CLOCK_RADIUS  == 20

---------------------------------------------------------------------------
\* 10000 times the sine of 0, 6, ..., 90 degrees; then of any multiple of 6.
Sines == <<0, 1045, 2079, 3090, 4067, 5000, 5878, 6691, 7431, 8090, 8660, 9135, 9511, 9781, 9945, 10000>>
Sine(pos) ==
  LET p == pos % 60
      up(q) == Sines[(IF q <= 15 THEN q ELSE 30 - q) + 1]
  IN  IF p <= 30 THEN up(p) ELSE -up(p - 30)
Cosine(pos) == Sine(pos + 15)

\* To the nearest pixel.  The centre is added first, so the sum is positive.
Rounded(tenthousandths) == (tenthousandths + 5000) \div 10000

\* Mutant: both axes with the sine.
get_clock_posSine(pos, cut_off) ==
  <<Rounded(10000 * CLOCK_CENTERX + Sine(pos % 60) * (CLOCK_RADIUS + 1 - cut_off)),
    Rounded(10000 * CLOCK_CENTERY - Sine(pos % 60) * (CLOCK_RADIUS - cut_off))>>

\* The end of a hand of cut_off pixels less than the radius at `pos` minutes.  (The
\* code turns the angle round twice; the dial is one pixel wider than high.)
get_clock_pos(pos, cut_off) ==
  <<Rounded(10000 * CLOCK_CENTERX + Sine(pos % 60) * (CLOCK_RADIUS + 1 - cut_off)),
    Rounded(10000 * CLOCK_CENTERY - Cosine(pos % 60) * (CLOCK_RADIUS - cut_off))>>

\* The dots of the dial stand at every hour but 12, 3, 6 and 9, which are written.
draw_static_canvas ==
  [dots |-> {get_clock_pos(i, 3) : i \in {5, 10, 20, 25, 35, 40, 50, 55}}, numbers |-> {12, 3, 6, 9}]

\* "%l" or "%H", and "%p".
HourText(h, with24) == IF with24 THEN <<h, "">>
                       ELSE <<IF h % 12 = 0 THEN 12 ELSE h % 12, IF h < 12 THEN "AM" ELSE "PM">>

\* The big text in the middle, with AM or PM behind it; the date below it, for
\* which the text moves up.
draw_digital(h, m, with24, date) ==
  [kind |-> "digital", text |-> <<HourText(h, with24)[1], m>>, ampm |-> HourText(h, with24)[2],
   top |-> IF date THEN 1 ELSE 7, date |-> date]

\* The hour hand moves on every twelve minutes.
Hands(h, m) == <<get_clock_pos((h % 12) * 5 + (m * 5) \div 60, 9), get_clock_pos(m, 6)>>

draw_analog(h, m, with24, date) ==
  [kind |-> "analog", dial |-> draw_static_canvas, hands |-> Hands(h, m),
   text |-> <<HourText(h, with24), m>>, date |-> date]

lcdclock(h, m) ==
  IF digital THEN draw_digital(h, m, mode, showdate) ELSE draw_analog(h, m, mode, showdate)

---------------------------------------------------------------------------
Init ==
  /\ hour \in Hours /\ minute = 0
  /\ mode = TRUE /\ showdate = FALSE /\ digital = TRUE
  /\ face = lcdclock(hour, minute)

\* The plugin's function runs every half second: it draws the time there is.
NextMinute ==
  /\ minute' = (minute + 1) % 60
  /\ IF minute = 59 THEN hour + 1 \in Hours /\ hour' = hour + 1 ELSE UNCHANGED hour
  /\ face' = lcdclock(hour', minute')
  /\ UNCHANGED <<mode, showdate, digital>>

\* A key, and the pass after it.
Key(l2, l3, l4) ==
  /\ mode' = (mode # l2)
  /\ showdate' = (showdate # l3)
  /\ digital' = (digital # l4)
  /\ face' = IF digital' THEN draw_digital(hour, minute, mode', showdate')
             ELSE draw_analog(hour, minute, mode', showdate')
  /\ UNCHANGED <<hour, minute>>

myeventhandler == \E l2, l3, l4 \in BOOLEAN : Key(l2, l3, l4)

Next == NextMinute \/ myeventhandler

Spec == Init /\ [][Next]_vars

---------------------------------------------------------------------------
\* Where the hands are at every time of the dial, computed once.
Dial == [t \in (0 .. 11) \X (0 .. 59) |-> Hands(t[1], t[2])]

(* The hands tell the time: no other time of the dial has the hands of this one, *)
(* though the end of the hour hand is on the same pixel twice.  (The text tells  *)
(* it by itself.)                                                                *)
HandsTellTime ==
  face.kind = "analog" =>
    \A h \in 0 .. 11, m \in 0 .. 59 : Dial[<<h, m>>] = face.hands => h = hour % 12 /\ m = minute
=============================================================================
