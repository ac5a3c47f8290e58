------------------------------ MODULE Spectrum ------------------------------
(***************************************************************************)
(* The spectrum plugins of xmms and audacious (Attic): the settings in     *)
(* effect, in the file and in the dialog, the keys, the peaks that hang in *)
(* the air, and the rows a frame's bars take.  Bars differ in nothing but  *)
(* their height; one stands for all.  Settings without a say in the order  *)
(* of things (linearity, amplification, the time's display) are left out.  *)
(***************************************************************************)
EXTENDS Integers

CONSTANTS Heights,   \* heights a bar's analysis may come to
          MaxClicks  \* bound: changes made in dialogs, and keys

VARIABLES player,    \* "xmms" or "audacious"
          cfg,       \* the settings in effect
          file,      \* the player's configuration file: settings, or NoFile
          dialog,    \* the dialog's widgets, or NoDialog
          tmp,       \* what the sliders left behind, Untouched or a value
          plugin,    \* "off", "on", "disabled" (no daemon), "dead" (no display: the mutex is never given back)
                     \* or "crashed", with the player
          timers,    \* which of the main loop's timeouts stand
          playing, paused,
          volume, lastvolume,
          peak,      \* bar_heights_peak of the bar
          early,     \* history: a dialog was opened before the settings had ever been set
          clicks

remote   == <<playing, paused, volume, lastvolume>>
settings == <<player, cfg, file, dialog, tmp, early>>
vars == <<settings, plugin, timers, remote, peak, clicks>>

Rows      == 43
INFERIOR_SPACE == 7
Loud      == 1        \* the loudest volume
NoFile    == [none |-> TRUE]
NoDialog  == [none |-> TRUE]
Untouched == -1
Untouchedtmp == [bars |-> Untouched, step |-> Untouched, rownum |-> Untouched]

\* The titles' line height: SUPERIOR_SPACE of xmms, CHAR_HEIGH of audacious.
TitleHeight == IF player = "xmms" THEN 7 ELSE 9
TitleRows(c) == IF c.title /\ ~c.overlay THEN TitleHeight * c.rownum ELSE 0

\* Numbers without a sign (of 30 bits, as wide as TLC can count with): those below
\* zero come out above all others.
HalfWord == 536870912
Unsigned(n) == IF n < 0 THEN n + 2 * HalfWord ELSE n
Signed(n)   == IF n >= HalfWord THEN n - 2 * HalfWord ELSE n

\* What is left for the bars below the titles and above the progress bar.
LimitOf(c) == Unsigned(Rows - (IF c.pbar THEN INFERIOR_SPACE ELSE 0) - TitleRows(c) - 1)
WithLimit(c) == [c EXCEPT !.limit = LimitOf(c)]

\* The defaults, but for some.
SettingsOf(keys, detached, rownum) ==
  WithLimit([vis |-> 0, bars |-> 32, effect |-> "peak", detached |-> detached, step |-> 2, keys |-> keys,
             title |-> TRUE, pbar |-> TRUE, rownum |-> rownum, overlay |-> FALSE, limit |-> 0])
Defaults == SettingsOf(FALSE, TRUE, 1)

\* What a program's statics hold before the first init.
Unset == [vis |-> 0, bars |-> 0, effect |-> "none", detached |-> FALSE, step |-> 0, keys |-> FALSE,
          title |-> FALSE, pbar |-> FALSE, rownum |-> 0, overlay |-> FALSE, limit |-> 0]

Effects == {"none", "peak", "analog"} \union (IF player = "audacious" THEN {"line"} ELSE {})

Init ==
  /\ player \in {"xmms", "audacious"}
  /\ file \in {NoFile, SettingsOf(TRUE, FALSE, 4)}
  /\ cfg = Unset /\ dialog = NoDialog /\ tmp = Untouchedtmp
  /\ plugin = "off" /\ timers = {}
  /\ playing = FALSE /\ paused = FALSE /\ volume = Loud /\ lastvolume = 0
  /\ peak = 0 /\ early = FALSE /\ clicks = 0

Click == clicks < MaxClicks /\ clicks' = clicks + 1

---------------------------------------------------------------------------
\* Settings from the file, over what was there; a value out of its range becomes
\* the default.  The limit is taken as it stands.
\* Mutant: a diode of 9 rows is one too high.
RefusedStrict(c, key) ==
  \/ key = "bars" /\ (c.bars > 128 \/ c.bars <= 1)
  \/ key = "step" /\ (c.step < 2 \/ c.step > 8)
  \/ key = "rownum" /\ (c.rownum > 4 \/ c.rownum < 1)

Refused(c, key) ==
  \/ key = "bars" /\ (c.bars > 128 \/ c.bars <= 1)
  \/ key = "step" /\ (c.step < 2 \/ c.step > 9)
  \/ key = "rownum" /\ (c.rownum > 4 \/ c.rownum < 1)

Accepted(c) == [key \in DOMAIN c |-> IF Refused(c, key) THEN Defaults[key] ELSE c[key]]

read_config(c) == Accepted(IF file = NoFile THEN c ELSE file)
write_config(c) == file' = c

\* The player takes the plugin up: the defaults first, then the file.  With key bindings it needs a display, and ends
\* without one with the mutex held.
init ==
  /\ plugin = "off"
  /\ cfg' = read_config(Defaults)
  /\ \/ cfg'.keys /\ plugin' = "dead" /\ UNCHANGED timers
     \/ plugin' = "disabled" /\ UNCHANGED timers
     \/ plugin' = "on" /\ timers' = {"display"} \union (IF cfg'.keys THEN {"mmedia", "g15keys"} ELSE {})
  /\ UNCHANGED <<player, file, dialog, tmp, early, remote, peak, clicks>>

\* It unloads it: the settings in effect are saved; whether the keys' timeouts are
\* taken away is asked of the settings of now.
cleanup ==
  /\ plugin \in {"on", "disabled"}
  /\ write_config(cfg)
  /\ timers' = timers \ ({"display"} \union (IF cfg.keys THEN {"mmedia", "g15keys"} ELSE {}))
  /\ plugin' = "off"
  /\ UNCHANGED <<player, cfg, dialog, tmp, early, remote, peak, clicks>>

\* The player ends and is started again, after a cleanup or by a kill.
quit ==
  /\ cfg' = Unset /\ dialog' = NoDialog /\ tmp' = Untouchedtmp
  /\ plugin' = "off" /\ timers' = {}
  /\ playing' = FALSE /\ paused' = FALSE /\ lastvolume' = 0 /\ peak' = 0
  /\ UNCHANGED <<player, file, early, volume, clicks>>

---------------------------------------------------------------------------
\* The dialog, which needs no plugin that is on: its widgets show the settings in
\* effect, zeros before the first init.  Only the number of bars is
\* set anew among what the sliders left; a second click finds the dialog open.
Widgets(c) == [vis |-> c.vis, effect |-> c.effect, detached |-> c.detached, keys |-> c.keys,
               title |-> c.title, pbar |-> c.pbar, overlay |-> c.overlay,
               bars |-> c.bars, step |-> c.step, rownum |-> c.rownum]
conf ==
  /\ Click
  /\ dialog' = IF dialog = NoDialog THEN Widgets(cfg) ELSE dialog
  /\ tmp' = [tmp EXCEPT !.bars = cfg.bars]
  /\ early' = (early \/ cfg.bars = Unset.bars)
  /\ UNCHANGED <<player, cfg, file, plugin, timers, remote, peak>>

\* A click on a button or a switch.
Toggle ==
  /\ dialog # NoDialog /\ Click
  /\ \/ dialog' = [dialog EXCEPT !.vis = 1 - @]
     \/ \E effect \in Effects \ {dialog.effect} : dialog' = [dialog EXCEPT !.effect = effect]
     \/ \E switch \in {"detached", "keys", "title", "pbar", "overlay"} : dialog' = [dialog EXCEPT ![switch] = ~@]
  /\ UNCHANGED <<player, cfg, file, tmp, early, plugin, timers, remote, peak>>

\* A slider is moved.  The bars' jumps to the double or the half of what it was, and
\* does not go below 2, as what it leaves behind does that began with zero.
adj_changed ==
  /\ dialog # NoDialog /\ Click
  /\ \/ \E to \in (2 .. 128) \intersect {dialog.bars - 2, dialog.bars + 2} :
          LET bars == IF to > tmp.bars THEN tmp.bars * 2 ELSE IF to < tmp.bars THEN tmp.bars \div 2 ELSE tmp.bars
          IN  tmp' = [tmp EXCEPT !.bars = bars] /\ dialog' = [dialog EXCEPT !.bars = IF bars < 2 THEN 2 ELSE bars]
     \/ \E rownum \in 1 .. 4 : tmp' = [tmp EXCEPT !.rownum = rownum] /\ dialog' = [dialog EXCEPT !.rownum = rownum]
     \/ \E step \in {2, 5, 9} : tmp' = [tmp EXCEPT !.step = step] /\ dialog' = [dialog EXCEPT !.step = step]
  /\ UNCHANGED <<player, cfg, file, early, plugin, timers, remote, peak>>

reset_defaults_gui ==
  /\ dialog # NoDialog /\ Click
  /\ dialog' = [Widgets(Defaults) EXCEPT !.overlay = IF player = "xmms" THEN @ ELSE dialog.overlay]
  /\ tmp' = [bars |-> Defaults.bars, step |-> Defaults.step, rownum |-> Defaults.rownum]
  /\ UNCHANGED <<player, cfg, file, early, plugin, timers, remote, peak>>

\* What apply makes of the widgets: the sliders' numbers are those left behind.
Left(value, old) == IF value = Untouched THEN old ELSE value

Applied == WithLimit(
  [vis |-> dialog.vis, effect |-> dialog.effect, detached |-> dialog.detached, keys |-> dialog.keys,
   title |-> dialog.title, pbar |-> dialog.pbar, overlay |-> dialog.overlay,
   bars |-> Left(tmp.bars, cfg.bars), step |-> Left(tmp.step, cfg.step),
   rownum |-> Left(tmp.rownum, cfg.rownum), limit |-> 0])

conf_apply ==
  /\ dialog # NoDialog /\ plugin # "dead" /\ Click
  /\ cfg' = Applied
  /\ UNCHANGED <<player, file, dialog, tmp, early, plugin, timers, remote, peak>>

conf_ok ==
  /\ dialog # NoDialog /\ plugin # "dead"
  /\ cfg' = Applied /\ write_config(Applied) /\ dialog' = NoDialog
  /\ UNCHANGED <<player, tmp, early, plugin, timers, remote, peak, clicks>>

\* Cancel goes back to what is saved; the window's own button to nothing.
conf_cancel ==
  /\ dialog # NoDialog
  /\ \/ plugin # "dead" /\ cfg' = read_config(cfg)
     \/ UNCHANGED cfg
  /\ dialog' = NoDialog
  /\ UNCHANGED <<player, file, tmp, early, plugin, timers, remote, peak, clicks>>

---------------------------------------------------------------------------
\* The panel's keys: L1 changes the picture and saves all settings in effect.
poll_g15keys ==
  /\ "g15keys" \in timers /\ plugin = "on" /\ Click
  /\ cfg' = [cfg EXCEPT !.vis = 1 - @] /\ write_config(cfg')
  /\ UNCHANGED <<player, dialog, tmp, early, plugin, timers, remote, peak>>

\* The multimedia keys.  (Next, previous and stop are the player's alone.)
poll_mmediakeys ==
  /\ "mmedia" \in timers /\ plugin = "on" /\ Click
  /\ \/ playing /\ paused' = ~paused /\ UNCHANGED <<volume, lastvolume>>
     \/ volume' = (IF volume < 1 THEN 1 ELSE volume) - 1 /\ UNCHANGED <<paused, lastvolume>>
     \/ volume' = (IF volume > Loud - 1 THEN Loud - 1 ELSE volume) + 1 /\ UNCHANGED <<paused, lastvolume>>
     \/ /\ IF volume # 0 THEN lastvolume' = volume /\ volume' = 0
           ELSE lastvolume' = lastvolume /\ volume' = lastvolume
        /\ UNCHANGED paused
  /\ UNCHANGED <<settings, plugin, timers, playing, peak>>

playback_start ==
  /\ plugin = "on" /\ ~playing
  /\ playing' = TRUE /\ paused' = FALSE
  /\ UNCHANGED <<settings, plugin, timers, volume, lastvolume, peak, clicks>>

playback_stop ==
  /\ plugin = "on" /\ playing
  /\ playing' = FALSE /\ paused' = FALSE
  /\ UNCHANGED <<settings, plugin, timers, volume, lastvolume, peak, clicks>>

---------------------------------------------------------------------------
\* The bar's height in a frame.  (A height below zero is compared as one without a
\* sign, and becomes the highest.)
Peaks == cfg.effect = "peak"
BarHeight(h) ==
  LET most == IF Peaks THEN Unsigned(cfg.limit - 2) ELSE cfg.limit
      cut == IF Unsigned(h) > most THEN Signed(most) ELSE h
  IN  IF cut < 0 THEN 0 ELSE cut

\* The peak of before sinks by a row until a bar lifts it again.  audacious has
\* also a bar of the same height sink.
PeakAfter(h) ==
  LET bar == BarHeight(h)
  IN  IF ~Peaks THEN peak
      ELSE IF IF player = "xmms" THEN bar >= peak ELSE bar > peak THEN bar ELSE peak - 1

Bottom == Rows - (IF cfg.pbar THEN INFERIOR_SPACE ELSE 1)

\* The row a frame's bar begins at, from the top; light-emitting diodes are step - 1
\* rows high and counted from the bottom.
BarTop(h) ==
  LET top == Bottom - BarHeight(h)
      end == top + cfg.step - (top % cfg.step) - 1
      last == Bottom - ((Bottom - end) \div cfg.step) * cfg.step
  IN  IF cfg.effect # "analog" THEN top
      ELSE IF end > Bottom THEN Bottom ELSE last - cfg.step + 2

PeakShown(h) == Peaks /\ PeakAfter(h) > 0 /\ Unsigned(PeakAfter(h)) < cfg.limit
PeakRow(h) == Bottom - PeakAfter(h) - (IF cfg.detached THEN 2 ELSE 0)

\* Bars are drawn while something plays, and the display's width is divided by their
\* number.
BarsDrawn == playing /\ cfg.vis = 0
divide_error ==
  /\ plugin = "on" /\ "display" \in timers
  /\ BarsDrawn /\ cfg.bars = 0
  /\ plugin' = "crashed" /\ timers' = {}
  /\ UNCHANGED <<settings, remote, peak, clicks>>

\* A frame, of a bar of height h; the volume is looked at whether it was the keys or
\* the player that changed it.
g15send_func ==
  /\ plugin = "on" /\ "display" \in timers
  /\ BarsDrawn => cfg.bars # 0
  /\ \E h \in Heights : peak' = IF BarsDrawn THEN PeakAfter(h) ELSE peak
  /\ lastvolume' = volume
  /\ UNCHANGED <<settings, plugin, timers, playing, paused, volume, clicks>>

Next == init \/ cleanup \/ quit \/ conf \/ Toggle \/ adj_changed \/ reset_defaults_gui \/ conf_apply \/ conf_ok \/ conf_cancel
        \/ poll_g15keys \/ poll_mmediakeys \/ playback_start \/ playback_stop \/ divide_error \/ g15send_func

Spec == Init /\ [][Next]_vars

---------------------------------------------------------------------------
\* The rows that the limit in effect leaves to the titles.  One that was saved by a
\* dialog before the first init knows of no titles.
FreeRows ==
  IF early /\ cfg.limit = LimitOf([cfg EXCEPT !.rownum = 0]) THEN 0 ELSE TitleRows(cfg)

(* Whatever was set, applied, cancelled and read back, and however high an old  *)
(* peak still hangs: where the settings leave room for bars at all, the next     *)
(* frame's bars and peaks stay out of the titles' rows, diodes but for those     *)
(* taller than two rows, peaks but for the one row a limit lowered meanwhile     *)
(* lets them; and a peak is never inside its bar. Only a dialog that was opened  *)
(* before the plugin first ran can leave a limit that forgets the titles.        *)
BarsKeepOff ==
  plugin = "on" /\ TitleRows(cfg) + (IF cfg.pbar THEN INFERIOR_SPACE ELSE 0) < Rows =>
    \A h \in Heights :
      /\ BarTop(h) >= FreeRows - (IF cfg.effect = "analog" THEN cfg.step - 2 ELSE 0)
      /\ BarTop(h) <= Bottom
      /\ PeakShown(h) => /\ PeakRow(h) >= FreeRows - 1
                         /\ PeakRow(h) <= BarTop(h) + (IF player = "audacious" THEN 1 ELSE 0)

(* What is saved is in effect when the player takes the plugin up again: nothing *)
(* that the dialog allows is refused by the file's checks, but the zeros that a  *)
(* dialog saved before the plugin first ran.                                     *)
SettingsSurvive ==
  init /\ file # NoFile =>
    \A key \in DOMAIN file :
      \/ cfg'[key] = file[key]
      \/ early /\ key \in {"bars", "step", "rownum"} /\ file[key] = 0
SettingsKept == [][SettingsSurvive]_vars
=============================================================================
