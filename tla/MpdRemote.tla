------------------------------ MODULE MpdRemote ------------------------------
(***************************************************************************)
(* g15mpd (Attic): a remote control for the music player daemon.  A thread *)
(* reads the panel's keys, one the keyboard's multimedia keys, one draws,  *)
(* and the main thread applies the volume and polls the player, whose      *)
(* changes come back through a callback.  daemon_mutex covers the socket   *)
(* and two of the variables; everything else is shared without a lock.     *)
(***************************************************************************)
EXTENDS Integers, FiniteSets

CONSTANTS Songs,       \* length of the playlist; a song's id is its position
          Volumes,     \* volumes the player may have at first, in percent
          Quickscroll, \* the option of this name
          Weight,      \* bound: what each key counts, and the daemon's own acts "front" and "restart"
          MaxKeys      \* bound: what they may come to

VARIABLES server,      \* the player: state, volume, options (random, repeat), song
          track_info,  \* what the callback has heard of it
          playing, paused,
          playlist_mode, own_keyboard, playlist_selection, item_selected, current,
          menulevel, volume_adjust, mute, muted_volume,
          fg,          \* the daemon: is the screen in front
          current_fg_check, last_fg_check,
          daemon_mutex,     \* "free" or the thread that holds it
          link,        \* the connection to the daemon: "up" or "down"
          l, e, d, m,  \* where the four threads are
          panel,       \* the frame sent last
          entered,     \* history: the player's song when the list was entered last, -1 before
          keys         \* what they come to so far

list   == <<playlist_mode, own_keyboard, playlist_selection, item_selected, current>>
volume == <<volume_adjust, mute, muted_volume>>
front  == <<fg, current_fg_check, last_fg_check>>
vars == <<server, track_info, playing, paused, list, menulevel, volume, front,
          daemon_mutex, link, l, e, d, m, panel, entered, keys>>

MAX_MENU_MODES == 2
Clamp(v) == IF v < 0 THEN 0 ELSE IF v > 100 THEN 100 ELSE v     \* the player's library does it too

Init ==
  /\ server \in [state : {"play", "stop"}, volume : Volumes, options : {{}}, song : {0, Songs - 1}]
  /\ track_info = [state |-> "none", options |-> {}, volume |-> 0, currentsong |-> 0]
  /\ playing = FALSE /\ paused = FALSE
  /\ playlist_mode = FALSE /\ own_keyboard = FALSE /\ playlist_selection = 0 /\ item_selected = 0 /\ current = 0
  /\ menulevel = 0 /\ volume_adjust = 0 /\ mute = FALSE /\ muted_volume = 0
  /\ fg = TRUE /\ current_fg_check = FALSE /\ last_fg_check = FALSE
  /\ daemon_mutex = "free" /\ link = "up" /\ panel = [kind |-> "none"] /\ entered = -1 /\ keys = 0
  /\ l = [pc |-> "check"] /\ e = [pc |-> "poll"] /\ d = [pc |-> "draw", frame |-> panel] /\ m = "adjust"

\* A key is pressed, or the daemon acts.
Happens(key) == keys' = keys + Weight[key] /\ keys' <= MaxKeys

---------------------------------------------------------------------------
\* Lkeys_thread.  In playlist mode the keyboard is its own only in front.  Without
\* a connection the answer is an error's code, or 0.
LookAtFront ==
  /\ l.pc = "check"
  /\ \E seen \in (IF link = "up" THEN {fg} ELSE BOOLEAN) :
       /\ current_fg_check' = seen
       /\ IF playlist_mode /\ last_fg_check # seen
          THEN own_keyboard' = seen /\ last_fg_check' = seen
          ELSE UNCHANGED <<own_keyboard, last_fg_check>>
  /\ l' = [pc |-> "lock"]
  /\ UNCHANGED <<server, track_info, playing, paused, playlist_mode, playlist_selection, item_selected, current,
                 menulevel, volume, fg, daemon_mutex, link, e, d, m, panel, keys, entered>>

\* A look at the socket with the mutex held.  (poll watches the descriptor the thread
\* began with; the socket does not block, so that one lost is only never waited for.)
LockSocket ==
  /\ l.pc = "lock" /\ daemon_mutex = "free"
  /\ l' = [pc |-> "key"]
  /\ UNCHANGED <<server, track_info, playing, paused, list, menulevel, volume, front,
                 daemon_mutex, link, e, d, m, panel, keys, entered>>

\* There was no key.
NoKey ==
  /\ l.pc = "key"
  /\ l' = [pc |-> "check"]
  /\ UNCHANGED <<server, track_info, playing, paused, list, menulevel, volume, front,
                 daemon_mutex, link, e, d, m, panel, keys, entered>>

\* A key.  L4 and L5 act on the options, or ask for the volume and set it later.
Toggled(option) == (server.options \union {option}) \ (server.options \intersect {option})

PressL(key) ==
  /\ l.pc = "key" /\ fg /\ link = "up" /\ Happens(key)
  /\ l' = IF key \in {"L4", "L5"} /\ menulevel = 1
          THEN [pc |-> "volume",
                to |-> IF key = "L4" THEN (IF server.volume > 0 THEN server.volume - 10 ELSE server.volume)
                       ELSE (IF server.volume < 100 THEN server.volume + 10 ELSE server.volume)]
          ELSE [pc |-> "check"]
  /\ menulevel' = IF key = "L2" THEN (menulevel + 1) % MAX_MENU_MODES ELSE menulevel
  /\ server' = IF key \in {"L4", "L5"} /\ menulevel = 0
               THEN [server EXCEPT !.options = Toggled(IF key = "L4" THEN "random" ELSE "repeat")] ELSE server
  /\ IF key = "L3"
     THEN /\ own_keyboard' = ~own_keyboard /\ playlist_mode' = ~own_keyboard
          /\ track_info' = IF ~own_keyboard /\ server.song # 0
                           THEN [track_info EXCEPT !.currentsong = server.song] ELSE track_info
          /\ entered' = IF ~own_keyboard THEN server.song ELSE entered
     ELSE UNCHANGED <<own_keyboard, playlist_mode, track_info, entered>>
  /\ UNCHANGED <<playing, paused, playlist_selection, item_selected, current, volume, front,
                 daemon_mutex, link, e, d, m, panel>>

SetVolume ==
  /\ l.pc = "volume"
  /\ server' = [server EXCEPT !.volume = Clamp(l.to)]
  /\ l' = [pc |-> "check"]
  /\ UNCHANGED <<track_info, playing, paused, list, menulevel, volume, front,
                 daemon_mutex, link, e, d, m, panel, keys, entered>>

Lkeys_thread ==
  LookAtFront \/ LockSocket \/ NoKey \/ SetVolume \/ \E key \in {"L2", "L3", "L4", "L5"} : PressL(key)

---------------------------------------------------------------------------
\* event_key_thread.  The play key is a pause key while something plays (and a
\* player that has stopped does not pause); the
\* variable that says so is set after the player was told.  Any key that is not
\* another action's last word takes an owned keyboard's menu back to the first.
PressPlay ==
  /\ e.pc = "poll" /\ current_fg_check /\ Happens("play")
  /\ LET pauses == playing /\ ~playlist_mode /\ ~paused
         song == IF playlist_mode THEN item_selected ELSE server.song
     IN  /\ server' = [server EXCEPT !.state = IF ~pauses THEN "play" ELSE IF @ = "stop" THEN "stop" ELSE "pause",
                                     !.song = song]
         /\ e' = [pc |-> "played", var |-> IF playing /\ ~playlist_mode THEN "paused" ELSE "playing",
                  to |-> pauses \/ ~(playing /\ ~playlist_mode)]
  /\ UNCHANGED <<track_info, playing, paused, list, menulevel, volume, front,
                 daemon_mutex, link, l, d, m, panel, entered>>

Played ==
  /\ e.pc = "played"
  /\ playing' = IF e.var = "playing" THEN TRUE ELSE playing
  /\ paused' = IF e.var = "paused" THEN e.to ELSE paused
  /\ menulevel' = IF own_keyboard THEN 0 ELSE menulevel
  /\ e' = [pc |-> "poll"]
  /\ UNCHANGED <<server, track_info, list, volume, front, daemon_mutex, link, l, d, m, panel, keys, entered>>

PressStop ==
  /\ e.pc = "poll" /\ current_fg_check /\ Happens("stop")
  /\ server' = [server EXCEPT !.state = "stop"]
  /\ playing' = FALSE
  /\ UNCHANGED <<track_info, paused, list, menulevel, volume, front, daemon_mutex, link, l, e, d, m, panel, entered>>

PressSkip ==
  /\ e.pc = "poll" /\ current_fg_check /\ Happens("skip")
  /\ \E step \in {-1, 1} :
       IF playlist_mode THEN playlist_selection' = playlist_selection + step /\ UNCHANGED server
       ELSE /\ server' = IF server.song + step \in 0 .. Songs - 1
                         THEN [server EXCEPT !.song = server.song + step] ELSE server
            /\ UNCHANGED playlist_selection
  /\ UNCHANGED <<track_info, playing, paused, playlist_mode, own_keyboard, item_selected, current, menulevel, volume,
                 front, daemon_mutex, link, l, e, d, m, panel, entered>>

\* Volume and mute are left for the main thread; with --quickscroll the volume
\* keys scroll in the list.
PressVolume ==
  /\ e.pc = "poll" /\ current_fg_check /\ daemon_mutex = "free"
  /\ \/ /\ ~(playlist_mode /\ Quickscroll) /\ Happens("volume")
        /\ \E step \in {-1, 1} : volume_adjust' = volume_adjust + step
        /\ UNCHANGED <<mute, playlist_selection, menulevel>>
     \/ /\ playlist_mode /\ Quickscroll /\ Happens("volume")
        /\ \E step \in {-1, 1} : playlist_selection' = playlist_selection + step
        /\ menulevel' = IF own_keyboard THEN 0 ELSE menulevel
        /\ UNCHANGED <<mute, volume_adjust>>
     \/ Happens("mute") /\ mute' = TRUE /\ UNCHANGED <<volume_adjust, playlist_selection, menulevel>>
  /\ UNCHANGED <<server, track_info, playing, paused, playlist_mode, own_keyboard, item_selected, current,
                 muted_volume, front,
                 daemon_mutex, link, l, e, d, m, panel, entered>>

event_key_thread == PressPlay \/ Played \/ PressStop \/ PressSkip \/ PressVolume

---------------------------------------------------------------------------
\* g15display_thread.  The cursor starts at the song the key thread has left, takes
\* all steps forward at once and of those back only one; the highlighted song is
\* what play will play.  (A song of id 0 is not taken.)  Where nothing has moved the
\* canvas stays as it was, a track's picture too.
Moved == \/ track_info.currentsong > -1
         \/ playlist_selection > 0 /\ current + 1 < Songs
         \/ playlist_selection < 0 /\ current > 0

Cursor ==
  LET from == IF track_info.currentsong > -1 THEN track_info.currentsong ELSE current
  IN  IF playlist_selection > 0 /\ from + 1 < Songs THEN from + playlist_selection
      ELSE IF playlist_selection < 0 /\ from > 0 THEN from - 1 ELSE from

DrawList ==
  /\ d.pc = "draw" /\ playlist_mode
  /\ current' = Cursor
  /\ track_info' = [track_info EXCEPT !.currentsong = -1]
  /\ playlist_selection' = 0
  /\ item_selected' = IF Moved /\ Cursor \in 1 .. Songs - 1 THEN Cursor ELSE item_selected
  /\ d' = [pc |-> "send", frame |-> IF Moved THEN [kind |-> "list", cursor |-> Cursor] ELSE d.frame]
  /\ UNCHANGED <<server, playing, paused, playlist_mode, own_keyboard, menulevel, volume, front,
                 daemon_mutex, link, l, e, m, panel, keys, entered>>

\* Mutant: a stopped player leaves playing as it is.
PlayingAfterKept(state) == IF state = "play" THEN TRUE ELSE playing

PlayingAfter(state) == IF state = "play" THEN TRUE ELSE IF state = "stop" THEN FALSE ELSE playing

PausedAfter(state) == IF state = "none" THEN paused ELSE state = "pause"

\* The track, the state, the two menus' buttons.
DrawTrack ==
  /\ d.pc = "draw" /\ ~playlist_mode
  /\ playing' = PlayingAfter(track_info.state)
  /\ paused' = PausedAfter(track_info.state)
  /\ d' = [pc |-> "send",
           frame |-> [kind |-> "track", state |-> track_info.state, menu |-> menulevel, muted |-> muted_volume # 0,
                      options |-> IF menulevel = 0 THEN track_info.options ELSE {}]]
  /\ UNCHANGED <<server, track_info, list, menulevel, volume, front,
                 daemon_mutex, link, l, e, m, panel, keys, entered>>

\* A frame equal to the last is not sent.  A lost connection is tried again until
\* the daemon is back, with the mutex held.
SendFrame ==
  /\ d.pc = "send" /\ daemon_mutex = "free"
  /\ IF d.frame # panel /\ link = "down"
     THEN daemon_mutex' = "d" /\ d' = [d EXCEPT !.pc = "reconnect"] /\ UNCHANGED panel
     ELSE UNCHANGED daemon_mutex /\ d' = [d EXCEPT !.pc = "draw"] /\ panel' = d.frame
  /\ UNCHANGED <<server, track_info, playing, paused, list, menulevel, volume, front,
                 link, l, e, m, keys, entered>>

Reconnect ==
  /\ d.pc = "reconnect" /\ link = "up"
  /\ daemon_mutex' = "free" /\ d' = [d EXCEPT !.pc = "draw"] /\ panel' = d.frame
  /\ UNCHANGED <<server, track_info, playing, paused, list, menulevel, volume, front,
                 link, l, e, m, keys, entered>>

Drawing == DrawList \/ DrawTrack
g15display_thread == Drawing \/ SendFrame \/ Reconnect

---------------------------------------------------------------------------
\* The main thread: mute, then the volume, then the news.  Muting remembers the
\* volume; unmuting brings it back unless somebody else has.
ApplyMute ==
  /\ m = "adjust" /\ daemon_mutex = "free" /\ mute
  /\ daemon_mutex' = "m"
  /\ mute' = FALSE /\ volume_adjust' = 0
  /\ IF muted_volume = 0 THEN muted_volume' = server.volume /\ m' = "silence"
     ELSE muted_volume' = muted_volume /\ m' = "restore"
  /\ UNCHANGED <<server, track_info, playing, paused, list, menulevel, front, link, l, e, d, panel, keys, entered>>

Silence ==
  /\ m \in {"silence", "restore"}
  /\ server' = IF m = "silence" THEN [server EXCEPT !.volume = 0]
               ELSE IF server.volume = 0 THEN [server EXCEPT !.volume = muted_volume] ELSE server
  /\ muted_volume' = IF m = "silence" THEN muted_volume ELSE 0
  /\ m' = "update" /\ UNCHANGED daemon_mutex
  /\ UNCHANGED <<track_info, playing, paused, list, menulevel, volume_adjust, mute, front,
                 link, l, e, d, panel, keys, entered>>

ApplyVolume ==
  /\ m = "adjust" /\ daemon_mutex = "free" /\ ~mute /\ volume_adjust # 0
  /\ daemon_mutex' = "m"
  /\ server' = [server EXCEPT !.volume =
                  Clamp((IF muted_volume # 0 THEN muted_volume ELSE server.volume) + volume_adjust)]
  /\ volume_adjust' = 0 /\ muted_volume' = 0
  /\ m' = "update"
  /\ UNCHANGED <<track_info, playing, paused, list, menulevel, mute, front, link, l, e, d, panel, keys, entered>>

NothingToApply ==
  /\ m = "adjust" /\ daemon_mutex = "free" /\ ~mute /\ volume_adjust = 0
  /\ daemon_mutex' = "m" /\ m' = "update"
  /\ UNCHANGED <<server, track_info, playing, paused, list, menulevel, volume, front,
                 link, l, e, d, panel, keys, entered>>

\* mpd_status_update calls status_changed with what is new, in this thread.
status_changed ==
  /\ m = "update"
  /\ track_info' = [track_info EXCEPT !.state = server.state, !.options = server.options, !.volume = server.volume]
  /\ daemon_mutex' = "free" /\ m' = "adjust"
  /\ UNCHANGED <<server, playing, paused, list, menulevel, volume, front, link, l, e, d, panel, keys, entered>>

Applying == ApplyMute \/ ApplyVolume \/ NothingToApply
Main == Applying \/ Silence \/ status_changed

---------------------------------------------------------------------------
\* The daemon brings another screen to the front, or is restarted.
DaemonActs ==
  /\ \/ fg' = ~fg /\ Happens("front") /\ UNCHANGED link
     \/ link = "up" /\ link' = "down" /\ Happens("restart") /\ UNCHANGED fg
     \/ link = "down" /\ d.pc = "reconnect" /\ link' = "up" /\ UNCHANGED <<fg, keys>>
  /\ UNCHANGED <<server, track_info, playing, paused, list, menulevel, volume, current_fg_check, last_fg_check,
                 daemon_mutex, l, e, d, m, panel, entered>>

Next == Lkeys_thread \/ event_key_thread \/ g15display_thread \/ Main \/ DaemonActs

\* The threads' loops go on; nobody must press a key or restart the daemon.
Spec == Init /\ [][Next]_vars
        /\ WF_vars(LookAtFront) /\ SF_vars(LockSocket) /\ WF_vars(NoKey) /\ WF_vars(SetVolume)
        /\ WF_vars(Played) /\ WF_vars(Main) /\ SF_vars(Applying)
        /\ WF_vars(Drawing) /\ SF_vars(SendFrame) /\ WF_vars(Reconnect)

---------------------------------------------------------------------------
(* When no more keys come, the remote's own idea of the player, which decides   *)
(* what the play key does, and the panel agree with the player, whichever thread *)
(* wrote last, and behind a daemon that was restarted, too.  Of the list that is *)
(* so for its cursor: nothing draws a track's picture anew while the list is on, *)
(* and one that was entered at the first song may not be drawn at all.           *)
Agrees ==
  /\ ~playlist_mode =>
       /\ paused = (server.state = "pause")
       /\ server.state = "play" => playing
       /\ server.state = "stop" => ~playing
       /\ panel.kind = "track" /\ panel.state = server.state /\ panel.muted = (muted_volume # 0)
       /\ panel.menu = 0 => panel.options = server.options
  /\ playlist_mode /\ entered # 0 => panel.kind = "list"
  /\ panel.kind = "list" => playlist_mode /\ (panel.cursor \in 1 .. Songs - 1 => item_selected = panel.cursor)

Settled == link = "up" => Agrees
RemoteSettles == <>[]Settled
=============================================================================
