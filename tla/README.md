# LogiToolsD in TLA+

A verification development for the programs in this repository: the daemon that
owns a Logitech keyboard with an LCD (`logitoolsd`), its plugins, its client
library, the USB and render libraries, the macro client, and the programs of
earlier versions that are kept under `Attic/`. Paths below are relative to `src/`.

## The system

| Part | Code | State | Operations |
|---|---|---|---|
| Screen list | `logitoolsd/logitoolsd/linked_lists.c`, `main.c` (`send_event`) | ring of nodes, `head`, `tail`, `current`, `last_priority`, `numclients`, user flags | add, remove, priority, never-select, cycle |
| Refresh and draw loop | `utility_funcs.c` (`send_refresh`, `wait_refresh`), `main.c` (`lcd_draw_thread`) | condition variable, `refresh_pending`, `state_changed`, panel and LEDs | refresh, wait, draw, set lights |
| Key events | `main.c` (`keyboard_watch_thread`, `send_event`), `plugins/g15_plugin_uinput.c` | last keys, click time, remote handler socket, uinput's last keys | read, dispatch, cycle or long press, key up and down |
| Client connections | `plugins/g15_plugin_net.c` | listening socket, one thread, socket, node and buffer per client | accept, hello, frames, out-of-band commands, close |
| Client library | `logitoolsd/liblogitoolsdl/logitoolsdl_net.c` | a socket | open, send, receive, command |
| Plugins and loader | `logitools_plugins.c`, clock, uinput, template | handles, threads, event handlers | load, run, exit, unload |
| Daemon start and end | `main.c`, `utility_funcs.c` | pid file, threads, `leaving` | start, signal, join, tear down |
| Configuration | `utility_funcs.c` | list of sections and of items | read, set, remove, write back |
| USB library | `liblogitech/liblogitech.c` | device handle, `libusb_mutex`, slow mode | pixmap, lights, key packets, reopen |
| Render library | `liblogitechrender/src` | a canvas, fonts | pixels, lines, boxes, circles, pictures, text |
| Macro client | `logitoolsd-clients/logitools-macro` | configurations, recording, M state, menu | record, play, switch, save, draw |
| Programs of earlier versions | `Attic/` (not built any more) | per program: screens, sockets, FIFOs, settings | statistics, a music player's remote, composer, script tool, messages, power monitor, viewers, spectrum |

**How they interact.** The daemon runs one thread for the keyboard, one for the
panel, one that accepts connections, one per connected client and one per
plugin; the main thread waits for a signal. They share the screen list under
`lcdlist_mutex` and the USB device under `g15lib_mutex`, but `refresh_pending`,
`leaving`, `remote_keyhandler_sock` and several reads of `current` have no lock.
Clients are separate processes behind a TCP socket; frames come in band, commands
out of band. Plugins are called back through event handlers. The macro client and
the programs of Attic are such clients, with threads of their own: one reads
keys, one draws, others serve a player, a FIFO or X11, and what they share they
mostly share without a lock.

**What is hard.** Client threads open, close and take priority while the
keyboard thread cycles and reads `current` without the mutex; memory is freed
under pointers that others keep; a wake-up may fall between a check and a wait;
the keyboard may be unplugged while a mutex is held; key presses and releases may
take different routes; two daemons start together, crash, and restart over files
that the last one left half written; plugins' threads outlive the list that main
frees; the macro client saves one configuration while it selects another; the end
of each program races all of this. `PROJECT.json` lists each hazard at its line.

**What makes each part correct.** *List*: it stays a ring of exactly the open
screens, the shown screen is open, the cycle key reaches every screen that may be
selected, and the user's flag marks one screen. *Draw loop*: frames are shown
whole and not lost, locks are paired, unplugging blocks nobody for good, the end
comes. *Keys*: every press that was delivered is released, at the same receiver;
the cycle key's press is swallowed, or replayed with its release. *Connections*: a
client's keys and frames are its own; a closed client leaves nothing behind.
*Start and end*: one daemon serves, each plugin runs once, settings come back.
*Configuration*: what was set is what is read, in its order. *USB*: the mutex is free
after every call; a packet decodes to the keys it carries. *Rendering*: shapes
touch the pixels of their definition and stay on the canvas; the panel gets them.
*Macros*: what was recorded for a key of a configuration is found under that key
and no other, after switches and restarts too. *Programs of Attic*: when nobody acts
any more, the panel shows what the program's state says.

## Modules

| Module | Models | Lives in |
|---|---|---|
| `ScreenStack` | abstract: open screens ordered by age, one shown | `LcdList` |
| `LcdList` | the list of nodes, pointer by pointer, the threads' sections on it, and the mapping to `ScreenStack` | `MCLcdList`, `MCKeyboard` |
| `MCLcdList` | instances of `LcdList`, the liveness of its cycle, the refuted claim | runs `list`, `list_dangling`, and `MCKeyboard` |
| `DrawLoop` | refresh, wait, draw thread, keyboard loss, end of both threads | runs `draw`, `draw_live`, `draw_lost` |
| `KeyPath` | the keyboard thread, the cycle key, uinput, the client in front, the key handler | `MCKeyboard` |
| `NetClient` | client library, listening thread, client threads, descriptors, keys on the wire | run `net` |
| `UsbLib` | the USB library's handle, mutex and slow mode, and the threads that call it | run `usb` |
| `MacroClient`, `MCMacroClient` | the macro client's threads, tables, files, end and restart | run `macro`, and `MCClients` |
| `Daemon` | processes over a pid file, a configuration file and a plugin directory | `MCParts` |
| `ConfigMap` | abstract: sections of keys with their last values | `Config` |
| `Config` | the linked items of the configuration, the file, and the refinement | `Parts` |
| `PluginThread` | the threads of the plugins, from load to exit | `MCPrograms` |
| `MacroMenu` | the macro client's menu and who draws it | `Parts` |
| `Canvas`, `Shapes` | the render library's figures as writes of pixels; a program that draws them | `Parts` |
| `Fonts` | converter, font file, loading, measuring, printing | `Parts` |
| `Panel` | the three layouts a pixel goes through | `Parts` |
| `KeyPackets` | the key packets of five keyboards and their decoders | `Parts` |
| `ClockFace` | the clock plugin's face at each time | `Parts` |
| `Spectrum` | settings, bars and peaks of the xmms and audacious plugins | `Parts` |
| `CatDisplay` | g15cat: a stream on a display of scrolling lines | `Parts` |
| `StatsScreens` | g15stats: which of nine screens is shown | `MCClients` |
| `MpdRemote` | g15mpd: four threads between the panel and a music player | `MCPrograms` |
| `ComposerThreads` | g15composer: a thread and a FIFO for each screen | `MCPrograms` |
| `ScriptTool` | g15scriptool: commands of a script and the processes that obey them | `MCPrograms` |
| `MessageTool` | g15message: a text in rows, and a question kept in front | `MCClients` |
| `DpmsMonitor` | g15dpms-monitor: a panel as dark as the monitor | `MCClients` |
| `TailView` | g15tailf: the end of a file that grows | `MCPrograms` |
| `Parts` | the instances of nine modules that keep no state in common, and what is promised of each | `MCParts` |
| `MCKeyboard` | `KeyPath` beside the cycle key's walk in `LcdList`, see *Runs* | run `keys` |
| `MCParts` | `Daemon` beside `Parts`, and their bounds | run `parts` |
| `MCPrograms` | `PluginThread` beside four programs of Attic | run `programs` |
| `MCClients` | `MacroClient` beside three programs of Attic | run `clients` |
| `LcdListProofs`, `NetClientProofs`, `UsbLibProofs`, `MacroClientProofs`, `DaemonProofs` | proofs about the modules they are named after | |
| `KeyPathProofs` | proofs about `Config` (as a part in `Parts`) and `KeyPath`: what is configured and what is typed | |
| `DrawLoopProofs` | proofs about `Panel`, `Fonts`, `ClockFace` (as parts in `Parts`) and `DrawLoop`: what is shown and when | |
| `PartsProofs` | proofs about `PluginThread` and about the other parts in `Parts` | |

The models share no variables: each takes what it needs of the others as a
set of outcomes. `DrawLoop` and `KeyPath` let `current` go where `LcdList` could put
it, `LcdList` leaves the refreshes to `DrawLoop` and the key values to `KeyPath`.
`KeyPath` takes the end of a client as one step, which `NetClient` takes apart.
`DrawLoop` takes every call of the USB library as one step that returns; `UsbLib` shows
when that is so. `Daemon` takes the configuration's sections as functions, which
`Config` takes apart into items; `MacroClient` leaves what the user sees to
`MacroMenu`; to the programs of Attic the daemon is what its answers can be, a screen
in front that may change between any two of their steps.

### LcdList and ScreenStack

A node is its address. `allocated` is what malloc gave out; a freed address may be
given out again. `prev` leads to older nodes, `next` to newer ones, and the tail is
the daemon's own screen (the clock is a client node like any other).

Each section of `lcdlist_mutex` is one action: `LcdnodeAdd`, `LcdnodeRemove`
(`Unlink` joins the neighbours, `ShownAfter` is the screen that follows),
`NeverSelect`, `ReqPriority` (`GiveBack`). The keyboard thread takes several:
`KeyEvent` reads `current` without the mutex, `CycleLock` takes it, each
`CycleRound` is one round of the loop at `skip` with the mutex held, and
`MarkSelected` is what happens after the unlock, when `current` may have changed.
The refresh that `ReqPriority` sends after its unlock, and the two reads of
`current` after the cycle's unlock, are one step with what precedes them.

Use of a freed node is undefined behaviour. The model sets `fault` and stops: no
property speaks of what comes after. Out of memory is left out.

`ScreenStack` is the promise to users and clients: a new screen is shown at once;
closing the shown screen shows its newer neighbour, or the older one if it was the
newest; closing another changes nothing; the cycle key takes the nearest older
screen that may be selected. The mapping is in `LcdList`: `Stack` is the one sequence of
the open nodes that begins at the tail, ends at the head and is what the `prev` links
spell (`Stacks`); `RingIntact` says that there is one and that `next` spells it backwards.
While the keyboard thread cycles under the mutex, the screen shown is the one the cycle
began at. `ListSound` holds three facts besides types, links, count and flag: no node has
the flag when the keyboard thread is about to set one (`FlagsClear`), only open nodes are
marked as never selected (`HiddenOpen`), and a cycle under way has come down from the
shown screen over screens it may not stop at (`SkipsHidden`).

### DrawLoop

Threads are program counters: one for each screen (the client's thread, or a
plugin's), the draw thread, the keyboard thread. `refresh_pending++` and `--` are a
load and a store each. `CheckPending`, `EnterWait` and `WaitTimeout` are
`g15daemon_wait_refresh`: the counter is looked at once, a broadcast is received
only from `EnterWait` on, a timeout goes back to the wait unless `leaving`.
`CopyBegins` and `CopyEnds` bracket the copy into the buffer; a client's thread holds
`lcdlist_mutex` from the first until its refresh is sent, a plugin's does not.
`KbdRelock`, `KbdRetry` and the refresh after them hold `g15lib_mutex`; the short
holds of it inside one call are single steps that need it free.

Frames are numbered, and the panel remembers which frame of which screen it got
and whether the copy was under way. A client of the WBMP kind whose connection ends in the
middle of a frame has that frame shown with what came of it (`Wbmp`, `cut`): the loop that
receives it leaves on a 0 and looks no further (`g15_plugin_net.c:330`). Light values are abstracted to the screen whose
lights are set. The list's own changes are `LcdList`'s; here screens stay open and
`current` moves by priority requests, to any other screen where the list would give
it back. The keys that the keyboard thread reads, the remote key handler (which
suppresses `setLEDs`) and spurious wake-ups of the condition variable are left out.
The two seconds the draw thread sleeps before its loop need no step: it may simply
be late.

### KeyPath

One event of the keyboard thread is several steps, and clients act between any two.
`ReadKeys` finds changed keys and reads `current`; then either `TellScreen`
(`server_events` of that client), `TellOs` (`g15_process_keys` and the plugin's
`lastkeys`) and `TellRemote` (the remote handler, then `lastkeys` of
`g15daemon_send_event`), or `DropOnTail` (the daemon's own screen has no handler,
and its `break` skips `lastkeys` too), or one of the cycle key's: `CycleDown`,
`Click`, or the two calls of a long press, `ReplayPress` and `ReplayRelease`, each of which
looks at the key handler for itself. Each of the three `lastkeys` of the code is a variable of its own:
`seen`, `lastkeys`, `uinputLast`. Of the click only the passing of half a second is
kept: `clickOld` since `clicktime`, `holdOld` since the real press.

The end of a client's thread is one step. Every step of an event goes through the `lcd`
that it is for: once that is freed, the next one sets `fault` (`UseFreed`); so does the long
press on the daemon's screen, which reads through its NULL `info` (`ReplayOnTail`).
`behind` notes who took the keys over between the two calls of a replay: that client has
the press and gets no release before its next value, which `CycleKeyNotStuck` names. Backlight levels, the screen dump for M1 and M3,
screens of plugins and a daemon without the uinput plugin are left out. `Mapped` is
what `g15_process_keys` passes on; the L keys are in it only when they are configured.

### NetClient

One connection per client, seen from both ends. `prog` says where the client's
program is in the library: `Connect` and `Greeted` are `new_g15_screen`, `Ask`,
`Answer` and `Timeout` are `g15_send_cmd`, `ReadKey` is `g15_recv`, `Close` is
`g15_close_screen` or the end of the process, which may come at any of these places, an
unanswered greeting included. `thread` says where
`lcd_client_thread` is: the greeting, the buffer type, the frames, and then the four
steps of its end, which others may come between: `Compare`, `Reset`, `CloseFd`,
`Remove`. `Accept` is `g15_clientconnect`: the kernel gives the lowest free number,
which may be that of a node still in the list.

`link` is what the two ends can know of the connection. A client that closes with
bytes unread, or is written to after it closed, makes it a reset: the thread then sees
POLLERR, not an end of data. TCP has one out-of-band byte at a time in each
direction: `oobIn` and `oobOut`, of which a second overwrites the first. Requests stand
for their kinds: one that takes the keys, one that is answered from the list, one
that is answered from the screen; `oobOut` holds the request that its byte answers.
`RecvAgain` is the readable socket without data that a comment in `g15_recv`
reports: `errno` stays EAGAIN and hides a reset from then on.

Of a key only its way matters: `KeyToScreen` and `KeyToHandler` write to a number,
and whoever has that number gets it. Frames are in `DrawLoop`. Splitting
the stream into buffers of a fixed size, `accept` and `pthread_create` failing, sends
that block, and the end of the plugin are left out.

### UsbLib

Four threads call the library. `keyboard` is `keyboard_watch_thread`: `BeginRead` and
`Read` are `uf_read_keypresses`, `Gone` to `OpenFails` the loop around
`re_initLibG15`, which keeps `g15lib_mutex`. `draw` writes the screen or sets
lights (`BeginDraw`), under `g15lib_mutex`; `client` is a client's thread that sets
lights without it (`BeginCommand`); `main` blanks the screen after the joins
(`BeginBlank`) and closes the library (`Close`).

`Write`, `Control`, `Clear` and the transfer in `Read` take `libusb_mutex` and give it
back, one step each; a slow write is `WriteSlowly` and one `Chunk` per chunk, with the
mutex held between. After EPIPE the same call goes on in `Clear`, which takes the mutex
again. Each plugging of a keyboard is a session and a handle is the session it was
opened in, so it is stale when that session is over: transfers then fail with ENODEV.
`changes` is what `usb_find_devices` counts since its last call. During the search
`keyboard_device` is what `findAndOpenG15` stored last: NULL, unless the keyboard is the
first of `g15_devices`. A NULL handle that is used sets `fault` and stops the model.

Left out are the packets and the pixmap, what `usb_open` detaches and claims (after a
first opening both endpoints are known and nothing is claimed again, line 173;
whether transfers work then is the kernel's affair) and the calls that only other
programs than the daemon make.

### Daemon, PluginThread

`Daemon` has three processes over one pid file, one configuration file and one plugin
directory. A process is a daemon, or one that was started with an option that only
looks (`-k`, `-K`, `-v`, `-h`); all of them call `uf_return_running`, which is `Look`
(read the file) and `Judge` (compare with the processes that live, and perhaps
remove the file by its name). `Attach` to `WritePidfile` are the rest of the start.
`ConfOpen`, `LoadAll` and `LoadDies` read the configuration and load plugins, from the
directory in any order or by the names of the configuration; a library opens and
holds no plugin, a broken file does not open. `myinithandler` and `myeventhandler` are the clock's
thread and its keys, which keep settings in the configuration. `InstallHandlers`, `Pause`
and `Signal` are the end's beginning, `Teardown`, `ConfTruncate` and `ConfFill` its order: the
configuration is written from a list that may be freed, into a file that may not open.
`uf_conf_write` makes one `write()` of each line, and a crash in `fill` leaves any of the lines
(`Partly`): sections and keys stand in the order of the lists, which is that of the file the user
wrote, so which lines come first is open. `torn` says that the file was left so. `Crash` may come anywhere,
`EditPlugins` and `EditOrder` (of a list that names every file) are the user between two
lives. `together` notes that two processes were starting at once; nothing is promised then.

`loaded` counts the threads that a daemon started for each plugin. The list in the
configuration is written anew when its length is not the number of files in the directory
(`MustRebuild`; an empty directory changes nothing), so it may be wrong for a daemon and
right for its length. `edits` therefore counts the changes of directory or configuration
since a daemon saved an order that named every plugin that counts and no file that is gone
(`Current`), and `LoadsAll` promises nothing after two of them: a plugin that is removed
and another that is put in its place leave the length as it was. A file that was cut short but
kept its number and lost a line of the order is not built anew either (`Lacks`): the daemon
starts the plugins that it still names, which is what `LoadsAll` says of it. A lost line that
had switched a plugin off is an edit, and after a cut each setting of the clock is as it was
left, or its default. That a save alone is not
enough, and that the list of an empty directory stays, was found by an attempt to prove
`PluginsKept` of an earlier model.

`PluginThread` follows each plugin's thread: a screen's has a node before it runs and
takes it away when it quits; a keyboard's becomes `handler` once it is ready; `main`
destroys the list without joining any. `late` is a thread that looked at `leaving` just
before, whose node is then freed twice.

### Config and ConfigMap

An item is a place in `node`, with `next`, `prev` and `head` as in the code: the first
item's `head` is the last item. `LoadSection`, `Write`, `Read` (which writes its default) and
`RemoveKey` are the calls. A section's items are the one sequence that `next` spells from its
first item on (`Chain`). `io` says where the daemon is between two lives: the file is emptied
(`Truncate`), written section by section (`uf_conf_write`), the lists are freed
(`uf_conf_free`), and the next start reads line by line (`uf_conf_open`, `Opened`). The
first life reads a file that a user wrote. A line is a title or a key with its value; reading
cuts a value at a second separator (`Cut`), takes a line with a bracket for a title, and puts
what comes before any title in `Global`; of a comment only the key is written.

`ConfigMap` is what callers may rely on: the sections with their keys in order and the last
value of each, which a save and a load change only as the file's format does (`Reread`).
While a file of the daemon's own is read, the configuration counts for what it was
when it ended (`saved`), so the load as a whole is one step of the map. `Config` keeps the map
until it is `broken`: an item other than the last of its section was removed (the chain's end
then hangs behind a freed item), the only item was (it is freed twice), or a value with
a bracket was loaded. No program of the repository removes an item.

### MacroClient and MacroMenu

`L` takes the keyboard's keys: M keys, MR, G keys and the menu's; each handler is as many
steps as others can come between, with `config_mutex` where the code takes it. `X` stores the
strokes while a recording runs, and ends it at the table's limit. `main` saves, frees and
joins. `save_macros` is four steps for any caller: the file is emptied, the mutex taken,
the palettes walked with the global `mkey_state`, the file closed. Files hold a version and
macros; those of a user may name programs. `file` is what a restart would read, so that
`MacrosKept` relates what was recorded to what a later life finds. A file that cannot be opened is
not saved, which nobody learns (`SaveOpenFails`); `unsaved` holds its configuration until
a later save. Two threads may save at once, as nothing in the code excludes, and the properties
hold over that. `mixed` is set only at the moments that really lose something (`MixesUp`): an M key
while another thread walks the palettes; a recording completed, or the file read back, between a dump
and its `fclose`; the macros forgotten before a save that has begun has dumped them; and a save that
begins when nothing, or something else, is in memory for its path. `fault` is set where memory
is used that was freed, or written past the table of a recording (`Stroke`, which may
as well do no harm). Of the list of configurations `Lines` has each line by its
kind: a name, a comment, a line that names no file, or a blank one, which the code takes for the
directory of the configurations (`IsDirectory`). A directory cannot be saved to, and reading it
never ends, with `config_mutex` held (`RestoreHangs`).

`MacroMenu` is `mainLoop`, which redraws when its marks differ from what it noted last, against
the keys' thread, which moves the marks and draws messages on the same canvas. `missed`
stands for a key between drawing and noting, which the code does lose.

### Pictures, packets and fonts

`Canvas` gives each figure of the render library as the sequence of pixels its function
writes, in order, since with xor a pixel that is written twice is restored. `Shapes` draws
every figure of a small range, in each mode, on three backgrounds. `Panel` takes
frames through the library's packing, the daemon's packing of one byte per pixel,
and the device's bands of eight rows, by the code's index arithmetic, for a panel of any
size (`PanelColumns`, `PanelRows`, `PanelOffset`; 160, 43 and the header's 32 in the
code). `Fonts` converts a face,
loads the file glyph by glyph into a block that grows, and places texts. `ClockFace` draws every
minute of some hours with the code's line of the hands. `KeyPackets` has the tables of five
devices and `getPressedKeys` over any packet with a number of bits held; of a failed
read of a G13 it keeps that the old buffer is decoded.

### Programs of Attic

They are not built any more, but hold most of the repository's client code, and its hardest
threads. Each module has the program's threads as program counters, the daemon's answers as
choices, and the user's keys with a bound. `StatsScreens`: `cycle` is moved by the key thread
and read several times by the pass that draws, whose timer counts on beside the other screens'
submodes. `MpdRemote`: four threads, the daemon's
connection that may break, and the player; `server` is the player's state, the others are
what the program believes. `ComposerThreads`: FIFOs as names in a directory, threads that
wait in `fopen`, the list with its `last_thread`. A thread waits on the FIFO it opened, whatever its
name stands for later: `file` says which screen's FIFO has a name, so that one that was unlinked wakes
nobody, and `fopen` for writing makes a plain file (`Walk`). `ScriptTool`: the script, its daemons and the
FIFO's name, which may become a plain file. `MessageTool`, `DpmsMonitor`, `TailView`,
`CatDisplay`, `Spectrum`: the loop of the program and the state that it keeps from one round
to the next. In the first two the daemon is a thread that may be slow: `command`, `taken` and
`answer` are the byte on its way, the one read and not yet obeyed, and the one on its way back;
`g15_send_cmd` stops waiting after 100 ms (`TimeOut`), and `late` says that a question met the answer
of the one before. A line of `CatDisplay` holds the places of its letters in the stream, so that
`CatShows` can say which letters stand there and in what order. `Spectrum` checks each
setting of a file by itself (`Refused`) and takes the default for those it refuses. Before the
plugin first runs its settings are zeros (`Unset`), which its dialog may show, apply and save (`early`);
`limit`, an `unsigned int` that is used as an `int`, has its width (`HalfWord`, in the
unit of a bar's height).

## Runs

| Run | Bounds | Shows |
|---|---|---|
| `list` | 3 clients, symmetric | types, links, counts, user flag (`ListSound`), ring, refinement of `ScreenStack` |
| `list_dangling` | 3 clients | *violated*: the shown screen is open |
| `draw` | a client and the clock, 1 request each, 2 (un)pluggings | types, lock discipline, whole frames (`DrawSound`) |
| `draw_live` | 1 client, 3 requests, 2 (un)pluggings | passes finish, clients get on, both threads end |
| `draw_lost` | a client and the clock, 1 request each | *violated*: a frame ends the wait and is shown |
| `keys` | 2 clients, the cycle key and a G key; the list with 2 clients | exact edges, and a cycle key stuck only by a takeover in the middle of a replay (`KeysSound`), no replayed click, uinput and key handler catch up; a cycle ends if it can, and repeated presses visit every selectable screen (`CycleServes`) |
| `net` | 2 clients, 2 descriptors, 1 unread message | descriptors and key handler have live owners (`NetSound`), answers match, opening returns and clients that left are cleaned up (`ClientsServed`) |
| `usb` | 4 kinds of keyboard, 2 sessions, 1 failure to open, 2 calls of the draw thread, 2 chunks | mutexes paired, NULL only met without `g15lib_mutex` (`UsbSound`), calls return, an absence is noticed, a new keyboard opened |
| `macro` | 2 configurations and lines that name none, 1 G key, 2 palettes, 3 keys, 2 strokes | what is recorded is kept under its key, files are at rest when no key is handled |
| `parts` | see below | `Daemon` and nine parts that meet in no variable, for what they may never do |
| `programs` | see below | the plugins' threads, and four programs of Attic for what comes about in the end |
| `clients` | see below | the macro client's end, and three programs of Attic that ask the daemon who is in front, or look again, for what comes about in the end |

**`keys`, `parts`, `programs` and `clients`.** Many parts of the repository have no variable
in common with each other, so that composing them would multiply states and show nothing.
`MCKeyboard`, `Parts`, `MCParts`, `MCPrograms` and `MCClients` put them side by side instead:
the variable `part`, chosen at the start, says whose state the numbered variables hold, in the
order in which the module declares them; each disjunct of `Init` and `Next` instantiates one
module, and each property speaks of one part. A state of such a run is a state of one module.
Four of them extend one module, whose variables are its own: `MCKeyboard` `KeyPath`, `MCParts`
`Daemon`, `MCPrograms` `PluginThread`, and `MCClients` `MacroClient`, each of which stays at its
beginning while a behaviour is about another part. The fairness is, part by part, that of
the module's own `Spec`.

| In `parts` | Bounds | Shows |
|---|---|---|
| `Daemon` | 3 processes, 3 events, 3 files of which one is a library, 1 setting | one daemon; every enabled plugin loaded once and the user's order kept; the clock's settings come back |
| `Config` | 3 items, 2 sections, 3 keys of which one is a comment, 2 files of a user, values with separators, with brackets and without letters | refinement of `ConfigMap` |
| `MacroMenu` | 2 configurations, 4 keys | at rest the panel shows the menu as it is |
| `Shapes` | 9x7 pixels and two calls | figures are whole, xor undoes itself |
| `Fonts`, `Panel` | 3 characters, faces around one and two bytes wide, texts of 2; 16x11 pixels | glyphs survive the file and texts are placed; the device gets the picture |
| `KeyPackets` | 5 devices, 2 bits held | each held key is told, no other |
| `ClockFace` | 4 hours, with those whose hands share a pixel, every minute | no two times of the dial look alike |
| `Spectrum` | 2 changes, 2 heights, both players, a dialog before the first start or after it | bars stay out of the titles; settings survive the next start, but for the zeros of that dialog |
| `CatDisplay` | 6 characters, 2x2 display | lines are the stream's, in order |

| In `programs` | Bounds | Shows |
|---|---|---|
| `PluginThread` | 2 screens, a keyboard, a server | keys go to a ready plugin; no node outlives its thread |
| `MpdRemote` | 3 songs; four presses of L3 and of stop, two of any keys and acts of the daemon, or two and one | remote, panel and player come to agree, but that while the list is on only its cursor has to be right, and of one entered at the first song nothing (`entered`) |
| `ComposerThreads` | 3 screens, 2 names of which one is under `/var/run/` and is never unlinked | closing the first screen ends the program, if nobody waits on a FIFO that lost its name |
| `ScriptTool` | 2 daemons, 3 commands | a plain script is obeyed to its end |
| `TailView` | 3 edits, 1 key, 1 row | the file's end comes to be shown, near the offset asked for |

| In `clients` | Bounds | Shows |
|---|---|---|
| `MacroClient` | the default, one configuration and a blank line, 1 G key, 2 palettes, 2 keys, 2 strokes | a signal ends the program, but where a refused file, the blank line's directory or broken memory has it |
| `StatsScreens` | 3 machines, 2 keys | the panel settles on a screen that has something to show |
| `MessageTool` | 4 words, 2 options, 3 fonts, 2 turns of the user, 1 late answer | rows in order; a question comes back in front while answers belong to their questions |
| `DpmsMonitor` | 3 changes of power, 2 turns of the user, 1 late answer or command | the panel is dark and lit with the monitor, but where a turn was missed or a command lost |

**Bounds.** Three clients and the tail give a node at the head, one in the middle,
one at the end and the wrap, and a freed node whose address is used again while
another still remembers it. The cycle's walk compares only neighbours, so a longer
ring shows it nothing new; two clients suffice for liveness, where the interesting
cases are one selectable screen among hidden ones and the wrap. `MaxRequests` (per
screen) and `MaxPlugs` bound `DrawLoop`, and `Wbmp` says which clients may send half
an image: two threads that race on the counter against the draw thread need one request each, an absence of the keyboard needs an
unplugging and a plugging. `KeyPath` needs no bound. Keys other than the cycle key
differ only in being mapped or not, each is handled by its own bit, and the cycle key
here is the unmapped one; two clients give the one in front and the one that has
the keys, and a hand-over between them. `NetClient` has two clients, since a number
passes from one to the other, with different roles to keep the instance small: `a`
asks questions and sends pixels, `b` may ask for the text buffer (the early hang-up)
and may meet the spurious EAGAIN; both may take the keys. `MaxUnread` is
the number of messages unread from which on nobody is sent keys: one is enough to
arrive before the greeting or to be unread at the close. Two descriptors are as many
as are ever needed, so `accept` never waits. The four keyboards of `UsbLib` differ in all
that the code asks of a device: first of the table or not, shared, G13, G510, with a
panel or without. A second session is what a stale handle needs, a second chunk what a
failure in the middle needs, and two calls let the draw thread meet slow mode, which an
earlier one may have set.

In `MacroClient` three keys suffice to record, switch and come back, two strokes to fill the
table of one step and go past it; for its end two keys are one that is under way and one
before it, which may have selected the blank line. In `Daemon` three processes are a life that
leaves its files behind, one that finds them, and one that looks at both; three events are a
crash in the middle of a file, an edit and a key, or the two edits after which nothing is
promised; three files are an order of two plugins, which an edit can turn around or a lost line
cut short, and a library that the length of the list counts and the number loaded does not.
Three items make a chain with a first, an inner and a last.
The sizes of the pictures put a border of a byte and of a band of eight rows inside the
picture, with part of a byte and of a band left over, as 160x43 does.
`MaxKeys` in the programs are two keys or one: what these programs can get wrong are two
threads around one key, or a second key before the first was dealt with. `MpdRemote` needs more
of some: L3 enters the list, moves its cursor and plays, so `Weight` counts it and stop once
and every other key twice, up to 4. Three or more of L3 with a stop behind them
reach the picture that the list keeps. `MaxDelays` is one answer that comes too late, or one
command that is lost, in each life of `MessageTool` and `DpmsMonitor`: the first already puts every
later answer one behind. `MaxTurns` are two of the user's turns, one that hides the screen and
one that brings it back behind the program's look. Two heights
of titles, bars below, at and above the scale meet the unsigned limit of `Spectrum`
on both sides of zero.

**Fairness.** `LcdList` assumes weak fairness of the cycle once it has begun: no
step of it waits for anyone but the holder of the mutex. `DrawLoop` assumes weak
fairness of each thread: they are ordinary threads that a fair scheduler runs. A
thread that waits for a mutex may be overtaken, but requests are bounded, so in
the end the mutex stays free until the last waiter has it. `KeyPath` assumes weak
fairness of the keyboard thread, which polls for ever and, while it dispatches, waits
for nobody in the model (a client that does not read its socket is not modelled).
`NetClient` assumes it of the listening thread, of each client's thread and of the
library's wait for the greeting: all three poll until something is there.
`UsbLib` assumes it of the keyboard thread, which polls, and of each call once begun:
transfers have timeouts, and a call waits only for `libusb_mutex`, which is
held over several steps only by a slow write. `MacroClient` assumes only that some thread
goes on while one can. The programs of Attic are loops with a sleep or a wait with a
timeout, weakly fair each, and so is the daemon's thread that answers `MessageTool` and
`DpmsMonitor`, which polls; that it answers in time is not assumed. In `MpdRemote` the three actions that take a contended
`daemon_mutex` are strongly fair: pthread mutexes give no order, but each of the
competing threads sleeps between two holds.

Requests, unplugging, signals, key presses, commands, edits and closes are never assumed
to happen. `OsCatchesUp` and `HandlerIsTold` state their premises themselves: from some
point on the cycle key is left alone, a client is in front, the handler stays, and the
user goes on typing. So does `CycleVisitsAll`: the user keeps pressing and no client
acts.

**Deadlock** is not checked: with no request left and the keyboard unplugged the
threads wait, and after the end they are gone; `LcdList` stops after a fault; in
`NetClient` each client connects once, and `UsbLib`, `MacroClient` and the processes of `Daemon`
end. Everyone waiting on everyone is looked for by the liveness properties instead
(`ClientNotBlocked`, `ShutdownCompletes`, `CallsReturn`, `EndComes`, `ComposerEnds`).

## Findings

Two runs refute what the repository says of itself:

* `list_dangling`: open A, then B; A takes priority and remembers B; B
  leaves; A gives the panel back, to B's freed node (`main.c:158`).
* `draw_lost`: the draw thread finds the counter at 0; a client delivers a frame,
  broadcasts and counts; the draw thread begins to wait and never looks at
  the counter again (`utility_funcs.c:87-98`). The next frame repairs it.

Six more disagreements are in the models without a run of their own, excepted by name where a
property meets them:

* `DrawLoop`: both screens have been shown once; a switch between them sets no
  `state_changed`, so the LEDs stay as the first wanted them (`main.c:261`, against
  `logitoolsdl.3:82`).
* `KeyPath`: the cycle key is held for half a second, another key goes down, and the
  release cycles the screens: each value with the cycle key starts `clicktime` again
  (`main.c:113`, against `main.c:107`).
* `NetClient`: B has the keys and leaves; its thread finds its number in
  `remote_keyhandler_sock`; A takes the keys; B's thread stores 0: A, still
  connected, gets none (`g15_plugin_net.c:361-362`, against `logitoolsd.h:51-52`).
* `MacroClient`: fgets keeps the newline, so a blank line of the list is "\n" and passes
  `strlen(buf) == 0`; stripped, it names the directory of the configurations, whose `fopen` for
  reading succeeds, and it becomes a configuration. Once it is selected, `identify_configver`
  reads a directory until `feof`, which never comes, with `config_mutex` held, and the program
  does not end any more (`logitools-macro.c:924`, `702-728`, against the comment at `923`:
  "Ignore comments and blanklines"; `hung` in `EndComes`).
* `ComposerThreads`: a thread looks for readers of its FIFO before it connects to g15daemon and
  opens it, so two screens can come to share one; the first of them that is closed unlinks it,
  and the other waits on a FIFO without a name. When the initial screen is closed, main's
  `fopen` for writing makes a plain file of that name, nobody wakes, and `pthread_join` does not
  return (`g15composer.c:287`, against `Attic/g15composer/README:132`: "Closing the initial
  screen will close all other screens"; `main.waits` in `ComposerEnds` is about the others).
* `MessageTool`: after one answer that came later than 100 ms every answer is the one to the
  question before. g15message with `-f` switches screens on an answer that was right before its last
  switch, and takes its question out of the front and back again for ever
  (`logitoolsdl_net.c:217`, against its usage, `g15message.c:196`: "force stay in foreground
  until timeout/confirmation"; `late` in `KeptInFront`).

### Weaknesses that premises exclude

These contradict no line of the repository; the properties except them by
name, so a reader of a property should know them.

*Daemon.* An answer after the library's timeout is taken for the next
request's (`late` in `AnswersMatch`). A client that takes the keys over in the middle of a replay
has the cycle key's press and no release (`behind`). A thread whose `errno` is EAGAIN never ends
when its client is reset (`again` in `GoneClientCleaned`). A chunk of a slow
write that fails keeps `libusb_mutex` for ever (`Leaked`). A replugged
keyboard that could not be opened at once is not tried again until something else
changes on the bus (`failures` in `Reopened`). A G13 that went away may look as if keys
were pressed, from a buffer that nothing was read into (`liblogitech.c:1083`; `UnplugNoticed`,
`ReadFails` of `KeyPackets`). Lights set for a client while the keyboard is away use NULL
(`fault`). Two processes that look at the pid file together may both serve (`together`), and
the daemon removes another name than its pid file's at the end, so the file stays
(`utility_funcs.c:43`, `main.c:578`). A signal just before `pause` is noticed with the next one
(`main.c:543`). A file that does not open is closed through NULL (`LoadDies`).
A crash between two writes of the configuration can leave an order without its last line, and the
next daemon starts fewer plugins, or one that was switched off (`torn`). A thread that
looked at `leaving` just before frees its node a second time (`late` in `PluginThread`).

*Macro client.* A configuration whose file cannot be opened for saving loses what was recorded with
the next switch, and nobody learns it (`unsaved`). A stroke past the table of a recording is
written behind it (`fault`, or no harm). At five moments a save of one thread meets a step of
another that it cannot bear (`mixed`). Lines that run programs, and the version, are lost when a file is saved
(dumped files say none); version 1 loads nothing. Two G keys at once are no key of the table and write before it (`PressTwo`).
A program that cannot be run leaves a child that empties the file (`RunFails`). Data of an
old version is converted and renamed before it is saved, so an end in between loses it.

*Render library and fonts.* A wbmp whose rows do not end with a byte is read
without its padding. A sprite is drawn without its last row and column.

*Programs of Attic.* g15message: "Yes" returns 1 where the help says 0, a first word that is
too long is repeated in every row, two keys at once are none. g15dpms-monitor: `-e` and
`-d` are swapped against the help; it switches screens without looking who is in front
at that moment; a question of either that times out reads as -48, which is not 0 and not 1: in front
for the one, not for the other. g15tailf: a file with fewer lines than the display has rows cuts lines
that were never read (`crashed`), the offset is shown one key late, a file rewritten to the same
size is not noticed, a last line without its end loses a letter. g15cat: an over-long last line
without its end never ends the loop, a line of exactly the width swallows the next one, a
character after a backspace is lost, and a backspace on an empty row writes in front of its
memory (`crashed`). g15composer: `SC` is still in the buffer when main joins the
thread, deleting the second item drops the first, `last_thread` stays behind a freed item, the
walk at the end takes no mutex. g15scriptool: a second `g15new` removes the first's
FIFO, SIGTERM is noticed with the next line only, the answer to a key swallows the command behind it,
a command before `g15new` leaves a plain file. g15mpd: after a reconnection the key thread polls
the old descriptor, the list that is entered while the first song plays may not be drawn, and the
picture of a track that it leaves on the panel is not kept up while the list is on; a frame equal to the last is not sent to a new daemon, a song of
id 0 is never taken. Spectrum: a start without a display keeps the mutex; two
titles' rows and a progress bar may leave no room for bars, and the limit wraps; the dialog opened
before the plugin's first start saves zeros, which the next start refuses or takes up as they are,
and a number of bars of 0 is divided by (`early`, `divide_error`).
g15stats: the last mode of the fan screen lies behind its array.

## Proofs

TLAPS proves, for every set of clients and every bound:

* `ListTypes`, `ListLinks`, `ListCount`, `ListUserFlag` in `LcdListProofs`, from
  `NodesAssumption` (finitely many clients; the tail and NULL are none of them).
  The inductive invariant joins the four with one fact more: no node carries the
  user's flag while the keyboard thread is between its unlock and the setting of the
  flag. Without it two flags cannot be excluded. `Unlink` is split on whether the
  node is the head; the count needs the cardinality laws of finite sets.
* `DrawTypes`, `DrawLocks`, `DrawWhole` in `DrawLoopProofs`, from
  `ScreensAssumption`. The inductive invariant adds to the three that a buffer is
  torn only while its thread is at the copy, or by an image that its client did not send to the
  end (`cut`): at the copy a client's thread holds the mutex the draw thread needs, so what is
  sent is not torn.
* `KeyTypes`, `KeyEdges`, `KeyCycleHidden`, `KeyClick` in `KeyPathProofs`, from
  `KeysAssumption`. The inductive invariant adds three facts: past the dispatch an
  event carries no cycle key (so neither uinput nor the handler can get it), a screen that
  is the key handler when the release is due and has the press took the keys over in
  between (`TakenOver`), and `clicktime` is never older than the press (so a replay answers a
  long press).
* `NetTypes`, `NetDescriptors`, `NetHandler`, `NetAnswers` in `NetClientProofs`,
  from `NetAssumption` (descriptors are positive numbers). The inductive invariant
  adds `Accepted` (only an accepted connection has a thread or bytes for the client)
  and `OneQuestion` (at most one of question, answer on its way for the request under
  way, unless one timed out); the handler's thread is the owner of its number because
  no two threads own one descriptor.
* `UsbTypes`, `UsbMutexes`, `UsbNull` in `UsbLibProofs`, from `UsbAssumption`. The
  inductive invariant adds where each thread may be (`Placed`), and that the handle is
  NULL only while the keyboard thread holds `g15lib_mutex` in its search, or when the
  daemon leaves (`HandleOpen`): whoever has that mutex instead finds a handle.
* `PanelStays` in `DrawLoopProofs`, for whatever of the three the behaviour is about:
  * `Panel`, a panel of any number of rows of whole bytes (`PanelAssumption`):
    a number is made of what it has above and below a unit in one way only (`OneWay`), so
    pixels are packed apart from each other and placed apart from each other.
  * `Fonts`, for any faces, texts, width of the panel and size of the first block, from
    `FontAssumption` (codes, widths and gaps are bytes, a glyph's pixels lie in its cell). The
    inductive invariant (`FontInv`): the file is what saving the face gives, a font that is
    half loaded holds the first glyphs by code (`Loading`) in a block that they fit, a loaded
    one all of them (`Loaded`), and the last text lies where it is promised to (`Placed`). A glyph
    comes back from its bits since the padded width tells rows from columns
    (`GlyphSurvives`); each code stands in
    the file at the number of codes below it, which misses none (`SortedIs`); the pen's
    sums are bounded by those the placing counts with (`PenBounds`), by the first place where
    they would not be, so that a text stays left of its edge (`TextFits`).
  * `ClockFace`, for any hours of the day (`DialAssumption`): the invariant (`DialInv`) is that
    the hands drawn are those of the time. The ends of the minute hand are sixty pixels
    (`MinutesApart`); of the hour hand two pairs of ends coincide, at neighbouring
    positions of one hour or of two (`HoursApart`), and the minute hand tells those apart.
* `ConfigImplements` in `KeyPathProofs`: the linked lists and the file implement `ConfigMap`,
  for any sections, keys, values, ways to cut them and files of a user (`ConfAssumption`), and any
  calls in any order. The inductive invariant (`ConfInv`, as long as nothing is `broken`):
  * the lists are laid out (`Laid`): each section has a sequence of items, none in two sections,
    no key twice, which `next` spells forwards and `prev` backwards, and whose first item's
    `head` is the last. Without the last fact an append would drop items; without the
    disjointness a write to one section could show in another.
  * a file that is being written is that of the sections done so far (`FileOf`): `st` says
    where each begins, so that a line's meaning is known from its place.
  * a file that is being read back has been read up to a line of some section (`HalfRead`): the
    sections before it have all their items, as the file keeps them, and this one its first ones.

  That `Chain` is this sequence and no other is shown by the first place where two would differ;
  then each call is one on sequences (`Appended`, `Updated`, the last removed), which is what
  `ConfigMap` does. A line of the daemon's own file stutters, as does the writing of it;
  `Opened` after the last one is `SaveAndLoad`. In a user's file each line is a `NewSection`, a `Put`, or both.
* `ListInvariant`, `DrawInvariant`, `KeyInvariant`, `NetInvariant`, `UsbInvariant`
  join the facts of each module into the invariant its run checks: `ListSound`,
  `DrawSound`, `KeysSound`, `NetSound`, `UsbSound`.
* `ListRing` and `ListRefines` in `LcdListProofs`: the links are one ring through every
  open node, and the list implements `ScreenStack`. The invariant of the ring says that
  some sequence of the open nodes, each once, begins at the tail, ends at the head and is
  what `prev` spells (`Stacks`); each section gives the sequence that follows. That there
  is no second one is shown by the first place where two would differ (`LeastNat`, from the
  library's facts on well-founded relations, in place of an induction). A step of the cycle
  under the mutex stutters; the one that ends it takes the nearest older
  selectable screen because of `SkipsHidden`.
* `MacroInvariant`, `SavedOnDisk`, `MacrosStay` in `MacroClientProofs`, from
  `SizesAssumption`. The inductive invariant: where the three threads can be together
  (`Control`), who has `config_mutex` (`MutexOwned`), that a save gives the palette
  back (`PaletteBack`) and goes to the configuration it began with (`PathCurrent`); and, as
  long as nothing is `mixed`, that what a save has walked is in its buffer (`Walked`), that saves
  about to end on one file bring the same to it, and that what no one saves is on the disk, was
  emptied by an end or could not be saved (`Saved`, with `unsaved`). Of two threads that save at
  once the second finds the same macros, since each of the steps that would change them in between
  makes it `mixed` (`MixesUp`).
* `OneDaemonServes` in `DaemonProofs`, for any number of processes. The inductive
  invariant: one process at a time is between its first look
  and the file with its pid (`OneStarts`), the file is the serving daemon's from before
  it can be read (`FileServes`), and while one serves, whoever looked has found it and
  nobody gets past that (`OthersFind`). All three end with `together`.
* `ClockComesBack` there: while a daemon lives, the clock shows what its memory holds
  (`ClockShows`); until one of its keys is pressed, that is what the last daemon left
  (`MemoryLeft`), as it is in the file whenever no daemon fills it (`FileLeft`), unless the
  file was `emptied`; one that was cut short (`torn`) has each setting as it was left, or not at all.
* `PluginsStay` there, from `FilesAssumption` (finitely many files): an order that is not the
  one of an older version names each file once; with no edit it names all that counts and is
  there; after one edit that leaves the lengths equal, at least what can be loaded (`Stands`); a
  file that a crash cut short is empty of plugins, has another length and is built anew, or is one
  that `Lacks` a line of an order that stood.
  That a list of distinct files as long as the directory misses none of it is a matter of
  cardinalities. The user's order stays in the file or in the memory of the daemon that
  fills it (`WishStands`).
* `PacketsTell` in `PartsProofs`: the tables of each device are injective, so keys and bits
  of a packet correspond, for any packet and after any other.
* `SpectrumStays` there, for all heights that the word of the code holds: settings in use and
  in the file stay ones that `Accepted` lets pass, with the limit that belongs to them (`Sane`),
  or the zeros from before the first start (`Zero`), whatever the dialog holds; bars and peaks are bounded from that, with the unsigned limit.
* `CatStays` there, for a display of any size (`CatAssumption`: rows of at least one
  character). The inductive invariant: lines hold letters in order and none of them longer
  than its memory (`Good`); with nothing rubbed out a row comes from one line of the stream
  (`OneLine`, `TailOpen`), and of a shown letter all that followed is shown too (`AllThere`). A
  backspace on an empty row ends it (`crashed`).
* `MenuStays` there, for any number of configurations: what `mainLoop` noted
  is what it drew, unless a key came in between (`missed`) or a recording runs.
* `ThreadsInvariant` there, for any plugins of each type: the handler's
  thread is in its loop and ready, a thread that is at its node when the daemon already
  leaves looked before (`LateKnown`), and until then the nodes are exactly the living threads'.

The theorems about parts are about `PartSpec`, the behaviours in which any of the parts was
chosen: each shows that the part's invariant holds whenever the part is that one.

Only model-checked:

* All liveness, with the safety that `MessageShown` and `TailCatchesUp` join to it.
* `FiguresShown`. The figures' pixels are recursive definitions (a line's or a circle's steps),
  and what a sequence of writes leaves of a canvas is a fold over it: what these compute
  for every input is an induction over data, and over one that a mode decides pixel by
  pixel. The model checker draws every figure of a small range instead.
* The refuted claims, for which TLC gives the behaviour.

## Not modelled, and the plan

* Of the daemon: option parsing, dropping privileges, what `-k` and `-s` do with the pid
  they look up; backlight levels; the screen dump for M1 and M3; the values that
  answers carry; partial sends and the framing of a stream into buffers of a fixed
  size; `accept` and `pthread_create` failing.
* Steps that are one here and several in the code: what the clock's thread reads and writes of the
  configuration when it starts (`myinithandler`; nobody else uses these keys meanwhile), and what record_complete does under
  `config_mutex` (`Complete` of `MacroClient`: a stroke between its copy of the table and its
  second look at the index is not told from one behind both). A plugin that does not load for whatever reason is one outcome.
* Of the macro client: the conversion of an old version's data at its start, multimedia keys.
* Losses of power: a crash keeps what was written, and a line is written whole.
* Of the USB library: detaching and claiming interfaces, and the colour calls,
  which are the kernel's and the device's affair.
* Of the render library: the 8x8 tables (data), FreeType's calls, the splash file.
* The plugin template (a skeleton), the example client (linear), `g15lcd` (replaced,
  and mostly font tables), the C++ wrappers and test programs of Attic, the patch for
  lcdproc, g15term (as g15tailf, over a program's output).

What could be proved next: that a sequence of pixels that is written twice with xor restores any
canvas, by the first write after which it would not; and the parts of the figures that are not
recursive (boxes, bars, overlays) as the sets of pixels of their definitions.
