---------------------------- MODULE PluginThread ----------------------------
(* The threads of the plugins, logitools_plugins.c: a screen's plugin has a    *)
(* node in the list before its thread runs, and takes it away when it quits by *)
(* itself; the keyboard's plugin becomes the handler of all keys once it is    *)
(* ready. main joins none of them: they look at leaving every now and then.    *)
EXTENDS FiniteSets

CONSTANTS Screens,     \* plugins of type G15_PLUGIN_LCD_CLIENT
          Keyboards,   \* of type G15_PLUGIN_CORE_OS_KB
          Servers      \* of type G15_PLUGIN_LCD_SERVER

VARIABLES pc,            \* per plugin's thread
          nodes,         \* screens in the list
          handler,       \* plugins that may be keyboard_handler: none, or one
          ready,         \* plugins whose plugin_init has ended well, not yet closed
          leaving, destroyed,
          late, fault    \* a thread looked at leaving before it was set; a node freed twice

vars == <<pc, nodes, handler, ready, leaving, destroyed, late, fault>>
Plugins == Screens \cup Keyboards \cup Servers

Init == /\ pc = [p \in Plugins |-> "file"]
        /\ nodes = {} /\ handler = {} /\ ready = {}
        /\ leaving = FALSE /\ destroyed = FALSE /\ late = FALSE /\ fault = FALSE

Goto(p, l) == pc' = [pc EXCEPT ![p] = l]

\* g15_plugin_load: the node, then the thread.
g15_plugin_load(p) ==
  /\ pc[p] = "file" /\ ~leaving
  /\ nodes' = IF p \in Screens THEN nodes \cup {p} ELSE nodes
  /\ Goto(p, "init")
  /\ UNCHANGED <<handler, ready, leaving, destroyed, late, fault>>

\* A screen that fails to start is closed like one that quits; the others end at once.
plugin_init(p, ok) ==
  /\ pc[p] = "init"
  /\ ready' = IF ok \/ p \in Screens THEN ready \cup {p} ELSE ready
  /\ Goto(p, IF ok THEN IF p \in Keyboards THEN "handler" ELSE "loop"
             ELSE IF p \in Screens THEN "close" ELSE "gone")
  /\ UNCHANGED <<nodes, handler, leaving, destroyed, late, fault>>

SetHandler(p) ==
  /\ pc[p] = "handler"
  /\ handler' = {p}
  /\ Goto(p, "loop")
  /\ UNCHANGED <<nodes, ready, leaving, destroyed, late, fault>>

\* plugin_run: a keyboard has none and waits for leaving, the others may quit.
Loop(p) ==
  /\ pc[p] = "loop"
  /\ leaving \/ p \notin Keyboards
  /\ Goto(p, "close")
  /\ UNCHANGED <<nodes, handler, ready, leaving, destroyed, late, fault>>

\* plugin_exit.
plugin_close(p) ==
  /\ pc[p] = "close"
  /\ ready' = ready \ {p}
  /\ Goto(p, IF p \in Screens THEN "look" ELSE "gone")
  /\ UNCHANGED <<nodes, handler, leaving, destroyed, late, fault>>

\* Mutant: the node stays, as with the plugins that have none.
QuitLeaves(p) == Goto(p, "gone")
Quit(p) == Goto(p, IF leaving THEN "gone" ELSE "remove")

LookAtLeaving(p) ==
  /\ pc[p] = "look"
  /\ Quit(p)
  /\ UNCHANGED <<nodes, handler, ready, leaving, destroyed, late, fault>>

RemoveNode(p) ==
  /\ pc[p] = "remove"
  /\ fault' = (fault \/ p \notin nodes)
  /\ nodes' = nodes \ {p}
  /\ Goto(p, "gone")
  /\ UNCHANGED <<handler, ready, leaving, destroyed, late>>

Leave ==
  /\ ~leaving
  /\ leaving' = TRUE
  /\ late' = \E p \in Plugins : pc[p] = "remove"
  /\ UNCHANGED <<pc, nodes, handler, ready, destroyed, fault>>

\* ll_lcdlist_destroy, when the display's and the keyboard's threads have ended.
ll_lcdlist_destroy ==
  /\ leaving /\ ~destroyed
  /\ destroyed' = TRUE
  /\ nodes' = {}
  /\ UNCHANGED <<pc, handler, ready, leaving, late, fault>>

Next == \/ \E p \in Plugins : \/ g15_plugin_load(p) \/ \E ok \in BOOLEAN : plugin_init(p, ok)
                              \/ SetHandler(p) \/ Loop(p) \/ plugin_close(p) \/ LookAtLeaving(p)
                              \/ RemoveNode(p)
        \/ Leave \/ ll_lcdlist_destroy

Spec == Init /\ [][Next]_vars

-----------------------------------------------------------------------------
(* Until the daemon leaves, keys go only to a keyboard plugin that is ready,   *)
(* and the list holds the screens of the threads that have not ended: none of  *)
(* a plugin that quit, and none is freed twice, but by a thread that looked at *)
(* leaving just before.                                                        *)
ThreadsServe ==
  /\ ~leaving => handler \subseteq ready
  /\ ~leaving => nodes = {p \in Screens : pc[p] \notin {"file", "gone"}}
  /\ fault => late
=============================================================================
