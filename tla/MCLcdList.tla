------------------------------ MODULE MCLcdList ------------------------------
(***************************************************************************)
(* What TLC checks of LcdList beside its invariants and its refinement.    *)
(***************************************************************************)
EXTENDS LcdList

\* A cycle that has a screen to stop on ends, and with it the mutex is released.
CycleEnds ==
  (kbd.pc = "skip" /\ \E n \in allocated : Selectable(n)) ~> (kbd.pc # "skip" \/ fault)

\* If the user keeps pressing the key while no client does anything, every screen
\* that may be selected comes up again and again.
CycleVisitsAll ==
  (<>[][KeyboardStep]_vars /\ []<>(kbd.pc = "idle") /\ []<>(kbd.pc = "selected")) =>
    \A n \in Clients :
      <>[](n \in allocated /\ n \notin neverSelect) =>
        []<>(kbd.pc = "selected" /\ current = n)

\* The cycle key's walk (linked_lists.c:111-148) comes to an end, and gets everywhere.
CycleServes == CycleEnds /\ CycleVisitsAll

\* A screen that is current belongs to a client that is still connected: "once the
\* client disconnects by closing the socket, the LCD buffer is removed and will no
\* longer be displayed" (g15_plugin_net.c:280).
ClosedScreenNotShown == current \in allocated

NodeSymmetry == Permutations(Clients)

==============================================================================
