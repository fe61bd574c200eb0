------------------------------ MODULE TickFeed ------------------------------
(***************************************************************************)
(* What the engine promises a viewer: every tick is published once, and    *)
(* what a viewer shows moves on from one publication to a later one,       *)
(* skipping some when it has to, whatever happens to the engine and to the *)
(* connection in between.  Publications are numbered over all runs of the  *)
(* engine; 0 is the empty screen.                                          *)
(***************************************************************************)
EXTENDS Naturals

VARIABLES
  published,   \* the number of the last publication
  shown        \* the publication a viewer shows

Init == published = 0 /\ shown = 0

Publish == published' = published + 1 /\ UNCHANGED shown

Show ==
  /\ \E n \in 1..published : n > shown /\ shown' = n
  /\ UNCHANGED published

Next == Publish \/ Show

Spec == Init /\ [][Next]_<<published, shown>>

=============================================================================
