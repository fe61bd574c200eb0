----------------------------- MODULE CommandLog -----------------------------
(***************************************************************************)
(* What the engine promises of the commands it accepts                     *)
(* (docs/services.md: "Queues a validated proposal for the next engine     *)
(* tick"): each is served, once, in the order of acceptance.               *)
(***************************************************************************)
EXTENDS Integers, Sequences

CONSTANT Entry     \* what is queued

VARIABLES
  accepted,        \* everything accepted so far, oldest first
  served           \* everything served so far, oldest first

Init == accepted = <<>> /\ served = <<>>

Accept ==
  /\ accepted' \in Seq(Entry)
  /\ Len(accepted') = Len(accepted) + 1
  /\ SubSeq(accepted', 1, Len(accepted)) = accepted
  /\ served' = served

Serve ==
  /\ Len(served) < Len(accepted)
  /\ served' = Append(served, accepted[Len(served) + 1])
  /\ accepted' = accepted

Next == Accept \/ Serve

Spec == Init /\ [][Next]_<<accepted, served>>

\* Nothing accepted waits for ever.
FairSpec == Spec /\ WF_<<accepted, served>>(Serve)

=============================================================================
