----------------------------- MODULE EscrowBank -----------------------------
(***************************************************************************)
(* What the engine's contracts promise their two parties, without goods,   *)
(* messages or the loops of a tick (docs/services.md, Trade Negotiation):  *)
(* a deal takes its price out of the buyer's funds at once, is closed      *)
(* exactly once, not before its due time and before the clock passes it,   *)
(* and closing it pays the whole price to the seller or back to the buyer. *)
(***************************************************************************)
EXTENDS Integers, Sequences

CONSTANTS
  Party,          \* the stations
  InitialFunds    \* party -> funds at start-up

VARIABLES
  clock,          \* the engine's tick
  funds,          \* party -> credits free to spend
  deals           \* sequence of deals, only ever extended

DealType ==
  [buyer : Party, seller : Party, price : Nat, due : Nat,
   status : {"InTransit", "Settled", "Failed"}]

Open(i) == deals[i].status = "InTransit"

Init ==
  /\ clock = 0
  /\ funds = InitialFunds
  /\ deals = <<>>

\* The deal struck is the one the step appends.
Strike ==
  /\ Len(deals') = Len(deals) + 1
  /\ LET d == deals'[Len(deals) + 1]
     IN  /\ deals' = Append(deals, d)
         /\ d \in DealType
         /\ d.buyer # d.seller
         /\ d.status = "InTransit"
         /\ d.due > clock
         /\ funds[d.buyer] >= d.price
         /\ funds' = [funds EXCEPT ![d.buyer] = @ - d.price]
  /\ clock' = clock

Pay(i, party, outcome) ==
  /\ Open(i)
  /\ deals[i].due <= clock
  /\ funds' = [funds EXCEPT ![party] = @ + deals[i].price]
  /\ deals' = [deals EXCEPT ![i].status = outcome]
  /\ clock' = clock

PaySeller(i) == Pay(i, deals[i].seller, "Settled")
RefundBuyer(i) == Pay(i, deals[i].buyer, "Failed")

\* Time does not pass an open deal by.
Advance ==
  /\ \A i \in DOMAIN deals : Open(i) => deals[i].due > clock
  /\ clock' = clock + 1
  /\ UNCHANGED <<funds, deals>>

Next ==
  \/ Strike
  \/ \E i \in DOMAIN deals : PaySeller(i) \/ RefundBuyer(i)
  \/ Advance

Spec == Init /\ [][Next]_<<clock, funds, deals>>

=============================================================================
