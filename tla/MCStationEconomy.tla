-------------------------- MODULE MCStationEconomy --------------------------
(***************************************************************************)
(* Small instances of StationEconomy for TLC.  Quantities are scaled down: *)
(* a unit of stock, of price and of energy stands for as many of the       *)
(* code's units as make the interesting comparisons come out both ways.    *)
(***************************************************************************)
EXTENDS EconomyAccounts

Empty == [m \in Material |-> 0]

\* One recipe like SmeltIron (material.rs): one ore a tick for two ticks, at
\* two units of energy a tick, gives one iron; a tier-1 station can run it.
\* It balances where an iron weighs as much as two ores.
Smelting ==
  [r \in Reaction |->
    [inputs |-> [Empty EXCEPT !["ore"] = 1],
     outputs |-> [Empty EXCEPT !["iron"] = 1],
     energy |-> 2, duration |-> 2, tier |-> 1]]

\* Station 1 owns the ore, station 2 the iron.  Station 2 has more silicates than
\* it needs and no water, which nobody trades; station 1 has enough water.
TwoStocks ==
  [s \in 1..2 |-> IF s = 1 THEN [Empty EXCEPT !["ore"] = 2, !["water"] = 5]
                           ELSE [Empty EXCEPT !["iron"] = 2, !["silicates"] = 100]]
OreOnly == [s \in 1..2 |-> IF s = 1 THEN [Empty EXCEPT !["ore"] = 3] ELSE Empty]

SomeCredits == [s \in 1..2 |-> 3]
NoArea == [s \in 1..2 |-> 0]
SmallArea == [s \in 1..2 |-> IF s = 1 THEN 2 ELSE 0]
TierOne == [s \in 1..2 |-> 1]
SoughtWater == [t \in {1} |-> <<"water">>]
SoughtIron == [t \in {1} |-> <<"iron">>]

Say(kinds, from, to, replies, materials, qtys, prices, ttls) ==
  [kind : kinds, from : from, to : to, reply : replies,
   material : materials, qty : qtys, price : prices, ttl : ttls]

\* OFFERs and COUNTERs of either station, acceptances of any earlier message,
\* a notice among them, for more than was offered or a quantity of 0 that the
\* engine must refuse, a wrongly addressed ACCEPT, a sender nobody knows.  Their
\* lives are 0 to 3 ticks.
TradeRequest ==
  Say({"Offer"}, {1}, {2}, {NoId}, {"ore"}, {2}, {1}, {2})
    \cup Say({"Counter"}, {2}, {1}, {1}, {"iron"}, {1}, {2}, {3})
    \cup Say({"Accept"}, {2}, {1}, {1, 2}, {"ore"}, {0, 1, 3}, {1}, {0})
    \cup Say({"Accept"}, {2}, {NoId}, {1}, {"ore"}, {1}, {1}, {1})
    \cup Say({"Accept"}, {1}, {2}, {2}, {"iron"}, {1}, {1}, {1})
    \cup Say({"Reject"}, {NoId, 2}, {1}, {1}, {"ore"}, {1}, {1}, {1})

OreRequest ==
  Say({"Offer"}, {1}, {2}, {NoId}, {"ore"}, {2}, {1}, {2})
    \cup Say({"Accept"}, {2}, {1}, {1}, {"ore"}, {1}, {1}, {2})

Areas == {-1, 4}

=============================================================================
