--------------------------- MODULE MCEngineService ---------------------------
(***************************************************************************)
(* Constants of EngineService for TLC.                                     *)
(***************************************************************************)
EXTENDS EngineService

Nobody == {}
Nothing == {}
One == {1}
Two == {2}
Both == {1, 2}
Tool == {9}

Say(station, from, kind, to, reply) ==
  [station |-> station, from |-> from, kind |-> kind, to |-> to, reply |-> reply]

\* A tool that answers for station 1 under the name of station 2, sends for a
\* station there is not, and something unknown.
ToolCalls ==
  { Say(1, 2, "Accept", 1, 1), Say(3, 3, "Want", NoId, NoId), Say(1, 1, "Unknown", NoId, NoId) }

\* Station 2 is short of something.
WantOfTwo == { <<2, "Want">> }

\* A stream that offers, for either station to the other, and accepts for station
\* 1 what it may not have received.
MarketStream ==
  { Say(2, 2, "Offer", 1, NoId), Say(1, 1, "Offer", 2, NoId), Say(1, 1, "Accept", 2, 1) }

\* A stream that offers, and refits its station.
OfferStream == { Say(2, 2, "Offer", 1, NoId), Say(2, 2, "Other", NoId, NoId) }

=============================================================================
