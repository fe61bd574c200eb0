--------------------------- MODULE EconomyAccounts --------------------------
(***************************************************************************)
(* Balance-sheet properties of the station economy: sums over stations and *)
(* contracts that tie the credits, stocks, reservations and contracts of   *)
(* StationEconomy together, and the notices on the channel.                *)
(***************************************************************************)
EXTENDS StationEconomy, Functions

CONSTANT MaxWeight  \* the largest weight the balance of matter is tried with

ASSUME WeightAssumption == MaxWeight \in Nat

InTransit == {i \in DOMAIN contracts : contracts[i].status = "InTransit"}

ContractsOf(s, m) ==
  {i \in InTransit : contracts[i].seller = s /\ contracts[i].material = m}

Qty == [i \in DOMAIN contracts |-> contracts[i].qty]

Escrow == [i \in DOMAIN contracts |-> contracts[i].escrow]

Promised(s, m) == SumFunctionOnSet(Qty, ContractsOf(s, m))

Escrowed == SumFunctionOnSet(Escrow, InTransit)

StockOf(stock, m) == SumFunctionOnSet([s \in Stations |-> stock[s][m]], Stations)

\* Trade neither makes nor loses credits: what the stations hold and what is
\* in escrow add up to the credits they started with, at every point of a
\* tick (try_form_contract, settle_contracts).
CreditsConserved ==
  SumFunctionOnSet(credits, Stations) + Escrowed
    = SumFunctionOnSet(InitialCredits, Stations)

\* Every unit of cargo under way is covered by a reservation at its seller,
\* even after deliveries have failed or been clamped (the max(0.0) of
\* settle_contracts never bites).
ReservationsCover ==
  \A s \in Stations, m \in Material : reserved[s][m] >= Promised(s, m)

\* "Inventory reserved in active contracts." (state.rs): a reservation exists
\* exactly as long as a contract in transit needs it.
ReservedOnlyForActive ==
  \A s \in Stations, m \in Material : reserved[s][m] = Promised(s, m)

\* The materials no recipe takes or gives.
Inert ==
  {m \in Material : \A rxn \in Reaction :
     ReactionInfo[rxn].inputs[m] = 0 /\ ReactionInfo[rxn].outputs[m] = 0}

\* Goods only change hands: of what is not produced no unit appears or
\* vanishes, whatever is traded.
GoodsConserved ==
  \A m \in Inert : StockOf(warehouse, m) = StockOf(InitialStock, m)

\* The point of reserving: where nothing is produced, a delivery that was
\* promised is made.  Only a station with production lines ever fails one.
EveryDeliveryHonoured ==
  \A i \in DOMAIN contracts :
    contracts[i].status = "Failed" => lines[contracts[i].seller] # <<>>

\* The automatic notices of station s on the air at tick t: only what agents
\* send is in the registry.
NoticesHeard(s, t) ==
  {a \in onAir : a[2] = t /\ a[3] = s /\ \A m \in messages : m.id # a[1]}

\* The automatic notices share the channel: of each station there is at most
\* one at an interval and none between two (generate_auto_posters), whatever
\* agents post beside them.
OneNoticePerInterval ==
  \A s \in Stations, t \in 0..tick :
    Cardinality(NoticesHeard(s, t)) <= IF t % PostInterval = 0 THEN 1 ELSE 0

\* A station with both a surplus and a shortage alternates its notices so that,
\* from the second interval on, both are up between any two ticks: the
\* surplus notice never starves the shortage one ("trade opportunities are
\* advertised even when a station also needs something", station.rs).
BothNoticesUp ==
  (phase = "commands" /\ tick > PostInterval) =>
    \A s \in Stations :
      /\ \A m \in SurplusRaw(s) : Advertised(s, "Have", m)
      /\ \A m \in ScarceMaterial(s) : Advertised(s, "Want", m)

\* What a stock is worth under a weighting of the materials.
Worth(weight, stock) ==
  SumFunctionOnSet([m \in Material |-> weight[m] * stock[m]], Material)

\* The worth of what the line l has taken in for the batch it is working on.
TakenIn(weight, l) == l.progress * Worth(weight, ReactionInfo[l.reaction].inputs)

InLines(weight, ls) ==
  SumFunctionOnSet([k \in DOMAIN ls |-> TakenIn(weight, ls[k])], DOMAIN ls)

\* A weighting under which a batch gives what it takes, its inputs taken once
\* in each of its ticks as update_stations does ("Consume energy and inputs once
\* per tick per line"): what material.rs says instead is InputsPerBatch.
Balances(weight) ==
  \A rxn \in Reaction :
    ReactionInfo[rxn].duration * Worth(weight, ReactionInfo[rxn].inputs)
      = Worth(weight, ReactionInfo[rxn].outputs)

TotalWorth(weight, stock) ==
  SumFunctionOnSet([s \in Stations |-> Worth(weight, stock[s])], Stations)

\* What the stations hold and what their lines have taken in is worth what they
\* started with.
WorthKept(weight) ==
  TotalWorth(weight, warehouse)
    + SumFunctionOnSet([s \in Stations |-> InLines(weight, lines[s])], Stations)
    = TotalWorth(weight, InitialStock)

\* Nothing is produced out of nothing and nothing a line takes in is lost,
\* whatever trade moves meanwhile: every weighting that balances the recipes,
\* with inputs taken tick by tick, is kept (update_stations, settle_contracts).
MatterAccounted ==
  \A weight \in [Material -> 0..MaxWeight] :
    Balances(weight) => WorthKept(weight)

\* A weighting under which a batch gives what it takes if its inputs are those
\* of the whole batch.
BalancesBatch(weight) ==
  \A rxn \in Reaction :
    Worth(weight, ReactionInfo[rxn].inputs) = Worth(weight, ReactionInfo[rxn].outputs)

\* "Required input materials and quantities (units per batch)." (material.rs):
\* when no batch is under way, every batch has taken its inputs once.
InputsPerBatch ==
  (\A s \in Stations : \A k \in DOMAIN lines[s] : lines[s][k].progress = 0) =>
    \A weight \in [Material -> 0..MaxWeight] :
      BalancesBatch(weight) =>
        TotalWorth(weight, warehouse) = TotalWorth(weight, InitialStock)

=============================================================================
