--------------------------- MODULE StationEconomy ---------------------------
(***************************************************************************)
(* The station economy of the simulation engine: the part of               *)
(* marita-core/src/tick.rs:step that applies station commands, settles     *)
(* contracts, runs production, ages market posters, posts automatic        *)
(* WANT/HAVE notices, broadcasts posters and advances the tick.            *)
(*                                                                         *)
(* One call of step is a sequence of steps here, ordered by `phase'.  Each *)
(* iteration of a loop of the code (a command, a due contract, a           *)
(* production line, a station) is one action, so what is proved of every   *)
(* step holds inside the loops as well as between ticks.                   *)
(*                                                                         *)
(* Quantities, prices and credits, f64 in the code, are natural numbers.   *)
(* A station is its index in SimulationState.stations; 0 stands for an     *)
(* identifier that no station, or no message, has.  Contracts are named by *)
(* their index in SimulationState.contracts.                               *)
(***************************************************************************)
EXTENDS Integers, Sequences, FiniteSets

CONSTANTS
  NumStations,      \* stations 1..NumStations, never added or removed at run time
  Material,         \* MaterialId
  Raw,              \* the materials with MaterialId::is_raw
  Sought,           \* tech tier -> sequence of materials find_scarce_material scans
  Reaction,         \* ReactionId
  ReactionInfo,     \* reaction_info: [inputs, outputs, energy, duration, tier]
  TechTier,         \* station -> tech_tier
  InitialStock,     \* station -> material -> quantity seeded at start-up
  InitialCredits,   \* station -> trade_credits_kwh at start-up
  InitialArea,      \* station -> solar_collector_area at start-up
  Request,          \* the market messages agents may send
  AreaRequest,      \* the areas agents may ask for, negative ones included
  TravelTicks,      \* possible cargo delays, fixed in the code by the distance
  Irradiance,       \* possible yields of one unit of collector area in one tick
  PostInterval,     \* POST_INTERVAL
  AutoTtl,          \* ttl of an automatic poster
  SurplusFloor,     \* stock at which a raw material counts as surplus
  ScarceBelow       \* stock under which a sought material counts as scarce

\* Bounds of the model; the code has none.
CONSTANTS
  MaxTick,          \* the last tick explored
  MaxMessages,      \* messages agents may send
  MaxLines          \* production lines per station

Stations == 1..NumStations
NoId == 0
Kind == {"Want", "Have", "Offer", "Counter", "Accept", "Reject"}
Status == {"InTransit", "Settled", "Failed"}
Phases == {"commands", "settle", "stations", "autopost", "emit"}

\* A market message as an agent submits it: the id, the tick and the name of
\* the sender are stamped by the engine.
RequestType ==
  [kind : Kind, from : Nat, to : Nat, reply : Nat,
   material : Material, qty : Nat, price : Nat, ttl : Nat]

MessageType ==
  [id : Nat, tick : Nat, kind : Kind, from : Stations, to : Nat, reply : Nat,
   material : Material, qty : Nat \ {0}, price : Nat \ {0}, ttl : Nat]

ContractType ==
  [buyer : Stations, seller : Stations, material : Material,
   qty : Nat, price : Nat, escrow : Nat,
   created : Nat, arrival : Nat, status : Status]

PosterType ==
  [id : Nat, kind : Kind, material : Material,
   remaining : Nat \ {0}, broadcasted : BOOLEAN]

LineType == [reaction : Reaction, progress : Nat]

Stockpile == [Material -> Nat]

ASSUME StationsAssumption ==
  /\ NumStations \in Nat \ {0}
  /\ IsFiniteSet(Material)
  /\ Raw \subseteq Material
  /\ TechTier \in [Stations -> Nat]
  /\ InitialStock \in [Stations -> Stockpile]
  /\ InitialCredits \in [Stations -> Nat]
  /\ InitialArea \in [Stations -> Nat]

ASSUME ReactionAssumption ==
  ReactionInfo \in
    [Reaction -> [inputs : Stockpile, outputs : Stockpile, energy : Nat,
                  duration : Nat \ {0}, tier : Nat]]

ASSUME InputAssumption ==
  /\ Request \subseteq RequestType
  /\ AreaRequest \subseteq Int
  /\ TravelTicks \subseteq Nat \ {0}
  /\ Irradiance \subseteq Nat
  /\ Irradiance # {}

ASSUME ParameterAssumption ==
  /\ Sought \in [{TechTier[s] : s \in Stations} -> Seq(Material)]
  /\ PostInterval \in Nat \ {0}
  /\ AutoTtl \in Nat \ {0}
  /\ SurplusFloor \in Nat
  /\ ScarceBelow \in Nat
  /\ {MaxTick, MaxMessages, MaxLines} \subseteq Nat

VARIABLES
  tick,         \* SimulationState.tick
  phase,        \* how far step has come in the current tick
  credits,      \* station -> trade_credits_kwh
  warehouse,    \* station -> warehouses
  reserved,     \* station -> reserved_warehouses
  area,         \* station -> solar_collector_area
  lines,        \* station -> production_lines
  posters,      \* station -> active_market_posters
  messages,     \* SimulationState.market_messages, the registry
  nextMsg,      \* next_market_message_id
  contracts,    \* SimulationState.contracts
  onAir,        \* <<message id, tick, station>> of every arc emit_market_broadcasts made
  due,          \* settle_contracts: the contracts still to be settled this tick
  at,           \* the station the loop of update_stations has reached
  line,         \* the production line its inner loop has reached
  energy        \* energy_kwh left to that station's lines this tick

ledger == <<credits, reserved, contracts>>
market == <<messages, nextMsg, posters, onAir>>
cursor == <<due, at, line, energy>>
vars == <<tick, phase, credits, warehouse, reserved, area, lines, posters,
          messages, nextMsg, contracts, onAir, due, at, line, energy>>

Init ==
  /\ tick = 0
  /\ phase = "commands"
  /\ credits = InitialCredits
  /\ warehouse = InitialStock
  /\ reserved = [s \in Stations |-> [m \in Material |-> 0]]
  /\ area = InitialArea
  /\ lines = [s \in Stations |-> <<>>]
  /\ posters = [s \in Stations |-> {}]
  /\ messages = {}
  /\ nextMsg = 1
  /\ contracts = <<>>
  /\ onAir = {}
  /\ due = {}
  /\ at = 1
  /\ line = 1
  /\ energy = 0

(***************************************************************************)
(* Station commands (apply_station_commands).  A command that the code     *)
(* skips changes nothing and is no step.                                   *)
(***************************************************************************)

\* The engine's own checks on a market message.
Postable(r) == r.from \in Stations /\ r.qty > 0 /\ r.price > 0

Poster(id, kind, material, ttl) ==
  [id |-> id, kind |-> kind, material |-> material,
   remaining |-> IF ttl > 1 THEN ttl ELSE 1, broadcasted |-> FALSE]

\* The acceptance answers the offer and each names the other's sender.
Matches(offer, acc) ==
  /\ offer.id = acc.reply
  /\ offer.kind \in {"Offer", "Counter"}
  /\ offer.to = acc.from
  /\ acc.to = offer.from
  /\ offer.from # acc.from

\* Mutant: the acceptor takes the whole offer, however little it asked for.
AgreedQtyAsOffered(offer, acc) == offer.qty

AgreedQty(offer, acc) == IF acc.qty < offer.qty THEN acc.qty ELSE offer.qty

\* Mutant: stock promised to others counts as available.
AvailableUnreserved(s, m) == warehouse[s][m]

Available(s, m) == warehouse[s][m] - reserved[s][m]

\* Mutant: nobody looks whether the buyer can pay.
CanHonourOnCredit(offer, acc) ==
  Available(offer.from, offer.material) >= AgreedQty(offer, acc)

CanHonour(offer, acc) ==
  LET qty == AgreedQty(offer, acc)
  IN  /\ Available(offer.from, offer.material) >= qty
      /\ credits[acc.from] >= qty * offer.price

NewContract(offer, acc, travel) ==
  LET qty == AgreedQty(offer, acc)
  IN  [buyer |-> acc.from, seller |-> offer.from, material |-> offer.material,
       qty |-> qty, price |-> offer.price, escrow |-> qty * offer.price,
       created |-> tick, arrival |-> tick + travel, status |-> "InTransit"]

\* The buyer's credits enter escrow, the seller's goods are reserved.
FormContract(c) ==
  /\ credits' = [credits EXCEPT ![c.buyer] = @ - c.escrow]
  /\ reserved' = [reserved EXCEPT ![c.seller][c.material] = @ + c.qty]
  /\ contracts' = Append(contracts, c)

TryFormContract(acc) ==
  \/ \E offer \in messages, travel \in TravelTicks :
       /\ Matches(offer, acc)
       /\ CanHonour(offer, acc)
       /\ FormContract(NewContract(offer, acc, travel))
  \/ /\ ~ \E offer \in messages : Matches(offer, acc) /\ CanHonour(offer, acc)
     /\ UNCHANGED ledger

PostMarketMessage(r) ==
  LET msg == [id |-> nextMsg, tick |-> tick, kind |-> r.kind, from |-> r.from,
              to |-> r.to, reply |-> r.reply, material |-> r.material,
              qty |-> r.qty, price |-> r.price, ttl |-> r.ttl]
  IN  /\ phase = "commands"
      /\ Cardinality(messages) < MaxMessages
      /\ Postable(r)
      /\ nextMsg' = nextMsg + 1
      /\ IF r.kind = "Accept" THEN TryFormContract(msg) ELSE UNCHANGED ledger
      /\ messages' = messages \cup {msg}
      /\ posters' = IF r.kind = "Reject" THEN posters
                    ELSE [posters EXCEPT ![r.from] =
                            @ \cup {Poster(nextMsg, r.kind, r.material, r.ttl)}]
      /\ UNCHANGED <<tick, phase, warehouse, area, lines, onAir, cursor>>

StartProduction(s, rxn) ==
  /\ phase = "commands"
  /\ Len(lines[s]) < MaxLines
  /\ TechTier[s] >= ReactionInfo[rxn].tier
  /\ lines' = [lines EXCEPT ![s] = Append(@, [reaction |-> rxn, progress |-> 0])]
  /\ UNCHANGED <<tick, phase, ledger, warehouse, area, market, cursor>>

SetCollectorArea(s, a) ==
  /\ phase = "commands"
  /\ area' = [area EXCEPT ![s] = IF a > 0 THEN a ELSE 0]
  /\ UNCHANGED <<tick, phase, ledger, warehouse, lines, market, cursor>>

(***************************************************************************)
(* Contract settlement (settle_contracts).  Stations are never removed, so *)
(* the branches of the code for a missing party cannot be taken.           *)
(***************************************************************************)

\* Mutants: cargo is settled a tick late; a closed contract is due again.
IsDueAfterArrival(c) == c.status = "InTransit" /\ c.arrival < tick
IsDueAgain(c) == c.arrival <= tick

IsDue(c) == c.status = "InTransit" /\ c.arrival <= tick

BeginSettlement ==
  /\ phase = "commands"
  /\ tick < MaxTick
  /\ phase' = "settle"
  /\ due' = {i \in DOMAIN contracts : IsDue(contracts[i])}
  /\ UNCHANGED <<tick, ledger, warehouse, area, lines, market, at, line, energy>>

\* Mutant: the last unit of stock cannot be delivered.
DeliverableWithRest(c) == warehouse[c.seller][c.material] > c.qty

Deliverable(c) == warehouse[c.seller][c.material] >= c.qty

NextDue(i) == i \in due /\ \A j \in due : i <= j

\* Mutant: every reservation of the material goes.
ReleasedAll(c) == 0

\* Reserved stock after a delivery of c: (*reserved - quantity).max(0.0).
Released(c) ==
  LET r == reserved[c.seller][c.material]
  IN  IF r > c.qty THEN r - c.qty ELSE 0

\* Mutant: the goods are copied to the buyer.
UnloadedNothing(c) == warehouse

\* The warehouses once the goods of c have left the seller's.
Unloaded(c) == [warehouse EXCEPT ![c.seller][c.material] = @ - c.qty]

\* Mutant: the contract delivered is not marked as settled.
DeliverUnmarked(i) ==
  LET c == contracts[i]
  IN  /\ phase = "settle"
      /\ NextDue(i)
      /\ Deliverable(c)
      /\ warehouse' = [Unloaded(c) EXCEPT ![c.buyer][c.material] = @ + c.qty]
      /\ reserved' = [reserved EXCEPT ![c.seller][c.material] = Released(c)]
      /\ credits' = [credits EXCEPT ![c.seller] = @ + c.escrow]
      /\ due' = due \ {i}
      /\ UNCHANGED <<tick, phase, contracts, area, lines, market, at, line, energy>>

Deliver(i) ==
  LET c == contracts[i]
  IN  /\ phase = "settle"
      /\ NextDue(i)
      /\ Deliverable(c)
      /\ warehouse' = [Unloaded(c) EXCEPT ![c.buyer][c.material] = @ + c.qty]
      /\ reserved' = [reserved EXCEPT ![c.seller][c.material] = Released(c)]
      /\ credits' = [credits EXCEPT ![c.seller] = @ + c.escrow]
      /\ contracts' = [contracts EXCEPT ![i].status = "Settled"]
      /\ due' = due \ {i}
      /\ UNCHANGED <<tick, phase, area, lines, market, at, line, energy>>

\* Mutant: a failed delivery keeps the escrow, as the code does when a party
\* of the contract no longer exists.
FailDeliveryUnrefunded(i) ==
  /\ phase = "settle"
  /\ NextDue(i)
  /\ ~ Deliverable(contracts[i])
  /\ contracts' = [contracts EXCEPT ![i].status = "Failed"]
  /\ due' = due \ {i}
  /\ UNCHANGED <<tick, phase, credits, warehouse, reserved, area, lines, market,
                 at, line, energy>>

\* A delivery the seller cannot make: the escrow goes back to the buyer, the
\* seller's reservation stays as it is.
FailDelivery(i) ==
  LET c == contracts[i]
  IN  /\ phase = "settle"
      /\ NextDue(i)
      /\ ~ Deliverable(c)
      /\ credits' = [credits EXCEPT ![c.buyer] = @ + c.escrow]
      /\ contracts' = [contracts EXCEPT ![i].status = "Failed"]
      /\ due' = due \ {i}
      /\ UNCHANGED <<tick, phase, warehouse, reserved, area, lines, market,
                     at, line, energy>>

\* The loop over the stations starts: the first station collects sunlight.
EndSettlement ==
  /\ phase = "settle"
  /\ due = {}
  /\ phase' = "stations"
  /\ at' = 1
  /\ line' = 1
  /\ \E yield \in Irradiance : energy' = yield * area[1]
  /\ UNCHANGED <<tick, ledger, warehouse, area, lines, market, due>>

(***************************************************************************)
(* Production (update_stations): the lines of a station share the energy   *)
(* collected in this tick, in order.  Energy and inputs are taken on every *)
(* tick a line runs, outputs appear when its last tick has run.  The stock *)
(* a line may draw on includes the reserved part.                          *)
(***************************************************************************)

CanRun(s, rxn) ==
  /\ energy >= rxn.energy
  /\ \A m \in Material : warehouse[s][m] >= rxn.inputs[m]

\* Stock of material m after the line of station s ran for a tick.
AfterRun(s, rxn, m, completes) ==
  warehouse[s][m] - rxn.inputs[m] + (IF completes THEN rxn.outputs[m] ELSE 0)

\* Mutant: a finished batch does not start the next one from nothing.
NextProgressUnreset(p, completes) == p + 1

NextProgress(p, completes) == IF completes THEN 0 ELSE p + 1

RunLine ==
  /\ phase = "stations"
  /\ line \in DOMAIN lines[at]
  /\ LET rxn == ReactionInfo[lines[at][line].reaction]
         completes == lines[at][line].progress + 1 >= rxn.duration
     IN  /\ CanRun(at, rxn)
         /\ energy' = energy - rxn.energy
         /\ warehouse' = [warehouse EXCEPT ![at] =
                            [m \in Material |-> AfterRun(at, rxn, m, completes)]]
         /\ lines' = [lines EXCEPT ![at][line].progress =
                            NextProgress(@, completes)]
  /\ line' = line + 1
  /\ UNCHANGED <<tick, phase, ledger, area, market, due, at>>

IdleLine ==
  /\ phase = "stations"
  /\ line \in DOMAIN lines[at]
  /\ ~ CanRun(at, ReactionInfo[lines[at][line].reaction])
  /\ line' = line + 1
  /\ UNCHANGED <<tick, phase, ledger, warehouse, area, lines, market,
                 due, at, energy>>

(***************************************************************************)
(* Market posters: ageing (update_stations), automatic notices             *)
(* (generate_auto_posters) and radio (emit_market_broadcasts).             *)
(***************************************************************************)

\* Mutant: a poster is taken down a tick early.
AgedEarly(ps) == {[p EXCEPT !.remaining = @ - 1] : p \in {q \in ps : q.remaining > 2}}

\* remaining_ticks - 1 for every poster, then retain the ones above zero.
Aged(ps) ==
  {[p EXCEPT !.remaining = @ - 1] : p \in {q \in ps : q.remaining > 1}}

AgePosters ==
  /\ phase = "stations"
  /\ line \notin DOMAIN lines[at]
  /\ posters' = [posters EXCEPT ![at] = Aged(@)]
  /\ line' = 1
  /\ IF at < NumStations
     THEN /\ at' = at + 1
          /\ phase' = phase
          /\ \E yield \in Irradiance : energy' = yield * area[at + 1]
     ELSE /\ at' = 1
          /\ phase' = "autopost"
          /\ energy' = 0
  /\ UNCHANGED <<tick, ledger, warehouse, area, lines, messages, nextMsg, onAir, due>>

Advertised(s, kind, m) ==
  \E p \in posters[s] : p.kind = kind /\ p.material = m

\* find_surplus_raw: the largest raw stock at or above the floor; between
\* equal stocks the iteration order of a hash map decides.
SurplusRaw(s) ==
  {m \in Raw : /\ warehouse[s][m] >= SurplusFloor
               /\ \A k \in Raw : warehouse[s][k] <= warehouse[s][m]}

\* find_scarce_material: the first smallest stock among the materials sought
\* at the station's tier, if it is below the threshold.
ScarceMaterial(s) ==
  LET list == Sought[TechTier[s]]
      stock(i) == warehouse[s][list[i]]
      first == {i \in DOMAIN list :
                  \A j \in DOMAIN list :
                    stock(i) < stock(j) \/ (stock(i) = stock(j) /\ i <= j)}
  IN  {list[i] : i \in {j \in first : stock(j) < ScarceBelow}}

\* No surplus notice is planned: nothing to offer, or the material picked is
\* advertised already.
NoHavePlan(s) ==
  SurplusRaw(s) = {} \/ \E m \in SurplusRaw(s) : Advertised(s, "Have", m)

\* Mutant: the surplus notice is posted again while it is still up.
HavePlansAgain(s) == {"Have"} \X SurplusRaw(s)

HavePlans(s) == {"Have"} \X {m \in SurplusRaw(s) : ~ Advertised(s, "Have", m)}

WantPlans(s) ==
  {"Want"} \X {m \in ScarceMaterial(s) : ~ Advertised(s, "Want", m)}

\* One notice per station and interval: what is wanted is announced only when
\* there is no surplus notice to post.
AutoPlans(s) == HavePlans(s) \cup (IF NoHavePlan(s) THEN WantPlans(s) ELSE {})

NextStation ==
  IF at < NumStations THEN at' = at + 1 /\ phase' = phase
                      ELSE at' = 1 /\ phase' = "emit"

\* An automatic poster takes a message id but is not entered in the registry.
AutoPost ==
  /\ phase = "autopost"
  /\ tick % PostInterval = 0
  /\ \E plan \in AutoPlans(at) :
       posters' = [posters EXCEPT ![at] =
                     @ \cup {Poster(nextMsg, plan[1], plan[2], AutoTtl)}]
  /\ nextMsg' = nextMsg + 1
  /\ NextStation
  /\ UNCHANGED <<tick, ledger, warehouse, area, lines, messages, onAir,
                 due, line, energy>>

NoAutoPost ==
  /\ phase = "autopost"
  /\ tick % PostInterval = 0 => NoHavePlan(at) /\ WantPlans(at) = {}
  /\ NextStation
  /\ UNCHANGED <<tick, ledger, warehouse, area, lines, market, due, line, energy>>

\* Mutant: the broadcasted flag is not looked at.
UnsentOrNot(s) == posters[s]

Unsent(s) == {p \in posters[s] : ~ p.broadcasted}

\* emit_market_broadcasts, then the end of step: state.tick += 1.
EmitAndAdvance ==
  /\ phase = "emit"
  /\ onAir' = onAir \cup
       UNION {{<<p.id, tick, s>> : p \in Unsent(s)} : s \in Stations}
  /\ posters' = [s \in Stations |->
                   {[p EXCEPT !.broadcasted = TRUE] : p \in posters[s]}]
  /\ tick' = tick + 1
  /\ phase' = "commands"
  /\ UNCHANGED <<ledger, warehouse, area, lines, messages, nextMsg, cursor>>

\* The last tick of the bounded model: stutter instead of stopping.
Finished ==
  /\ phase = "commands"
  /\ tick = MaxTick
  /\ UNCHANGED vars

Command ==
  \/ \E r \in Request : PostMarketMessage(r)
  \/ \E s \in Stations, rxn \in Reaction : StartProduction(s, rxn)
  \/ \E s \in Stations, a \in AreaRequest : SetCollectorArea(s, a)

Tick ==
  \/ BeginSettlement
  \/ \E i \in due : Deliver(i) \/ FailDelivery(i)
  \/ EndSettlement
  \/ RunLine
  \/ IdleLine
  \/ AgePosters
  \/ AutoPost
  \/ NoAutoPost
  \/ EmitAndAdvance

Next == Command \/ Tick \/ Finished

Spec == Init /\ [][Next]_vars

\* tick_loop calls step once a second for ever, and step has no wait in it:
\* the steps of a tick are never postponed for ever.
FairSpec == Spec /\ WF_vars(Tick)

(***************************************************************************)
(* Properties                                                              *)
(***************************************************************************)

\* Every variable keeps its type: in particular no balance, stock or
\* reservation is ever negative.
TypeOK ==
  /\ tick \in Nat
  /\ phase \in Phases
  /\ credits \in [Stations -> Nat]
  /\ warehouse \in [Stations -> Stockpile]
  /\ reserved \in [Stations -> Stockpile]
  /\ area \in [Stations -> Nat]
  /\ lines \in [Stations -> Seq(LineType)]
  /\ posters \in [Stations -> SUBSET PosterType]
  /\ messages \subseteq MessageType
  /\ nextMsg \in Nat \ {0}
  /\ contracts \in Seq(ContractType)
  /\ onAir \subseteq Nat \X Nat \X Stations
  /\ due \subseteq DOMAIN contracts
  /\ at \in Stations
  /\ line \in Nat \ {0}
  /\ energy \in Nat

\* Contract c says what the offer and the acceptance it rests on say.
RestsOn(c, offer, acc) ==
  /\ offer.kind \in {"Offer", "Counter"}
  /\ acc.kind = "Accept"
  /\ acc.reply = offer.id
  /\ offer.id < acc.id
  /\ offer.to = c.buyer
  /\ acc.to = c.seller
  /\ c.buyer # c.seller
  /\ acc.tick = c.created
  /\ c.buyer = acc.from
  /\ c.seller = offer.from
  /\ c.material = offer.material
  /\ c.qty <= offer.qty
  /\ c.qty <= acc.qty
  /\ c.escrow = c.qty * offer.price

\* No contract without consent: each rests on an OFFER or COUNTER its seller
\* sent to its buyer and on a later ACCEPT its buyer sent back, takes no more
\* goods or credits than both state, and no ACCEPT serves two contracts
\* (try_form_contract).  Whether the offer was still open is OpenWhenAccepted.
ContractsAgreed ==
  \E acceptance \in [DOMAIN contracts -> messages] :
    /\ \A i \in DOMAIN contracts :
         \E offer \in messages : RestsOn(contracts[i], offer, acceptance[i])
    /\ \A i, j \in DOMAIN contracts : acceptance[i] = acceptance[j] => i = j

\* "How many simulated ticks the offer remains open." (state.rs, ttl_ticks): a
\* contract is formed on an offer whose ticks are not over.
OpenWhenAccepted ==
  \A i \in DOMAIN contracts :
    \E offer \in messages, acc \in messages :
      /\ RestsOn(contracts[i], offer, acc)
      /\ contracts[i].created <= offer.tick + offer.ttl

\* Cargo is never late: a contract in transit is not past its arrival, and
\* once settle_contracts is done it is not at its arrival either.
NoneOverdue ==
  \A i \in DOMAIN contracts :
    contracts[i].status = "InTransit" =>
      /\ contracts[i].arrival >= tick
      /\ phase \in {"stations", "autopost", "emit"} => contracts[i].arrival > tick

\* Where nothing has ever been produced, no sequence of acceptances,
\* deliveries and failed deliveries promises more than is in stock: only a
\* production line can undercut a reservation (try_form_contract,
\* settle_contracts).
IdleReservesInStock ==
  \A s \in Stations, m \in Material :
    lines[s] = <<>> => reserved[s][m] <= warehouse[s][m]

\* A poster is on the air once at most (its broadcasted flag), whatever its
\* age and whoever posted it (emit_market_broadcasts).
BroadcastOnce ==
  \A a, b \in onAir : a[1] = b[1] => a = b

\* The ticks a message stays up as a poster.
Life(m) == IF m.ttl > 1 THEN m.ttl ELSE 1

\* What is left of the life of a message at the start of this tick.
TimeLeft(m) == m.tick + Life(m) - tick

\* A message hangs at its sender's station exactly as long as its life lasts,
\* neither a tick less nor a tick more, and shows what is left of it
\* (apply_station_commands, update_stations).
PostersExpire ==
  phase = "commands" =>
    \A m \in messages :
      /\ (m.kind # "Reject" /\ TimeLeft(m) > 0)
           => \E p \in posters[m.from] : p.id = m.id
      /\ \A s \in Stations : \A p \in posters[s] :
           p.id = m.id => s = m.from /\ p.remaining = TimeLeft(m)

\* The promise EscrowBank makes of the contracts alone.
Deal(c) ==
  [buyer |-> c.buyer, seller |-> c.seller, price |-> c.escrow,
   due |-> c.arrival, status |-> c.status]

Deals == [i \in DOMAIN contracts |-> Deal(contracts[i])]

Bank == INSTANCE EscrowBank WITH
  Party <- Stations, InitialFunds <- InitialCredits,
  clock <- tick, funds <- credits, deals <- Deals

\* The engine implements EscrowBank: escrow is taken whole when the contract
\* forms and paid once, whole, to one party, at the tick of arrival.
ImplementsEscrowBank == Bank!Spec

\* Every contract whose cargo arrives within the explored ticks is closed.
ContractsClose ==
  \A i \in 1..MaxMessages :
    (i \in DOMAIN contracts /\ contracts[i].arrival < MaxTick)
      ~> (i \in DOMAIN contracts /\ contracts[i].status # "InTransit")

=============================================================================
