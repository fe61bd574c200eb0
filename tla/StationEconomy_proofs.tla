------------------------ MODULE StationEconomy_proofs ------------------------
(***************************************************************************)
(* Proofs about StationEconomy, for every number of stations, every recipe *)
(* and every bound.                                                        *)
(***************************************************************************)
EXTENDS StationEconomy, SequenceTheorems, TLAPS

(***************************************************************************)
(* Type correctness                                                        *)
(***************************************************************************)

\* A product of naturals is a natural: escrow (quantity times price) and
\* collected energy (yield times area) are never negative.
LEMMA ProductNat == \A x, y \in Nat : x * y \in Nat
  BY SMT

\* Stocks and reservations as functions of functions.
LEMMA StockType ==
  ASSUME NEW f \in [Stations -> Stockpile], NEW s \in Stations, NEW m \in Material
  PROVE  f[s][m] \in Nat
  BY DEF Stockpile

\* Changing one station's stock of one material keeps the type of a stock.
LEMMA StockUpdate ==
  ASSUME NEW f \in [Stations -> Stockpile], NEW s \in Stations,
         NEW m \in Material, NEW v \in Nat
  PROVE  [f EXCEPT ![s][m] = v] \in [Stations -> Stockpile]
  <1>1. [f[s] EXCEPT ![m] = v] \in Stockpile
    BY DEF Stockpile
  <1>2. [f EXCEPT ![s] = [f[s] EXCEPT ![m] = v]] \in [Stations -> Stockpile]
    BY <1>1
  <1>3. QED
    BY <1>2

\* A contract formed from a matching pair of messages is well formed.
LEMMA NewContractType ==
  ASSUME TypeOK, NEW offer \in MessageType, NEW acc \in MessageType,
         NEW travel \in TravelTicks, Matches(offer, acc)
  PROVE  /\ NewContract(offer, acc, travel) \in ContractType
         /\ AgreedQty(offer, acc) \in Nat \ {0}
         /\ AgreedQty(offer, acc) <= offer.qty
         /\ AgreedQty(offer, acc) <= acc.qty
  <1> DEFINE qty == AgreedQty(offer, acc)
  <1>1. /\ qty \in Nat \ {0}
        /\ qty <= offer.qty
        /\ qty <= acc.qty
    BY DEF AgreedQty, MessageType
  <1>2. qty * offer.price \in Nat
    BY <1>1, ProductNat DEF MessageType
  <1>3. tick + travel \in Nat
    BY InputAssumption DEF TypeOK
  <1>4. "InTransit" \in Status
    BY DEF Status
  <1> HIDE DEF qty
  <1>5. [buyer |-> acc.from, seller |-> offer.from, material |-> offer.material,
         qty |-> qty, price |-> offer.price, escrow |-> qty * offer.price,
         created |-> tick, arrival |-> tick + travel, status |-> "InTransit"]
           \in ContractType
    BY <1>1, <1>2, <1>3, <1>4 DEF ContractType, MessageType, TypeOK
  <1>6. QED
    BY <1>1, <1>5 DEF NewContract, qty

\* Forming a contract keeps the ledger's types: the buyer can pay.
LEMMA FormContractType ==
  ASSUME TypeOK, NEW offer \in MessageType, NEW acc \in MessageType,
         NEW travel \in TravelTicks, Matches(offer, acc), CanHonour(offer, acc),
         FormContract(NewContract(offer, acc, travel))
  PROVE  /\ credits' \in [Stations -> Nat]
         /\ reserved' \in [Stations -> Stockpile]
         /\ contracts' \in Seq(ContractType)
         /\ DOMAIN contracts \subseteq DOMAIN contracts'
  <1> DEFINE c == NewContract(offer, acc, travel)
  <1>1. c \in ContractType
    BY NewContractType
  <1>2. credits[c.buyer] >= c.escrow
    BY DEF CanHonour, NewContract
  <1> HIDE DEF c
  <1>3. credits' = [credits EXCEPT ![c.buyer] = @ - c.escrow]
    BY DEF FormContract, c
  <1>4. reserved' = [reserved EXCEPT ![c.seller][c.material] = @ + c.qty]
    BY DEF FormContract, c
  <1>5. contracts' = Append(contracts, c)
    BY DEF FormContract, c
  <1>6. credits' \in [Stations -> Nat]
    BY <1>1, <1>2, <1>3, SMTT(30) DEF TypeOK, ContractType
  <1>7. reserved' \in [Stations -> Stockpile]
    <2>1. c.seller \in Stations /\ c.material \in Material /\ c.qty \in Nat
      BY <1>1 DEF ContractType
    <2>2. reserved[c.seller][c.material] \in Nat
      BY <2>1, StockType DEF TypeOK
    <2>3. reserved \in [Stations -> Stockpile]
      BY DEF TypeOK
    <2> DEFINE v == reserved[c.seller][c.material] + c.qty
    <2>4. v \in Nat
      BY <2>1, <2>2
    <2>5. reserved' = [reserved EXCEPT ![c.seller][c.material] = v]
      BY <1>4
    <2> HIDE DEF v
    <2>6. QED
      BY <2>1, <2>3, <2>4, <2>5, StockUpdate
  <1>8. contracts' \in Seq(ContractType) /\ DOMAIN contracts \subseteq DOMAIN contracts'
    BY <1>1, <1>5 DEF TypeOK
  <1>9. QED
    BY <1>6, <1>7, <1>8

\* The seeded stations have their types.
LEMMA InitType == Init => TypeOK
  BY StationsAssumption DEF Init, TypeOK, Stations, Stockpile, Phases

\* A poster made by the engine lives at least one tick.
LEMMA PosterIsPoster ==
  ASSUME NEW id \in Nat, NEW kind \in Kind, NEW m \in Material, NEW ttl \in Nat
  PROVE  Poster(id, kind, m, ttl) \in PosterType
  BY DEF Poster, PosterType

\* A market message keeps the types: what is agreed is paid for and in stock.
LEMMA PostMarketMessageType ==
  ASSUME TypeOK, NEW r \in Request, PostMarketMessage(r)
  PROVE  TypeOK'
  <1> DEFINE msg == [id |-> nextMsg, tick |-> tick, kind |-> r.kind, from |-> r.from,
                     to |-> r.to, reply |-> r.reply, material |-> r.material,
                     qty |-> r.qty, price |-> r.price, ttl |-> r.ttl]
  <1>1. r \in RequestType
    BY InputAssumption
  <1>2. msg \in MessageType
    BY <1>1 DEF RequestType, MessageType, PostMarketMessage, Postable, TypeOK
  <1> HIDE DEF msg
  <1>3. nextMsg' \in Nat \ {0}
    BY DEF PostMarketMessage, TypeOK
  <1>4. messages' \subseteq MessageType
    BY <1>2 DEF PostMarketMessage, TypeOK, msg
  <1>5. posters' \in [Stations -> SUBSET PosterType]
    <2>1. r.from \in Stations
      BY DEF PostMarketMessage, Postable
    <2>2. Poster(nextMsg, r.kind, r.material, r.ttl) \in PosterType
      BY <1>1, PosterIsPoster DEF RequestType, TypeOK
    <2>3. QED
      BY <2>1, <2>2 DEF PostMarketMessage, TypeOK
  <1>6. /\ credits' \in [Stations -> Nat]
        /\ reserved' \in [Stations -> Stockpile]
        /\ contracts' \in Seq(ContractType)
        /\ DOMAIN contracts \subseteq DOMAIN contracts'
    <2>1. TryFormContract(msg) \/ UNCHANGED ledger
      BY DEF PostMarketMessage, msg
    <2>2. CASE UNCHANGED ledger
      BY <2>2 DEF ledger, TypeOK
    <2>3. CASE TryFormContract(msg)
      <3>1. CASE UNCHANGED ledger
        BY <3>1 DEF ledger, TypeOK
      <3>2. ASSUME NEW offer \in messages, NEW travel \in TravelTicks,
                   Matches(offer, msg), CanHonour(offer, msg),
                   FormContract(NewContract(offer, msg, travel))
            PROVE  /\ credits' \in [Stations -> Nat]
                   /\ reserved' \in [Stations -> Stockpile]
                   /\ contracts' \in Seq(ContractType)
                   /\ DOMAIN contracts \subseteq DOMAIN contracts'
        <4>1. offer \in MessageType
          BY DEF TypeOK
        <4>2. QED
          BY <1>2, <3>2, <4>1, FormContractType
      <3>3. QED
        BY <2>3, <3>1, <3>2 DEF TryFormContract
    <2>4. QED
      BY <2>1, <2>2, <2>3
  <1>7. UNCHANGED <<tick, phase, warehouse, area, lines, onAir, due, at, line, energy>>
    BY DEF PostMarketMessage, cursor
  <1>8. QED
    BY <1>3, <1>4, <1>5, <1>6, <1>7 DEF TypeOK

\* A new line is a line.
LEMMA StartProductionType ==
  ASSUME TypeOK, NEW s \in Stations, NEW rxn \in Reaction, StartProduction(s, rxn)
  PROVE  TypeOK'
  <1>1. [reaction |-> rxn, progress |-> 0] \in LineType
    BY DEF LineType
  <1>2. lines' \in [Stations -> Seq(LineType)]
    BY <1>1 DEF StartProduction, TypeOK
  <1>3. QED
    BY <1>2 DEF StartProduction, TypeOK, ledger, market, cursor

\* A negative area is cut to zero.
LEMMA SetCollectorAreaType ==
  ASSUME TypeOK, NEW s \in Stations, NEW a \in AreaRequest, SetCollectorArea(s, a)
  PROVE  TypeOK'
  <1>1. area' \in [Stations -> Nat]
    BY InputAssumption DEF SetCollectorArea, TypeOK
  <1>2. QED
    BY <1>1 DEF SetCollectorArea, TypeOK, ledger, market, cursor

\* The work list holds indices of contracts.
LEMMA BeginSettlementType ==
  ASSUME TypeOK, BeginSettlement
  PROVE  TypeOK'
  BY DEF BeginSettlement, TypeOK, Phases, ledger, market

\* Closing a contract changes its status and nothing else of the sequence.
LEMMA ClosedContractType ==
  ASSUME TypeOK, NEW i \in DOMAIN contracts, NEW outcome \in Status
  PROVE  /\ contracts[i] \in ContractType
         /\ [contracts EXCEPT ![i].status = outcome] \in Seq(ContractType)
         /\ DOMAIN [contracts EXCEPT ![i].status = outcome] = DOMAIN contracts
  <1>1. contracts[i] \in ContractType
    BY DEF TypeOK
  <1>2. [contracts[i] EXCEPT !.status = outcome] \in ContractType
    BY <1>1 DEF ContractType
  <1>3. QED
    BY <1>1, <1>2 DEF TypeOK

\* A delivery leaves no stock and no reservation below zero.
LEMMA DeliverType ==
  ASSUME TypeOK, NEW i \in due, Deliver(i)
  PROVE  TypeOK'
  <1> DEFINE c == contracts[i]
  <1>1. i \in DOMAIN contracts /\ c \in ContractType
    BY ClosedContractType DEF TypeOK, Status
  <1>2. /\ c.buyer \in Stations
        /\ c.seller \in Stations
        /\ c.material \in Material
        /\ c.qty \in Nat
        /\ c.escrow \in Nat
    BY <1>1 DEF ContractType
  <1>3. contracts' \in Seq(ContractType) /\ DOMAIN contracts' = DOMAIN contracts
    BY <1>1, ClosedContractType DEF Deliver, Status
  <1> HIDE DEF c
  <1>4. credits' \in [Stations -> Nat]
    <2>1. credits' = [credits EXCEPT ![c.seller] = @ + c.escrow]
      BY DEF Deliver, c
    <2>2. QED
      BY <1>2, <2>1, SMTT(30) DEF TypeOK
  <1>5. reserved' \in [Stations -> Stockpile]
    <2>1. reserved[c.seller][c.material] \in Nat
      BY <1>2, StockType DEF TypeOK
    <2>2. Released(c) \in Nat
      BY <1>2, <2>1 DEF Released
    <2>3. reserved' = [reserved EXCEPT ![c.seller][c.material] = Released(c)]
      BY DEF Deliver, c
    <2>4. reserved \in [Stations -> Stockpile]
      BY DEF TypeOK
    <2>5. QED
      BY <1>2, <2>2, <2>3, <2>4, StockUpdate
  <1>6. warehouse' \in [Stations -> Stockpile]
    <2> DEFINE left == warehouse[c.seller][c.material] - c.qty
               mid == [warehouse EXCEPT ![c.seller][c.material] = left]
               gain == mid[c.buyer][c.material] + c.qty
    <2>1. warehouse \in [Stations -> Stockpile]
      BY DEF TypeOK
    <2>2. warehouse[c.seller][c.material] \in Nat
      BY <1>2, <2>1, StockType
    <2>3. left \in Nat
      BY <1>2, <2>2 DEF Deliver, Deliverable, c
    <2> HIDE DEF left
    <2>4. mid \in [Stations -> Stockpile]
      BY <1>2, <2>1, <2>3, StockUpdate
    <2>5. warehouse' = [mid EXCEPT ![c.buyer][c.material] = @ + c.qty]
      BY DEF Deliver, Unloaded, c, left
    <2> HIDE DEF mid
    <2>6. gain \in Nat
      BY <1>2, <2>4, StockType
    <2>7. warehouse' = [mid EXCEPT ![c.buyer][c.material] = gain]
      BY <2>5
    <2> HIDE DEF gain
    <2>8. QED
      BY <1>2, <2>4, <2>6, <2>7, StockUpdate
  <1>7. due' \subseteq DOMAIN contracts'
    BY <1>3 DEF Deliver, TypeOK
  <1>8. UNCHANGED <<tick, phase, area, lines, messages, nextMsg, posters, onAir,
                    at, line, energy>>
    BY DEF Deliver, market
  <1>9. QED
    BY <1>3, <1>4, <1>5, <1>6, <1>7, <1>8 DEF TypeOK

\* A refund keeps the types.
LEMMA FailDeliveryType ==
  ASSUME TypeOK, NEW i \in due, FailDelivery(i)
  PROVE  TypeOK'
  <1> DEFINE c == contracts[i]
  <1>1. i \in DOMAIN contracts /\ c \in ContractType
    BY ClosedContractType DEF TypeOK, Status
  <1>2. contracts' \in Seq(ContractType) /\ DOMAIN contracts' = DOMAIN contracts
    BY <1>1, ClosedContractType DEF FailDelivery, Status
  <1>3. credits' \in [Stations -> Nat]
    <2>1. credits' = [credits EXCEPT ![c.buyer] = @ + c.escrow]
      BY DEF FailDelivery
    <2>2. c.buyer \in Stations /\ c.escrow \in Nat
      BY <1>1 DEF ContractType
    <2>3. credits \in [Stations -> Nat]
      BY DEF TypeOK
    <2>4. PICK buyer, price : buyer = c.buyer /\ price = c.escrow
      OBVIOUS
    <2>5. credits[buyer] + price \in Nat
      BY <2>2, <2>3, <2>4
    <2> HIDE DEF c
    <2>6. QED
      BY <2>1, <2>2, <2>3, <2>4, <2>5
  <1>4. due' \subseteq DOMAIN contracts'
    BY <1>2 DEF FailDelivery, TypeOK
  <1>5. UNCHANGED <<tick, phase, warehouse, reserved, area, lines, messages, nextMsg,
                    posters, onAir, at, line, energy>>
    BY DEF FailDelivery, market
  <1>6. QED
    BY <1>2, <1>3, <1>4, <1>5 DEF TypeOK

\* The energy collected is a natural number.
LEMMA EndSettlementType ==
  ASSUME TypeOK, EndSettlement
  PROVE  TypeOK'
  <1>1. 1 \in Stations
    BY StationsAssumption DEF Stations
  <1>2. PICK yield \in Irradiance : energy' = yield * area[1]
    BY DEF EndSettlement
  <1>3. yield \in Nat /\ area[1] \in Nat
    BY <1>1, InputAssumption DEF TypeOK
  <1>4. energy' \in Nat
    BY <1>2, <1>3, ProductNat
  <1>5. phase' \in Phases /\ at' \in Stations /\ line' \in Nat \ {0}
    BY <1>1 DEF EndSettlement, Phases
  <1>6. UNCHANGED <<tick, credits, reserved, contracts, warehouse, area, lines, messages,
                    nextMsg, posters, onAir, due>>
    BY DEF EndSettlement, ledger, market
  <1>7. QED
    BY <1>4, <1>5, <1>6 DEF TypeOK

\* A line takes no more energy and no more inputs than there are.
LEMMA RunLineType ==
  ASSUME TypeOK, RunLine
  PROVE  TypeOK'
  <1> DEFINE l == lines[at][line]
             rxn == ReactionInfo[l.reaction]
             completes == l.progress + 1 >= rxn.duration
  <1>1. line \in DOMAIN lines[at] /\ lines[at] \in Seq(LineType) /\ at \in Stations
    BY DEF RunLine, TypeOK
  <1>2. l \in LineType
    BY <1>1
  <1>3. /\ rxn.inputs \in Stockpile
        /\ rxn.outputs \in Stockpile
        /\ rxn.energy \in Nat
    BY <1>2, ReactionAssumption DEF LineType
  <1>4. /\ CanRun(at, rxn)
        /\ energy' = energy - rxn.energy
        /\ warehouse' = [warehouse EXCEPT ![at] =
                           [m \in Material |-> AfterRun(at, rxn, m, completes)]]
        /\ lines' = [lines EXCEPT ![at][line].progress = NextProgress(@, completes)]
    BY DEF RunLine
  <1> HIDE DEF rxn, completes
  <1>5. energy' \in Nat
    BY <1>3, <1>4 DEF CanRun, TypeOK
  <1>6. warehouse' \in [Stations -> Stockpile]
    <2>1. ASSUME NEW m \in Material
          PROVE  AfterRun(at, rxn, m, completes) \in Nat
      <3>1. warehouse[at][m] \in Nat
        BY <1>1, StockType DEF TypeOK
      <3>2. rxn.inputs[m] \in Nat /\ rxn.outputs[m] \in Nat
        BY <1>3 DEF Stockpile
      <3>3. warehouse[at][m] >= rxn.inputs[m]
        BY <1>4 DEF CanRun
      <3>4. QED
        BY <3>1, <3>2, <3>3 DEF AfterRun
    <2>2. [m \in Material |-> AfterRun(at, rxn, m, completes)] \in Stockpile
      BY <2>1 DEF Stockpile
    <2>3. QED
      BY <1>1, <1>4, <2>2 DEF TypeOK
  <1>7. lines' \in [Stations -> Seq(LineType)]
    <2> DEFINE p == NextProgress(l.progress, completes)
    <2>1. p \in Nat
      BY <1>2 DEF NextProgress, LineType
    <2> HIDE DEF p
    <2>2. [l EXCEPT !.progress = p] \in LineType
      BY <1>2, <2>1 DEF LineType
    <2>3. [lines[at] EXCEPT ![line] = [l EXCEPT !.progress = p]] \in Seq(LineType)
      BY <1>1, <2>2
    <2>4. lines' = [lines EXCEPT ![at] =
                      [lines[at] EXCEPT ![line] = [l EXCEPT !.progress = p]]]
      BY <1>4 DEF p
    <2>5. QED
      BY <1>1, <2>3, <2>4 DEF TypeOK
  <1>8. line' \in Nat \ {0}
    BY DEF RunLine, TypeOK
  <1>9. UNCHANGED <<tick, phase, credits, reserved, contracts, area, messages, nextMsg,
                    posters, onAir, due, at>>
    BY DEF RunLine, ledger, market
  <1>10. QED
    BY <1>5, <1>6, <1>7, <1>8, <1>9 DEF TypeOK

\* A line that cannot run changes nothing but the cursor.
LEMMA IdleLineType ==
  ASSUME TypeOK, IdleLine
  PROVE  TypeOK'
  <1>1. line' \in Nat \ {0}
    BY DEF IdleLine, TypeOK
  <1>2. UNCHANGED <<tick, phase, credits, warehouse, reserved, area, lines, posters,
                    messages, nextMsg, contracts, onAir, due, at, energy>>
    BY DEF IdleLine, ledger, market
  <1>3. QED
    BY <1>1, <1>2 DEF TypeOK

\* What ageing leaves has time to live.
LEMMA AgedType ==
  ASSUME NEW ps \in SUBSET PosterType
  PROVE  Aged(ps) \in SUBSET PosterType
  BY DEF Aged, PosterType

\* Ageing keeps the types, and the cursor stays on a station.
LEMMA AgePostersType ==
  ASSUME TypeOK, AgePosters
  PROVE  TypeOK'
  <1>1. at \in Stations /\ posters[at] \in SUBSET PosterType
    BY DEF TypeOK
  <1>2. posters' \in [Stations -> SUBSET PosterType]
    BY <1>1, AgedType DEF AgePosters, TypeOK
  <1>3. at' \in Stations /\ phase' \in Phases /\ energy' \in Nat
    <2>1. CASE at < NumStations
      <3>1. at + 1 \in Stations
        BY <1>1, <2>1, StationsAssumption DEF Stations
      <3>2. PICK yield \in Irradiance : energy' = yield * area[at + 1]
        BY <2>1 DEF AgePosters
      <3>3. yield \in Nat /\ area[at + 1] \in Nat
        BY <3>1, InputAssumption DEF TypeOK
      <3>4. energy' \in Nat
        BY <3>2, <3>3, ProductNat
      <3>5. QED
        BY <2>1, <3>1, <3>4 DEF AgePosters, TypeOK
    <2>2. CASE ~ (at < NumStations)
      BY <2>2, StationsAssumption DEF AgePosters, Stations, Phases
    <2>3. QED
      BY <2>1, <2>2
  <1>4. line' \in Nat \ {0}
    BY DEF AgePosters
  <1>5. UNCHANGED <<tick, credits, reserved, contracts, warehouse, area, lines,
                    messages, nextMsg, onAir, due>>
    BY DEF AgePosters, ledger
  <1>6. QED
    BY <1>2, <1>3, <1>4, <1>5 DEF TypeOK

\* The cursor of the loops over stations stays on a station.
LEMMA NextStationType ==
  ASSUME TypeOK, NextStation
  PROVE  at' \in Stations /\ phase' \in Phases
  <1>1. at \in Nat /\ 1 <= at /\ at <= NumStations /\ phase \in Phases
    BY StationsAssumption DEF TypeOK, Stations
  <1>2. CASE at < NumStations
    BY <1>1, <1>2, StationsAssumption DEF NextStation, Stations
  <1>3. CASE ~ (at < NumStations)
    BY <1>1, <1>3, StationsAssumption DEF NextStation, Stations, Phases
  <1>4. QED
    BY <1>2, <1>3

\* What the automatic notices may name: materials of the model.
LEMMA AutoPlansType ==
  ASSUME TypeOK, NEW s \in Stations, NEW plan \in AutoPlans(s)
  PROVE  plan[1] \in Kind /\ plan[2] \in Material
  <1>1. ScarceMaterial(s) \subseteq Material
    <2>1. Sought[TechTier[s]] \in Seq(Material)
      BY ParameterAssumption
    <2>2. QED
      BY <2>1 DEF ScarceMaterial
  <1>2. SurplusRaw(s) \subseteq Material
    BY StationsAssumption DEF SurplusRaw
  <1>3. CASE plan \in HavePlans(s)
    BY <1>2, <1>3 DEF HavePlans, Kind
  <1>4. CASE plan \in WantPlans(s)
    BY <1>1, <1>4 DEF WantPlans, Kind
  <1>5. QED
    BY <1>3, <1>4 DEF AutoPlans

\* An automatic notice is a poster.
LEMMA AutoPostType ==
  ASSUME TypeOK, AutoPost
  PROVE  TypeOK'
  <1>1. PICK plan \in AutoPlans(at) :
          posters' = [posters EXCEPT ![at] =
                        @ \cup {Poster(nextMsg, plan[1], plan[2], AutoTtl)}]
    BY DEF AutoPost
  <1>2. at \in Stations
    BY DEF TypeOK
  <1>3. Poster(nextMsg, plan[1], plan[2], AutoTtl) \in PosterType
    BY <1>2, AutoPlansType, PosterIsPoster, ParameterAssumption DEF TypeOK
  <1>4. posters' \in [Stations -> SUBSET PosterType]
    BY <1>1, <1>2, <1>3 DEF TypeOK
  <1>5. at' \in Stations /\ phase' \in Phases
    BY NextStationType DEF AutoPost
  <1>6. nextMsg' \in Nat \ {0}
    BY DEF AutoPost, TypeOK
  <1>7. QED
    BY <1>4, <1>5, <1>6 DEF AutoPost, TypeOK, ledger

\* A station without a notice to post changes nothing but the cursor.
LEMMA NoAutoPostType ==
  ASSUME TypeOK, NoAutoPost
  PROVE  TypeOK'
  <1>1. at' \in Stations /\ phase' \in Phases
    BY NextStationType DEF NoAutoPost
  <1>2. QED
    BY <1>1 DEF NoAutoPost, TypeOK, ledger, market

\* What goes on the air is an id with its tick and its station.
LEMMA EmitAndAdvanceType ==
  ASSUME TypeOK, EmitAndAdvance
  PROVE  TypeOK'
  <1>1. posters' \in [Stations -> SUBSET PosterType]
    <2>1. ASSUME NEW s \in Stations, NEW p \in posters[s]
          PROVE  [p EXCEPT !.broadcasted = TRUE] \in PosterType
      <3>1. p \in PosterType
        BY DEF TypeOK
      <3>2. QED
        BY <3>1 DEF PosterType
    <2>2. QED
      BY <2>1 DEF EmitAndAdvance
  <1>2. onAir' \subseteq Nat \X Nat \X Stations
    <2>1. ASSUME NEW s \in Stations
          PROVE  {<<p.id, tick, s>> : p \in Unsent(s)} \subseteq Nat \X Nat \X Stations
      BY DEF Unsent, TypeOK, PosterType
    <2>2. QED
      BY <2>1 DEF EmitAndAdvance, TypeOK
  <1>3. tick' \in Nat /\ phase' \in Phases
    BY DEF EmitAndAdvance, TypeOK, Phases
  <1>4. QED
    BY <1>1, <1>2, <1>3 DEF EmitAndAdvance, TypeOK, ledger, cursor

\* Every step of the engine keeps every variable in its type.
LEMMA StepType == TypeOK /\ [Next]_vars => TypeOK'
  <1> SUFFICES ASSUME TypeOK, [Next]_vars
               PROVE  TypeOK'
    OBVIOUS
  <1>1. CASE Command
    BY <1>1, PostMarketMessageType, StartProductionType, SetCollectorAreaType DEF Command
  <1>2. CASE Tick
    BY <1>2, BeginSettlementType, DeliverType, FailDeliveryType, EndSettlementType,
       RunLineType, IdleLineType, AgePostersType, AutoPostType, NoAutoPostType,
       EmitAndAdvanceType
       DEF Tick
  <1>3. CASE Finished \/ UNCHANGED vars
    BY <1>3 DEF Finished, vars, TypeOK
  <1>4. QED
    BY <1>1, <1>2, <1>3 DEF Next

\* Balances, stocks, reservations and energy never become negative and every
\* record keeps its form, for every instance (apply_station_commands,
\* settle_contracts, update_stations, generate_auto_posters).
THEOREM TypeCorrect == Spec => []TypeOK
  <1>1. Init => TypeOK
    BY InitType
  <1>2. TypeOK /\ [Next]_vars => TypeOK'
    BY StepType
  <1>3. QED
    BY <1>1, <1>2, PTL DEF Spec

(***************************************************************************)
(* Contracts rest on consent                                               *)
(***************************************************************************)

\* The registry: no id of the future, no message of the future.
RegistryInv ==
  \A m \in messages : m.id < nextMsg /\ m.tick <= tick

ConsentInv == TypeOK /\ RegistryInv /\ ContractsAgreed

\* What a step does to messages and contracts: a message is posted, perhaps
\* with a contract, or the registry stays and contracts only change status.
LEMMA OtherStepsKeepTerms ==
  ASSUME TypeOK, [Next]_vars, \A r \in Request : ~ PostMarketMessage(r)
  PROVE  /\ messages' = messages
         /\ nextMsg' \in {nextMsg, nextMsg + 1}
         /\ tick' \in {tick, tick + 1}
         /\ DOMAIN contracts' = DOMAIN contracts
         /\ \A i \in DOMAIN contracts :
              /\ contracts'[i].buyer = contracts[i].buyer
              /\ contracts'[i].seller = contracts[i].seller
              /\ contracts'[i].material = contracts[i].material
              /\ contracts'[i].qty = contracts[i].qty
              /\ contracts'[i].escrow = contracts[i].escrow
              /\ contracts'[i].created = contracts[i].created
              /\ contracts'[i].arrival = contracts[i].arrival
  <1>1. CASE \E s \in Stations, rxn \in Reaction : StartProduction(s, rxn)
    BY <1>1 DEF StartProduction, ledger, market
  <1>2. CASE \E s \in Stations, a \in AreaRequest : SetCollectorArea(s, a)
    BY <1>2 DEF SetCollectorArea, ledger, market
  <1>3. ASSUME NEW i \in due, Deliver(i) \/ FailDelivery(i)
        PROVE  /\ UNCHANGED <<messages, nextMsg, tick>>
               /\ \E o \in Status : contracts' = [contracts EXCEPT ![i].status = o]
    BY <1>3 DEF Deliver, FailDelivery, market, Status
  <1>4. CASE \E i \in due : Deliver(i) \/ FailDelivery(i)
    <2>1. PICK i \in due, o \in Status :
            /\ UNCHANGED <<messages, nextMsg, tick>>
            /\ contracts' = [contracts EXCEPT ![i].status = o]
      BY <1>3, <1>4
    <2>2. i \in DOMAIN contracts /\ contracts[i] \in ContractType
      BY ClosedContractType DEF TypeOK, Status
    <2>3. QED
      BY <2>1, <2>2 DEF ContractType
  <1>5. CASE AutoPost
    BY <1>5 DEF AutoPost, ledger
  <1>6. CASE \/ BeginSettlement \/ EndSettlement \/ RunLine \/ IdleLine
             \/ AgePosters \/ NoAutoPost \/ EmitAndAdvance
    BY <1>6 DEF BeginSettlement, EndSettlement, RunLine, IdleLine, AgePosters,
                NoAutoPost, EmitAndAdvance, ledger, market
  <1>7. CASE Finished \/ UNCHANGED vars
    BY <1>7 DEF Finished, vars
  <1>8. QED
    BY <1>1, <1>2, <1>4, <1>5, <1>6, <1>7 DEF Next, Command, Tick

\* With no contract there is nothing to agree to.
LEMMA NothingAgreed ==
  ASSUME contracts = <<>>
  PROVE  ContractsAgreed
  <1> DEFINE f == [i \in DOMAIN contracts |-> i]
  <1>1. DOMAIN contracts = {}
    OBVIOUS
  <1>2. f \in [DOMAIN contracts -> messages]
    BY <1>1
  <1>3. QED
    BY <1>1, <1>2 DEF ContractsAgreed

\* Contracts that keep their terms rest on the acceptances they rested on.
LEMMA AgreementKept ==
  ASSUME ContractsAgreed, messages \subseteq messages', DOMAIN contracts' = DOMAIN contracts,
         \A i \in DOMAIN contracts :
              /\ contracts'[i].buyer = contracts[i].buyer
              /\ contracts'[i].seller = contracts[i].seller
              /\ contracts'[i].material = contracts[i].material
              /\ contracts'[i].qty = contracts[i].qty
              /\ contracts'[i].escrow = contracts[i].escrow
              /\ contracts'[i].created = contracts[i].created
  PROVE  ContractsAgreed'
  <1>1. PICK f \in [DOMAIN contracts -> messages] :
          /\ \A i \in DOMAIN contracts :
               \E offer \in messages : RestsOn(contracts[i], offer, f[i])
          /\ \A i, j \in DOMAIN contracts : f[i] = f[j] => i = j
    BY DEF ContractsAgreed
  <1>2. f \in [DOMAIN contracts' -> messages']
    BY <1>1
  <1>3. ASSUME NEW i \in DOMAIN contracts
        PROVE  \E offer \in messages' : RestsOn(contracts'[i], offer, f[i])
    <2>1. PICK offer \in messages : RestsOn(contracts[i], offer, f[i])
      BY <1>1
    <2>2. RestsOn(contracts'[i], offer, f[i])
      BY <2>1 DEF RestsOn
    <2>3. QED
      BY <2>2
  <1>4. QED
    BY <1>1, <1>2, <1>3 DEF ContractsAgreed

\* A new contract rests on the message that has just come.
LEMMA AgreementGrows ==
  ASSUME TypeOK, ContractsAgreed, NEW msg, msg \notin messages, messages' = messages \cup {msg},
         NEW c \in ContractType, contracts' = Append(contracts, c),
         NEW offer \in messages, RestsOn(c, offer, msg)
  PROVE  ContractsAgreed'
  <1>1. PICK f \in [DOMAIN contracts -> messages] :
          /\ \A i \in DOMAIN contracts :
               \E o \in messages : RestsOn(contracts[i], o, f[i])
          /\ \A i, j \in DOMAIN contracts : f[i] = f[j] => i = j
    BY DEF ContractsAgreed
  <1> DEFINE n == Len(contracts) + 1
             g == [i \in DOMAIN contracts' |-> IF i = n THEN msg ELSE f[i]]
  <1>2. /\ \A i \in DOMAIN contracts' : i # n => i \in DOMAIN contracts /\ contracts'[i] = contracts[i]
        /\ contracts'[n] = c
    BY DEF TypeOK
  <1> HIDE DEF n
  <1>3. g \in [DOMAIN contracts' -> messages']
    BY <1>1, <1>2
  <1>4. ASSUME NEW i \in DOMAIN contracts'
        PROVE  \E o \in messages' : RestsOn(contracts'[i], o, g[i])
    <2>1. CASE i = n
      BY <1>2, <2>1
    <2>2. CASE i # n
      BY <1>1, <1>2, <2>2
    <2>3. QED
      BY <2>1, <2>2
  <1>5. \A i, j \in DOMAIN contracts' : g[i] = g[j] => i = j
    BY <1>1, <1>2
  <1> HIDE DEF g
  <1>6. QED
    BY <1>3, <1>4, <1>5 DEF ContractsAgreed

\* Every step keeps the registry in order and the contracts agreed.
LEMMA ConsentStep == ConsentInv /\ [Next]_vars => ConsentInv'
  <1> SUFFICES ASSUME TypeOK, RegistryInv, ContractsAgreed, [Next]_vars
               PROVE  RegistryInv' /\ ContractsAgreed'
    BY StepType DEF ConsentInv
  <1>1. ASSUME NEW r \in Request, PostMarketMessage(r)
        PROVE  RegistryInv' /\ ContractsAgreed'
    <2> DEFINE msg == [id |-> nextMsg, tick |-> tick, kind |-> r.kind, from |-> r.from,
                       to |-> r.to, reply |-> r.reply, material |-> r.material,
                       qty |-> r.qty, price |-> r.price, ttl |-> r.ttl]
    <2>1. /\ messages' = messages \cup {msg}
          /\ nextMsg' = nextMsg + 1
          /\ tick' = tick
      BY <1>1 DEF PostMarketMessage
    <2>2. /\ msg.id = nextMsg /\ msg.tick = tick /\ msg.kind = r.kind
          /\ msg \in MessageType
      <3>1. r \in RequestType
        BY InputAssumption
      <3>2. QED
        BY <1>1, <3>1 DEF RequestType, MessageType, PostMarketMessage, Postable, TypeOK
    <2>3. \/ UNCHANGED ledger
          \/ r.kind = "Accept" /\ TryFormContract(msg)
      BY <1>1 DEF PostMarketMessage
    <2> HIDE DEF msg
    <2>4. RegistryInv'
      <3>1. ASSUME NEW m \in messages'
            PROVE  m.id < nextMsg + 1 /\ m.tick <= tick
        <4>1. CASE m = msg
          BY <2>2, <4>1 DEF TypeOK
        <4>2. CASE m \in messages
          BY <4>2, SMTT(30) DEF RegistryInv, TypeOK, MessageType
        <4>3. QED
          BY <2>1, <4>1, <4>2
      <3>2. QED
        BY <2>1, <3>1 DEF RegistryInv
    <2>5. CASE UNCHANGED contracts
      <3>1. DOMAIN contracts' = DOMAIN contracts /\ messages \subseteq messages'
        BY <2>1, <2>5
      <3>2. QED
        BY <2>4, <2>5, <3>1, AgreementKept
    <2>6. ASSUME NEW offer \in messages, NEW travel \in TravelTicks,
                 r.kind = "Accept", Matches(offer, msg),
                 FormContract(NewContract(offer, msg, travel))
          PROVE  ContractsAgreed'
      <3> DEFINE c == NewContract(offer, msg, travel)
      <3>1. /\ c.buyer = msg.from /\ c.seller = offer.from
            /\ c.material = offer.material /\ c.created = tick
            /\ c.qty = AgreedQty(offer, msg) /\ c.escrow = c.qty * offer.price
        BY DEF NewContract
      <3>2. c.qty <= offer.qty /\ c.qty <= msg.qty /\ c \in ContractType
        BY <2>2, <2>6, <3>1, NewContractType DEF TypeOK
      <3>3. contracts' = Append(contracts, c)
        BY <2>6 DEF FormContract
      <3> HIDE DEF c
      <3>4. offer.id < msg.id
        BY <2>2 DEF RegistryInv
      <3>5. RestsOn(c, offer, msg)
        BY <2>2, <2>6, <3>1, <3>2, <3>4 DEF RestsOn, Matches
      <3>6. msg \notin messages
        BY <2>2, SMTT(30) DEF RegistryInv, TypeOK, MessageType
      <3>7. QED
        BY <2>1, <3>2, <3>3, <3>5, <3>6, AgreementGrows
    <2>7. QED
      BY <2>3, <2>4, <2>5, <2>6 DEF TryFormContract, ledger
  <1>2. CASE \A r \in Request : ~ PostMarketMessage(r)
    <2>1. RegistryInv'
      <3>1. messages' = messages /\ nextMsg' \in {nextMsg, nextMsg + 1}
              /\ tick' \in {tick, tick + 1}
        BY <1>2, OtherStepsKeepTerms
      <3>2. nextMsg \in Nat /\ tick \in Nat /\ \A m \in messages : m.id \in Nat /\ m.tick \in Nat
        BY DEF TypeOK, MessageType
      <3>3. \A m \in messages : m.id < nextMsg /\ m.tick <= tick
        BY DEF RegistryInv
      <3>4. \A m \in messages' : m.id < nextMsg' /\ m.tick <= tick'
        BY <3>1, <3>2, <3>3
      <3>5. QED
        BY <3>4 DEF RegistryInv
    <2>2. ContractsAgreed'
      BY <1>2, OtherStepsKeepTerms, AgreementKept
    <2>3. QED
      BY <2>1, <2>2
  <1>3. QED
    BY <1>1, <1>2

LEMMA ConsentInvariant == Spec => []ConsentInv
  <1>1. Init => ConsentInv
    BY InitType, NothingAgreed DEF Init, ConsentInv, RegistryInv
  <1>2. ConsentInv /\ [Next]_vars => ConsentInv'
    BY ConsentStep
  <1>3. QED
    BY <1>1, <1>2, PTL DEF Spec

\* No contract without consent, for any number of stations and any traffic:
\* each rests on an offer of its seller and a later acceptance of its buyer,
\* takes no more than both state and shares its acceptance with no other
\* (try_form_contract).
THEOREM ContractsRestOnConsent == Spec => []ContractsAgreed
  <1>1. ConsentInv => ContractsAgreed
    BY DEF ConsentInv
  <1>2. QED
    BY <1>1, ConsentInvariant, PTL

(***************************************************************************)
(* Contracts close on time                                                 *)
(***************************************************************************)

\* The work list of settle_contracts: it holds contracts that are due, all of
\* them that are still in transit, and nothing outside settlement.
DueTracked ==
  /\ phase # "settle" => due = {}
  /\ \A i \in due : IsDue(contracts[i])
  /\ phase = "settle" => {i \in DOMAIN contracts : IsDue(contracts[i])} \subseteq due

\* NoneOverdue is not inductive: the step out of "settle" needs to know that
\* the empty work list stands for every contract that was due.
OnTimeInv == TypeOK /\ DueTracked /\ NoneOverdue

\* The terms of a contract, one by one.
LEMMA ContractTerms ==
  ASSUME TypeOK, NEW i \in DOMAIN contracts
  PROVE  /\ contracts[i].arrival \in Nat /\ tick \in Nat
         /\ contracts[i].escrow \in Nat
         /\ contracts[i].buyer \in Stations /\ contracts[i].seller \in Stations
  <1>1. contracts[i] \in ContractType /\ tick \in Nat
    BY DEF TypeOK
  <1>2. QED
    BY <1>1 DEF ContractType

\* A new contract is in transit and arrives after the current tick.
LEMMA PostedContracts ==
  ASSUME TypeOK, NEW r \in Request, PostMarketMessage(r)
  PROVE  /\ UNCHANGED <<tick, phase, due>>
         /\ UNCHANGED <<warehouse, lines>>
         /\ phase = "commands"
         /\ \/ UNCHANGED <<credits, reserved, contracts>>
            \/ \E c \in ContractType :
                 /\ FormContract(c)
                 /\ c.status = "InTransit"
                 /\ c.arrival > tick
                 /\ c.buyer # c.seller
                 /\ credits[c.buyer] >= c.escrow
  <1> DEFINE msg == [id |-> nextMsg, tick |-> tick, kind |-> r.kind, from |-> r.from,
                     to |-> r.to, reply |-> r.reply, material |-> r.material,
                     qty |-> r.qty, price |-> r.price, ttl |-> r.ttl]
  <1>1. msg \in MessageType
    <2>1. r \in RequestType
      BY InputAssumption
    <2>2. QED
      BY <2>1 DEF RequestType, MessageType, PostMarketMessage, Postable, TypeOK
  <1>2. TryFormContract(msg) \/ UNCHANGED ledger
    BY DEF PostMarketMessage
  <1> HIDE DEF msg
  <1>3. ASSUME NEW offer \in messages, NEW travel \in TravelTicks,
               Matches(offer, msg), CanHonour(offer, msg),
               FormContract(NewContract(offer, msg, travel))
        PROVE  \E c \in ContractType :
                 /\ FormContract(c)
                 /\ c.status = "InTransit"
                 /\ c.arrival > tick
                 /\ c.buyer # c.seller
                 /\ credits[c.buyer] >= c.escrow
    <2> DEFINE c == NewContract(offer, msg, travel)
    <2>1. c \in ContractType
      BY <1>1, <1>3, NewContractType DEF TypeOK
    <2>2. c.status = "InTransit" /\ c.buyer # c.seller
      BY <1>3 DEF NewContract, Matches
    <2>3. c.arrival > tick
      <3>1. travel \in Nat \ {0}
        BY InputAssumption
      <3>2. QED
        BY <3>1 DEF NewContract, TypeOK
    <2>4. credits[c.buyer] >= c.escrow
      BY <1>3 DEF CanHonour, NewContract
    <2> HIDE DEF c
    <2>5. FormContract(c)
      BY <1>3 DEF c
    <2>6. QED
      BY <2>1, <2>2, <2>3, <2>4, <2>5
  <1>4. UNCHANGED <<tick, phase, due, warehouse, lines>> /\ phase = "commands"
    BY DEF PostMarketMessage, cursor
  <1>5. QED
    BY <1>2, <1>3, <1>4 DEF TryFormContract, ledger

\* Every step keeps the work list complete and no cargo overdue.
LEMMA OnTimeStep == OnTimeInv /\ [Next]_vars => OnTimeInv'
  <1> SUFFICES ASSUME TypeOK, DueTracked, NoneOverdue, [Next]_vars
               PROVE  DueTracked' /\ NoneOverdue'
    BY StepType DEF OnTimeInv
  <1>0. TypeOK'
    BY StepType
  <1>1. ASSUME NEW r \in Request, PostMarketMessage(r)
        PROVE  DueTracked' /\ NoneOverdue'
    <2>1. UNCHANGED <<tick, phase, due>> /\ phase = "commands" /\ due = {}
      BY <1>1, PostedContracts DEF DueTracked
    <2>2. DueTracked'
      BY <2>1 DEF DueTracked
    <2>3. CASE UNCHANGED contracts
      BY <2>1, <2>2, <2>3 DEF NoneOverdue
    <2>4. ASSUME NEW c \in ContractType, FormContract(c), c.arrival > tick
          PROVE  NoneOverdue'
      <3>1. contracts' = Append(contracts, c)
        BY <2>4 DEF FormContract
      <3>2. ASSUME NEW i \in DOMAIN contracts', contracts'[i].status = "InTransit"
            PROVE  contracts'[i].arrival >= tick
        <4>1. CASE i = Len(contracts) + 1
          BY <2>4, <3>1, <4>1 DEF TypeOK, ContractType
        <4>2. CASE i # Len(contracts) + 1
          BY <3>1, <3>2, <4>2 DEF NoneOverdue, TypeOK
        <4>3. QED
          BY <4>1, <4>2
      <3>3. QED
        BY <2>1, <3>2 DEF NoneOverdue
    <2>5. QED
      BY <1>1, <2>2, <2>3, <2>4, PostedContracts
  <1>2. CASE BeginSettlement
    <2>1. /\ due' = {i \in DOMAIN contracts : IsDue(contracts[i])}
          /\ phase' = "settle" /\ tick' = tick /\ contracts' = contracts
      BY <1>2 DEF BeginSettlement, ledger
    <2>2. DueTracked'
      BY <2>1 DEF DueTracked, IsDue
    <2>3. NoneOverdue'
      BY <2>1 DEF NoneOverdue
    <2>4. QED
      BY <2>2, <2>3
  <1>3. ASSUME NEW i \in due, Deliver(i) \/ FailDelivery(i)
        PROVE  DueTracked' /\ NoneOverdue'
    <2>1. PICK o \in {"Settled", "Failed"} :
            contracts' = [contracts EXCEPT ![i].status = o]
      BY <1>3 DEF Deliver, FailDelivery
    <2>2. /\ phase = "settle" /\ due' = due \ {i}
          /\ UNCHANGED <<tick, phase>>
      BY <1>3 DEF Deliver, FailDelivery
    <2>3. i \in DOMAIN contracts /\ contracts[i] \in ContractType
      BY ClosedContractType DEF TypeOK, Status
    <2>4. /\ DOMAIN contracts' = DOMAIN contracts
          /\ contracts'[i].status # "InTransit"
          /\ \A j \in DOMAIN contracts \ {i} : contracts'[j] = contracts[j]
      BY <2>1, <2>3 DEF ContractType
    <2>5. DueTracked'
      BY <2>2, <2>4 DEF DueTracked, IsDue, TypeOK
    <2>6. NoneOverdue'
      BY <2>2, <2>4 DEF NoneOverdue
    <2>7. QED
      BY <2>5, <2>6
  <1>4. CASE EndSettlement
    <2>1. /\ phase = "settle" /\ due = {} /\ due' = {} /\ phase' = "stations"
          /\ UNCHANGED <<tick, contracts>>
      BY <1>4 DEF EndSettlement, ledger
    <2>2. ASSUME NEW i \in DOMAIN contracts, contracts[i].status = "InTransit"
          PROVE  contracts[i].arrival > tick
      <3>1. ~ IsDue(contracts[i])
        BY <2>1 DEF DueTracked
      <3>2. contracts[i].arrival \in Nat /\ tick \in Nat
        BY ContractTerms
      <3>3. QED
        BY <2>2, <3>1, <3>2 DEF IsDue
    <2>3. QED
      BY <2>1, <2>2 DEF DueTracked, NoneOverdue, TypeOK, ContractType
  <1>5. CASE EmitAndAdvance
    <2>1. /\ phase = "emit" /\ due = {} /\ due' = {} /\ phase' = "commands"
          /\ tick' = tick + 1 /\ contracts' = contracts
      BY <1>5 DEF EmitAndAdvance, ledger, cursor, DueTracked
    <2>2. ASSUME NEW i \in DOMAIN contracts, contracts[i].status = "InTransit"
          PROVE  contracts[i].arrival >= tick + 1
      <3>1. contracts[i].arrival \in Nat /\ tick \in Nat
        BY ContractTerms
      <3>2. QED
        BY <2>1, <2>2, <3>1 DEF NoneOverdue
    <2>3. QED
      BY <2>1, <2>2 DEF DueTracked, NoneOverdue
  <1>6. CASE \/ \E s \in Stations, rxn \in Reaction : StartProduction(s, rxn)
             \/ \E s \in Stations, a \in AreaRequest : SetCollectorArea(s, a)
             \/ Finished \/ UNCHANGED vars
    BY <1>6 DEF StartProduction, SetCollectorArea, Finished, vars, ledger, cursor,
                DueTracked, NoneOverdue, IsDue
  <1>7. CASE RunLine \/ IdleLine
    BY <1>7 DEF RunLine, IdleLine, ledger, DueTracked, NoneOverdue, IsDue
  <1>8. CASE AgePosters \/ AutoPost \/ NoAutoPost
    <2>1. /\ phase \in {"stations", "autopost"}
          /\ phase' \in {"stations", "autopost", "emit"}
          /\ UNCHANGED <<tick, contracts, due>>
      BY <1>8 DEF AgePosters, AutoPost, NoAutoPost, NextStation, ledger
    <2>2. QED
      BY <2>1 DEF DueTracked, NoneOverdue, IsDue
  <1>9. QED
    BY <1>1, <1>2, <1>3, <1>4, <1>5, <1>6, <1>7, <1>8 DEF Next, Command, Tick

\* The inductive invariant, for the theorems below.
LEMMA OnTimeInvariant == Spec => []OnTimeInv
  <1>1. Init => OnTimeInv
    BY InitType DEF Init, OnTimeInv, DueTracked, NoneOverdue
  <1>2. OnTimeInv /\ [Next]_vars => OnTimeInv'
    BY OnTimeStep
  <1>3. QED
    BY <1>1, <1>2, PTL DEF Spec

\* Cargo is never late, whatever the travel times: a contract in transit is
\* not past its arrival, and after settlement not at it (settle_contracts).
THEOREM CargoIsOnTime == Spec => []NoneOverdue
  <1>1. OnTimeInv => NoneOverdue
    BY DEF OnTimeInv
  <1>2. QED
    BY <1>1, OnTimeInvariant, PTL

(***************************************************************************)
(* The engine implements EscrowBank                                        *)
(***************************************************************************)

\* Closing contract i closes deal i; appending a contract appends its deal.
LEMMA DealsFollowContracts ==
  ASSUME TypeOK
  PROVE  /\ Deals \in Seq(Bank!DealType)
         /\ Len(Deals) = Len(contracts)
         /\ DOMAIN Deals = DOMAIN contracts
         /\ \A i \in DOMAIN contracts : Deals[i] = Deal(contracts[i])
  <1>1. ASSUME NEW c \in ContractType
        PROVE  Deal(c) \in Bank!DealType
    BY <1>1 DEF Deal, ContractType, Bank!DealType, Status
  <1>2. DOMAIN contracts = 1..Len(contracts) /\ Len(contracts) \in Nat
    BY DEF TypeOK
  <1>3. ASSUME NEW i \in DOMAIN contracts
        PROVE  Deal(contracts[i]) \in Bank!DealType
    BY <1>1 DEF TypeOK
  <1>4. Deals \in [1..Len(contracts) -> Bank!DealType]
    BY <1>2, <1>3 DEF Deals
  <1>5. QED
    BY <1>2, <1>4 DEF Deals

\* A posted message strikes a deal of the bank or leaves it alone.
LEMMA BankStrike ==
  ASSUME TypeOK, TypeOK', NEW c \in ContractType, FormContract(c),
         c.status = "InTransit", c.arrival > tick, c.buyer # c.seller,
         credits[c.buyer] >= c.escrow, tick' = tick
  PROVE  Bank!Strike
  <1> DEFINE d == Deal(c)
  <1>1. contracts' = Append(contracts, c)
    BY DEF FormContract
  <1>2. Len(contracts) \in Nat /\ DOMAIN contracts = 1..Len(contracts)
    BY DEF TypeOK
  <1>3. /\ Len(contracts') = Len(contracts) + 1
        /\ DOMAIN contracts' = 1..(Len(contracts) + 1)
        /\ contracts'[Len(contracts) + 1] = c
        /\ \A i \in DOMAIN contracts : contracts'[i] = contracts[i]
    <2>1. contracts \in Seq(ContractType) /\ contracts' \in Seq(ContractType)
      BY DEF TypeOK
    <2>2. QED
      BY <1>1, <1>2, <2>1, AppendProperties
  <1>4. Deals' = [i \in 1..(Len(contracts) + 1) |-> Deal(contracts'[i])]
    BY <1>3 DEF Deals
  <1>5. d \in Bank!DealType
    BY DEF Deal, ContractType, Bank!DealType, Status
  <1>6. Deals' \in Seq(Bank!DealType) /\ Len(Deals') = Len(Deals) + 1
    <2>1. ASSUME NEW i \in 1..(Len(contracts) + 1)
          PROVE  Deal(contracts'[i]) \in Bank!DealType
      <3>1. CASE i = Len(contracts) + 1
        BY <1>3, <1>5, <3>1
      <3>2. CASE i # Len(contracts) + 1
        <4>1. i \in DOMAIN contracts
          BY <1>2, <3>2
        <4>2. QED
          BY <1>3, <4>1, DealsFollowContracts
      <3>3. QED
        BY <3>1, <3>2
    <2>2. Deals' \in [1..(Len(contracts) + 1) -> Bank!DealType]
      BY <1>4, <2>1
    <2>3. QED
      BY <1>2, <2>2, DealsFollowContracts
  <1>7. Deals' = Append(Deals, d)
    <2>1. /\ Append(Deals, d) \in Seq(Bank!DealType)
          /\ Len(Append(Deals, d)) = Len(Deals')
          /\ Append(Deals, d)[Len(contracts) + 1] = d
          /\ \A i \in 1..Len(contracts) : Append(Deals, d)[i] = Deals[i]
      BY <1>5, <1>6, DealsFollowContracts, AppendProperties
    <2>2. ASSUME NEW i \in 1..Len(Deals')
          PROVE  Deals'[i] = Append(Deals, d)[i]
      <3>1. i \in 1..(Len(contracts) + 1) /\ Deals'[i] = Deal(contracts'[i])
        BY <1>4, <1>6, DealsFollowContracts
      <3>2. CASE i = Len(contracts) + 1
        BY <1>3, <2>1, <3>1, <3>2
      <3>3. CASE i # Len(contracts) + 1
        <4>1. i \in DOMAIN contracts
          BY <1>2, <3>1, <3>3
        <4>2. QED
          BY <1>2, <1>3, <2>1, <3>1, <4>1, DealsFollowContracts
      <3>4. QED
        BY <3>2, <3>3
    <2> HIDE DEF d
    <2>3. QED
      BY <1>6, <2>1, <2>2, SeqEqual
  <1>8. Deals'[Len(Deals) + 1] = d
    BY <1>3, <1>4, DealsFollowContracts, <1>2
  <1>9. /\ d.buyer = c.buyer /\ d.seller = c.seller /\ d.price = c.escrow
        /\ d.due = c.arrival /\ d.status = c.status
    BY DEF Deal
  <1> HIDE DEF d
  <1>10. credits' = [credits EXCEPT ![d.buyer] = @ - d.price]
    BY <1>9 DEF FormContract
  <1>11. QED
    BY <1>5, <1>6, <1>7, <1>8, <1>9, <1>10 DEF Bank!Strike

\* Closing a contract pays the seller or refunds the buyer.
LEMMA BankClose ==
  ASSUME TypeOK, TypeOK', NEW i \in due, DueTracked, Deliver(i) \/ FailDelivery(i)
  PROVE  \E j \in DOMAIN Deals : Bank!PaySeller(j) \/ Bank!RefundBuyer(j)
  <1> DEFINE c == contracts[i]
  <1>1. i \in DOMAIN contracts /\ c \in ContractType
    BY ClosedContractType DEF TypeOK, Status
  <1>2. i \in DOMAIN Deals /\ Deals[i] = Deal(c)
    BY <1>1, DealsFollowContracts
  <1>3. c.status = "InTransit" /\ c.arrival <= tick
    BY DEF DueTracked, IsDue
  <1>4. /\ Deals[i].buyer = c.buyer /\ Deals[i].seller = c.seller
        /\ Deals[i].price = c.escrow /\ Deals[i].due = c.arrival
        /\ Deals[i].status = c.status
    BY <1>2 DEF Deal
  <1>5. ASSUME NEW o \in Status, contracts' = [contracts EXCEPT ![i].status = o]
        PROVE  Deals' = [Deals EXCEPT ![i].status = o]
    <2>1. DOMAIN contracts' = DOMAIN contracts
      BY <1>1, <1>5
    <2>2. Deals' = [j \in DOMAIN contracts |-> Deal(contracts'[j])]
      BY <2>1 DEF Deals
    <2>3. [Deals EXCEPT ![i].status = o] =
             [j \in DOMAIN contracts |->
                IF j = i THEN [Deals[i] EXCEPT !.status = o] ELSE Deals[j]]
      BY <1>2, DealsFollowContracts
    <2>4. Deal(contracts'[i]) = [Deals[i] EXCEPT !.status = o]
      <3>1. contracts'[i] = [c EXCEPT !.status = o]
        BY <1>1, <1>5
      <3>2. QED
        BY <1>1, <1>2, <3>1 DEF Deal, ContractType
    <2>5. \A j \in DOMAIN contracts \ {i} : Deal(contracts'[j]) = Deals[j]
      BY <1>5, DealsFollowContracts
    <2>6. QED
      BY <2>2, <2>3, <2>4, <2>5
  <1>6. CASE Deliver(i)
    <2>1. /\ credits' = [credits EXCEPT ![c.seller] = @ + c.escrow]
          /\ contracts' = [contracts EXCEPT ![i].status = "Settled"]
          /\ tick' = tick
      BY <1>6 DEF Deliver
    <2>2. Deals' = [Deals EXCEPT ![i].status = "Settled"]
      BY <1>5, <2>1 DEF Status
    <2> HIDE DEF c
    <2>3. Bank!PaySeller(i)
      BY <1>3, <1>4, <2>1, <2>2 DEF Bank!PaySeller, Bank!Pay, Bank!Open
    <2>4. QED
      BY <1>2, <2>3
  <1>7. CASE FailDelivery(i)
    <2>1. /\ credits' = [credits EXCEPT ![c.buyer] = @ + c.escrow]
          /\ contracts' = [contracts EXCEPT ![i].status = "Failed"]
          /\ tick' = tick
      BY <1>7 DEF FailDelivery
    <2>2. Deals' = [Deals EXCEPT ![i].status = "Failed"]
      BY <1>5, <2>1 DEF Status
    <2> HIDE DEF c
    <2>3. Bank!RefundBuyer(i)
      BY <1>3, <1>4, <2>1, <2>2 DEF Bank!RefundBuyer, Bank!Pay, Bank!Open
    <2>4. QED
      BY <1>2, <2>3
  <1>8. QED
    BY <1>6, <1>7

\* Every step of the engine is a step of the bank or a stutter.
LEMMA BankStep ==
  ASSUME OnTimeInv, TypeOK', [Next]_vars
  PROVE  [Bank!Next]_<<tick, credits, Deals>>
  <1> USE DEF OnTimeInv
  <1>1. ASSUME UNCHANGED <<tick, credits, contracts>>
        PROVE  UNCHANGED <<tick, credits, Deals>>
    BY <1>1 DEF Deals
  <1>2. ASSUME NEW r \in Request, PostMarketMessage(r)
        PROVE  Bank!Strike \/ UNCHANGED <<tick, credits, contracts>>
    BY <1>2, PostedContracts, BankStrike
  <1>3. ASSUME NEW i \in due, Deliver(i) \/ FailDelivery(i)
        PROVE  \E j \in DOMAIN Deals : Bank!PaySeller(j) \/ Bank!RefundBuyer(j)
    BY <1>3, BankClose
  <1>4. CASE EmitAndAdvance
    <2>1. /\ phase = "emit" /\ tick' = tick + 1
          /\ UNCHANGED <<credits, contracts>>
      BY <1>4 DEF EmitAndAdvance, ledger
    <2>2. \A i \in DOMAIN Deals : Bank!Open(i) => Deals[i].due > tick
      BY <2>1, DealsFollowContracts DEF NoneOverdue, Bank!Open, Deal
    <2>3. Deals' = Deals
      BY <2>1 DEF Deals
    <2>4. QED
      BY <2>1, <2>2, <2>3 DEF Bank!Next, Bank!Advance
  <1>5. CASE \/ \E s \in Stations, rxn \in Reaction : StartProduction(s, rxn)
             \/ \E s \in Stations, a \in AreaRequest : SetCollectorArea(s, a)
             \/ BeginSettlement \/ EndSettlement \/ RunLine \/ IdleLine
             \/ AgePosters \/ AutoPost \/ NoAutoPost \/ Finished \/ UNCHANGED vars
    <2>1. UNCHANGED <<tick, credits, contracts>>
      BY <1>5 DEF StartProduction, SetCollectorArea, BeginSettlement, EndSettlement,
                  RunLine, IdleLine, AgePosters, AutoPost, NoAutoPost, Finished,
                  vars, ledger
    <2>2. QED
      BY <1>1, <2>1
  <1>6. QED
    BY <1>1, <1>2, <1>3, <1>4, <1>5 DEF Next, Command, Tick, Bank!Next

\* The contracts keep the promise of EscrowBank: escrow is taken whole when a
\* contract forms, and paid whole, once, at the tick of arrival, to the seller
\* or back to the buyer (try_form_contract, settle_contracts).
THEOREM EngineImplementsEscrowBank == Spec => ImplementsEscrowBank
  <1>1. Init => Bank!Init
    BY DEF Init, Bank!Init, Deals
  <1>2. OnTimeInv /\ OnTimeInv' /\ [Next]_vars => [Bank!Next]_<<tick, credits, Deals>>
    BY BankStep DEF OnTimeInv
  <1>3. QED
    BY <1>1, <1>2, OnTimeInvariant, PTL DEF Spec, ImplementsEscrowBank, Bank!Spec

(***************************************************************************)
(* A message is on the air once at most                                    *)
(***************************************************************************)

\* BroadcastOnce needs the ids: posters have ids already allocated, no two
\* posters share one, and one that is still unsent has never been on the air.
PosterIds ==
  /\ \A s \in Stations : \A p \in posters[s] : p.id < nextMsg
  /\ \A s, t \in Stations : \A p \in posters[s], q \in posters[t] :
       p.id = q.id => s = t /\ p = q

Fresh ==
  /\ \A a \in onAir : a[1] < nextMsg
  /\ \A s \in Stations : \A p \in Unsent(s), a \in onAir : a[1] # p.id

RadioInv == TypeOK /\ PosterIds /\ Fresh /\ BroadcastOnce

\* A new poster under a new id disturbs none of the four.
LEMMA NewPosterKeepsRadio ==
  ASSUME RadioInv, NEW s \in Stations, NEW p, p.id = nextMsg,
         posters' = [posters EXCEPT ![s] = @ \cup {p}],
         nextMsg' = nextMsg + 1, onAir' = onAir
  PROVE  PosterIds' /\ Fresh' /\ BroadcastOnce'
  <1> USE DEF RadioInv
  <1>0. nextMsg \in Nat
    BY DEF TypeOK
  <1>1. \A t \in Stations : \A q \in posters'[t] :
          \/ q \in posters[t]
          \/ t = s /\ q = p
    BY DEF TypeOK
  <1>2. \A t \in Stations : \A q \in posters[t] : q.id \in Nat /\ q.id < nextMsg
    BY DEF PosterIds, TypeOK, PosterType
  <1>3. \A a \in onAir : a[1] \in Nat /\ a[1] < nextMsg
    BY DEF Fresh, TypeOK
  <1>4. PosterIds'
    BY <1>0, <1>1, <1>2 DEF PosterIds
  <1>5. Fresh'
    BY <1>0, <1>1, <1>2, <1>3 DEF Fresh, Unsent
  <1>6. BroadcastOnce'
    BY DEF BroadcastOnce
  <1>7. QED
    BY <1>4, <1>5, <1>6

\* Every step keeps the posters and the air consistent.
LEMMA RadioStep == RadioInv /\ [Next]_vars => RadioInv'
  <1> SUFFICES ASSUME RadioInv, [Next]_vars
               PROVE  PosterIds' /\ Fresh' /\ BroadcastOnce'
    BY StepType DEF RadioInv
  <1>0. TypeOK /\ PosterIds /\ Fresh /\ BroadcastOnce
    BY DEF RadioInv
  <1>1. ASSUME UNCHANGED <<posters, onAir>>, nextMsg' \in {nextMsg, nextMsg + 1}
        PROVE  PosterIds' /\ Fresh' /\ BroadcastOnce'
    <2>1. PosterIds'
      BY <1>0, <1>1 DEF PosterIds, TypeOK, PosterType
    <2>2. Fresh'
      BY <1>0, <1>1 DEF Fresh, Unsent, TypeOK
    <2>3. QED
      BY <1>0, <1>1, <2>1, <2>2 DEF BroadcastOnce
  <1>2. ASSUME NEW r \in Request, PostMarketMessage(r)
        PROVE  PosterIds' /\ Fresh' /\ BroadcastOnce'
    <2>1. /\ nextMsg' = nextMsg + 1 /\ onAir' = onAir /\ r.from \in Stations
          /\ \/ posters' = posters
             \/ posters' = [posters EXCEPT ![r.from] =
                              @ \cup {Poster(nextMsg, r.kind, r.material, r.ttl)}]
      BY <1>2 DEF PostMarketMessage, Postable
    <2>2. Poster(nextMsg, r.kind, r.material, r.ttl).id = nextMsg
      BY DEF Poster
    <2>3. QED
      BY <1>1, <2>1, <2>2, NewPosterKeepsRadio
  <1>3. CASE AutoPost
    <2>1. PICK plan \in AutoPlans(at) :
            posters' = [posters EXCEPT ![at] =
                          @ \cup {Poster(nextMsg, plan[1], plan[2], AutoTtl)}]
      BY <1>3 DEF AutoPost
    <2>2. /\ nextMsg' = nextMsg + 1 /\ onAir' = onAir /\ at \in Stations
          /\ Poster(nextMsg, plan[1], plan[2], AutoTtl).id = nextMsg
      BY <1>0, <1>3 DEF AutoPost, Poster, TypeOK
    <2>3. QED
      BY <2>1, <2>2, NewPosterKeepsRadio
  <1>4. CASE AgePosters
    <2>1. posters' = [posters EXCEPT ![at] = Aged(@)] /\ at \in Stations
            /\ UNCHANGED <<nextMsg, onAir>>
      BY <1>0, <1>4 DEF AgePosters, TypeOK
    <2>2. ASSUME NEW p \in Aged(posters[at])
          PROVE  \E q \in posters[at] :
                   /\ p.id = q.id /\ p.broadcasted = q.broadcasted
                   /\ p = [q EXCEPT !.remaining = @ - 1]
      <3>1. PICK q \in posters[at] : p = [q EXCEPT !.remaining = @ - 1]
        BY DEF Aged
      <3>2. q \in PosterType
        BY <1>0 DEF TypeOK
      <3>3. QED
        BY <3>1, <3>2 DEF PosterType
    <2>3. \A s \in Stations : posters'[s] = IF s = at THEN Aged(posters[at]) ELSE posters[s]
      BY <1>0, <2>1 DEF TypeOK
    <2>4. PosterIds'
      <3>1. \A s \in Stations : \A p \in posters'[s] : p.id < nextMsg
        BY <1>0, <2>2, <2>3 DEF PosterIds
      <3>2. ASSUME NEW s \in Stations, NEW t \in Stations,
                   NEW p \in posters'[s], NEW q \in posters'[t], p.id = q.id
            PROVE  s = t /\ p = q
        <4>1. PICK p0 \in posters[s] :
                /\ p.id = p0.id
                /\ p = IF s = at THEN [p0 EXCEPT !.remaining = @ - 1] ELSE p0
          BY <2>2, <2>3
        <4>2. PICK q0 \in posters[t] :
                /\ q.id = q0.id
                /\ q = IF t = at THEN [q0 EXCEPT !.remaining = @ - 1] ELSE q0
          BY <2>2, <2>3
        <4>3. s = t /\ p0 = q0
          <5>1. p0.id = q0.id
            BY <3>2, <4>1, <4>2
          <5>2. QED
            BY <1>0, <5>1 DEF PosterIds
        <4>4. QED
          BY <4>1, <4>2, <4>3
      <3>3. QED
        BY <2>1, <3>1, <3>2 DEF PosterIds
    <2>5. Fresh'
      BY <1>0, <2>1, <2>2, <2>3 DEF Fresh, Unsent
    <2>6. QED
      BY <1>0, <2>1, <2>4, <2>5 DEF BroadcastOnce
  <1>5. CASE EmitAndAdvance
    <2>1. /\ nextMsg' = nextMsg
          /\ onAir' = onAir \cup
               UNION {{<<p.id, tick, s>> : p \in Unsent(s)} : s \in Stations}
          /\ posters' = [s \in Stations |->
                           {[p EXCEPT !.broadcasted = TRUE] : p \in posters[s]}]
      BY <1>5 DEF EmitAndAdvance
    <2>2. ASSUME NEW s \in Stations, NEW p \in posters'[s]
          PROVE  \E q \in posters[s] :
                   /\ p = [q EXCEPT !.broadcasted = TRUE]
                   /\ p.id = q.id /\ p.broadcasted
      <3>1. PICK q \in posters[s] : p = [q EXCEPT !.broadcasted = TRUE]
        BY <2>1
      <3>2. q \in PosterType
        BY <1>0 DEF TypeOK
      <3>3. QED
        BY <3>1, <3>2 DEF PosterType
    <2>3. ASSUME NEW a \in onAir', a \notin onAir
          PROVE  \E s \in Stations : \E p \in Unsent(s) : a = <<p.id, tick, s>>
      BY <2>1, <2>3
    <2>4. PosterIds'
      <3>1. \A s \in Stations : \A p \in posters'[s] : p.id < nextMsg
        BY <1>0, <2>2 DEF PosterIds
      <3>2. ASSUME NEW s \in Stations, NEW t \in Stations,
                   NEW p \in posters'[s], NEW q \in posters'[t], p.id = q.id
            PROVE  s = t /\ p = q
        <4>1. PICK p0 \in posters[s] :
                p = [p0 EXCEPT !.broadcasted = TRUE] /\ p.id = p0.id
          BY <2>2
        <4>2. PICK q0 \in posters[t] :
                q = [q0 EXCEPT !.broadcasted = TRUE] /\ q.id = q0.id
          BY <2>2
        <4>3. s = t /\ p0 = q0
          <5>1. p0.id = q0.id
            BY <3>2, <4>1, <4>2
          <5>2. QED
            BY <1>0, <5>1 DEF PosterIds
        <4>4. QED
          BY <4>1, <4>2, <4>3
      <3>3. QED
        BY <2>1, <3>1, <3>2 DEF PosterIds
    <2>5. Fresh'
      <3>1. ASSUME NEW a \in onAir'
            PROVE  a[1] < nextMsg
        BY <1>0, <2>3 DEF Fresh, PosterIds, Unsent
      <3>2. \A s \in Stations : Unsent(s)' = {}
        BY <2>2 DEF Unsent
      <3>3. QED
        BY <2>1, <3>1, <3>2 DEF Fresh
    <2>6. BroadcastOnce'
      <3>1. ASSUME NEW a \in onAir', NEW b \in onAir', a[1] = b[1]
            PROVE  a = b
        <4>1. CASE a \in onAir /\ b \in onAir
          BY <1>0, <3>1, <4>1 DEF BroadcastOnce
        <4>2. CASE a \in onAir /\ b \notin onAir
          BY <1>0, <2>3, <3>1, <4>2 DEF Fresh
        <4>3. CASE a \notin onAir /\ b \in onAir
          BY <1>0, <2>3, <3>1, <4>3 DEF Fresh
        <4>4. CASE a \notin onAir /\ b \notin onAir
          <5>1. PICK s \in Stations : \E p \in Unsent(s) : a = <<p.id, tick, s>>
            BY <2>3, <4>4
          <5>2. PICK p \in Unsent(s) : a = <<p.id, tick, s>>
            BY <5>1
          <5>3. PICK u \in Stations : \E q \in Unsent(u) : b = <<q.id, tick, u>>
            BY <2>3, <4>4
          <5>4. PICK q \in Unsent(u) : b = <<q.id, tick, u>>
            BY <5>3
          <5>5. p \in posters[s] /\ q \in posters[u] /\ p.id = q.id
            BY <3>1, <5>2, <5>4 DEF Unsent
          <5>6. s = u /\ p = q
            BY <1>0, <5>5 DEF PosterIds
          <5>7. QED
            BY <5>2, <5>4, <5>6
        <4>5. QED
          BY <4>1, <4>2, <4>3, <4>4
      <3>2. QED
        BY <3>1 DEF BroadcastOnce
    <2>7. QED
      BY <2>4, <2>5, <2>6
  <1>6. CASE \/ \E s \in Stations, rxn \in Reaction : StartProduction(s, rxn)
             \/ \E s \in Stations, a \in AreaRequest : SetCollectorArea(s, a)
             \/ BeginSettlement \/ (\E i \in due : Deliver(i) \/ FailDelivery(i))
             \/ EndSettlement \/ RunLine \/ IdleLine \/ NoAutoPost \/ Finished
             \/ UNCHANGED vars
    <2>1. UNCHANGED <<posters, nextMsg, onAir>>
      BY <1>6 DEF StartProduction, SetCollectorArea, BeginSettlement, Deliver,
                  FailDelivery, EndSettlement, RunLine, IdleLine, NoAutoPost,
                  Finished, vars, market
    <2>2. QED
      BY <1>1, <2>1
  <1>7. QED
    BY <1>2, <1>3, <1>4, <1>5, <1>6 DEF Next, Command, Tick

LEMMA RadioInvariant == Spec => []RadioInv
  <1>1. Init => RadioInv
    BY InitType DEF Init, RadioInv, PosterIds, Fresh, BroadcastOnce, Unsent
  <1>2. RadioInv /\ [Next]_vars => RadioInv'
    BY RadioStep
  <1>3. QED
    BY <1>1, <1>2, PTL DEF Spec

\* Whoever posts and however posters age, no message is broadcast twice
\* (the broadcasted flag of emit_market_broadcasts).
THEOREM NoRebroadcast == Spec => []BroadcastOnce
  <1>1. RadioInv => BroadcastOnce
    BY DEF RadioInv
  <1>2. QED
    BY <1>1, RadioInvariant, PTL

(***************************************************************************)
(* Reservations                                                            *)
(***************************************************************************)

\* A delivery takes as much from the seller's stock as it releases, so stock
\* that covered the reservations still does, at every station.
LEMMA DeliveryKeepsCover ==
  ASSUME TypeOK, NEW i \in due, Deliver(i),
         NEW s \in Stations, NEW m \in Material, reserved[s][m] <= warehouse[s][m]
  PROVE  reserved'[s][m] <= warehouse'[s][m]
  <1> DEFINE c == contracts[i]
  <1>1. /\ c \in ContractType
        /\ warehouse \in [Stations -> [Material -> Nat]]
        /\ reserved \in [Stations -> [Material -> Nat]]
    BY DEF TypeOK, Stockpile
  <1>2. /\ c.buyer \in Stations /\ c.seller \in Stations
        /\ c.material \in Material /\ c.qty \in Nat
    BY <1>1 DEF ContractType
  <1>3. /\ warehouse[c.seller][c.material] >= c.qty
        /\ warehouse' = [Unloaded(c) EXCEPT ![c.buyer][c.material] = @ + c.qty]
        /\ reserved' = [reserved EXCEPT ![c.seller][c.material] = Released(c)]
    BY DEF Deliver, Deliverable
  <1> HIDE DEF c
  <1>4. warehouse'[s][m] >= Unloaded(c)[s][m]
    BY <1>1, <1>2, <1>3 DEF Unloaded
  <1>5. CASE s = c.seller /\ m = c.material
    <2>1. Unloaded(c)[s][m] = warehouse[s][m] - c.qty /\ reserved'[s][m] = Released(c)
      BY <1>1, <1>2, <1>3, <1>5 DEF Unloaded
    <2>2. reserved[s][m] \in Nat /\ warehouse[s][m] \in Nat /\ warehouse'[s][m] \in Int
      BY <1>1, <1>2, <1>3 DEF Unloaded
    <2>3. Released(c) = IF reserved[s][m] > c.qty THEN reserved[s][m] - c.qty ELSE 0
      BY <1>5 DEF Released
    <2>4. QED
      BY <1>2, <1>3, <1>4, <1>5, <2>1, <2>2, <2>3
  <1>6. CASE ~ (s = c.seller /\ m = c.material)
    <2>1. Unloaded(c)[s][m] = warehouse[s][m] /\ reserved'[s][m] = reserved[s][m]
      BY <1>1, <1>2, <1>3, <1>6 DEF Unloaded
    <2>2. reserved[s][m] \in Nat /\ warehouse[s][m] \in Nat /\ warehouse'[s][m] \in Int
      BY <1>1, <1>2, <1>3 DEF Unloaded
    <2>3. QED
      BY <1>4, <2>1, <2>2
  <1>7. QED
    BY <1>5, <1>6

\* A contract reserves no more than is available.
LEMMA FormingKeepsCover ==
  ASSUME TypeOK, NEW offer \in messages, NEW acc, NEW travel \in TravelTicks,
         CanHonour(offer, acc), acc.qty \in Nat,
         FormContract(NewContract(offer, acc, travel)),
         NEW s \in Stations, NEW m \in Material, reserved[s][m] <= warehouse[s][m]
  PROVE  reserved'[s][m] <= warehouse[s][m]
  <1> DEFINE q == AgreedQty(offer, acc)
  <1>1. /\ offer.from \in Stations /\ offer.material \in Material /\ offer.qty \in Nat
        /\ warehouse \in [Stations -> [Material -> Nat]]
        /\ reserved \in [Stations -> [Material -> Nat]]
    BY DEF TypeOK, Stockpile, MessageType
  <1>2. q \in Nat
    BY <1>1 DEF AgreedQty
  <1>3. reserved' = [reserved EXCEPT ![offer.from][offer.material] = @ + q]
    BY DEF FormContract, NewContract
  <1>4. warehouse[offer.from][offer.material] - reserved[offer.from][offer.material] >= q
    BY DEF CanHonour, Available
  <1> HIDE DEF q
  <1>5. CASE s = offer.from /\ m = offer.material
    BY <1>1, <1>2, <1>3, <1>4, <1>5
  <1>6. CASE ~ (s = offer.from /\ m = offer.material)
    BY <1>1, <1>3, <1>6
  <1>7. QED
    BY <1>5, <1>6

CoverInv == TypeOK /\ IdleReservesInStock

\* Every step keeps the stock of an idle station above its reservations.
LEMMA CoverStep ==
  ASSUME CoverInv, [Next]_vars
  PROVE  CoverInv'
  <1>1. TypeOK /\ TypeOK'
    BY StepType DEF CoverInv
  <1> SUFFICES ASSUME NEW s \in Stations, NEW m \in Material, lines'[s] = <<>>
               PROVE  reserved'[s][m] <= warehouse'[s][m]
    BY <1>1 DEF CoverInv, IdleReservesInStock
  <1>2. \/ lines[s] = <<>> /\ reserved[s][m] <= warehouse[s][m]
        \/ RunLine /\ s = at
        \/ \E rxn \in Reaction : StartProduction(s, rxn)
    <2>1. lines[s] = <<>> => reserved[s][m] <= warehouse[s][m]
      BY DEF CoverInv, IdleReservesInStock
    <2>2. CASE UNCHANGED lines
      BY <2>1, <2>2
    <2>3. ASSUME NEW t \in Stations, NEW rxn \in Reaction, StartProduction(t, rxn), t # s
          PROVE  lines[s] = <<>>
      BY <1>1, <2>3 DEF StartProduction, TypeOK
    <2>4. CASE RunLine /\ s # at
      BY <1>1, <2>1, <2>4 DEF RunLine, TypeOK
    <2>5. QED
      BY <2>1, <2>2, <2>3, <2>4 DEF Next, Command, Tick, vars, PostMarketMessage,
         SetCollectorArea, BeginSettlement, Deliver, FailDelivery, EndSettlement,
         IdleLine, AgePosters, AutoPost, NoAutoPost, EmitAndAdvance, Finished
  <1>3. CASE \E rxn \in Reaction : StartProduction(s, rxn)
    <2>1. PICK rxn \in Reaction :
            lines' = [lines EXCEPT ![s] = Append(@, [reaction |-> rxn, progress |-> 0])]
      BY <1>3 DEF StartProduction
    <2>2. lines'[s] = Append(lines[s], [reaction |-> rxn, progress |-> 0])
      BY <1>1, <2>1 DEF TypeOK
    <2>3. lines[s] \in Seq(LineType) /\ [reaction |-> rxn, progress |-> 0] \in LineType
      BY <1>1 DEF TypeOK, LineType
    <2>4. Len(lines'[s]) = Len(lines[s]) + 1 /\ Len(lines[s]) \in Nat
      BY <2>2, <2>3
    <2>5. QED
      BY <2>4
  <1>4. CASE RunLine /\ s = at
    <2>1. line \in DOMAIN lines[s] /\ lines[s] \in Seq(LineType)
      BY <1>1, <1>4 DEF RunLine, TypeOK
    <2>2. PICK p : lines'[s] = [lines[s] EXCEPT ![line].progress = p]
      BY <1>1, <1>4 DEF RunLine, TypeOK
    <2>3. DOMAIN lines'[s] = DOMAIN lines[s]
      BY <2>2
    <2>4. QED
      BY <2>1, <2>3
  <1>5. CASE lines[s] = <<>> /\ reserved[s][m] <= warehouse[s][m]
    <2>1. CASE \E r \in Request : PostMarketMessage(r)
      <3>1. PICK r \in Request : PostMarketMessage(r)
        BY <2>1
      <3> DEFINE msg == [id |-> nextMsg, tick |-> tick, kind |-> r.kind, from |-> r.from,
                         to |-> r.to, reply |-> r.reply, material |-> r.material,
                         qty |-> r.qty, price |-> r.price, ttl |-> r.ttl]
      <3>2. warehouse' = warehouse /\ (TryFormContract(msg) \/ UNCHANGED ledger)
        BY <3>1 DEF PostMarketMessage
      <3>3. msg.qty \in Nat
        BY InputAssumption DEF RequestType
      <3> HIDE DEF msg
      <3>4. ASSUME NEW offer \in messages, NEW travel \in TravelTicks,
                   CanHonour(offer, msg), FormContract(NewContract(offer, msg, travel))
            PROVE  reserved'[s][m] <= warehouse'[s][m]
        BY <1>1, <1>5, <3>2, <3>3, <3>4, FormingKeepsCover
      <3>5. QED
        BY <1>5, <3>2, <3>4 DEF TryFormContract, ledger
    <2>2. CASE \E i \in due : Deliver(i)
      BY <1>1, <1>5, <2>2, DeliveryKeepsCover
    <2>3. CASE RunLine /\ s # at
      BY <1>1, <1>5, <2>3 DEF RunLine, ledger, TypeOK
    <2>4. CASE UNCHANGED <<reserved, warehouse>>
      BY <1>5, <2>4
    <2>5. QED
      BY <1>4, <2>1, <2>2, <2>3, <2>4 DEF Next, Command, Tick, vars, ledger, StartProduction,
         SetCollectorArea, BeginSettlement, FailDelivery, EndSettlement,
         IdleLine, AgePosters, AutoPost, NoAutoPost, EmitAndAdvance, Finished
  <1>6. QED
    BY <1>2, <1>3, <1>4, <1>5

\* For any stock, traffic and recipes, at a station that has never started a
\* production line what is reserved is there (try_form_contract,
\* settle_contracts); the run smelted_reservation shows that a line breaks it.
THEOREM IdleStationsKeepReserves == Spec => []IdleReservesInStock
  <1>1. Init => CoverInv
    <2>1. ASSUME Init, NEW s \in Stations, NEW m \in Material
          PROVE  reserved[s][m] <= warehouse[s][m]
      <3>1. warehouse[s][m] \in Nat /\ reserved[s][m] = 0
        BY <2>1, InitType DEF Init, TypeOK, Stockpile
      <3>2. QED
        BY <3>1
    <2>2. QED
      BY <2>1, InitType DEF CoverInv, IdleReservesInStock
  <1>2. CoverInv /\ [Next]_vars => CoverInv'
    BY CoverStep
  <1>3. CoverInv => IdleReservesInStock
    BY DEF CoverInv
  <1>4. QED
    BY <1>1, <1>2, <1>3, PTL DEF Spec

=============================================================================
