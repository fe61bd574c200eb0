----------------------- MODULE EconomyAccounts_proofs -----------------------
(***************************************************************************)
(* Proofs about the balances of the station economy, credits, reservations *)
(* and goods, and about its posters, how long they live and how many of    *)
(* the automatic ones are on the air, for every number of stations,        *)
(* contracts and messages.                                                 *)
(***************************************************************************)
EXTENDS EconomyAccounts, StationEconomy_proofs, SumLemmas

(***************************************************************************)
(* What a step does to the contracts                                       *)
(***************************************************************************)

\* A contract is struck: it is the last one, and in transit.
Strikes(c) ==
  /\ c \in ContractType
  /\ FormContract(c)
  /\ c.status = "InTransit"
  /\ c.buyer # c.seller
  /\ credits[c.buyer] >= c.escrow

\* A step strikes a contract, closes one that is due, or leaves the ledger.
LEMMA LedgerSteps ==
  ASSUME TypeOK, [Next]_vars
  PROVE  \/ UNCHANGED <<credits, reserved, contracts>>
         \/ (\E c \in ContractType : Strikes(c)) /\ UNCHANGED <<warehouse, lines>>
         \/ \E i \in due : Deliver(i) \/ FailDelivery(i)
  <1>1. CASE \E r \in Request : PostMarketMessage(r)
    BY <1>1, PostedContracts DEF Strikes
  <1>2. CASE UNCHANGED vars \/ ~ \E r \in Request : PostMarketMessage(r)
    BY <1>2 DEF Next, Command, Tick, vars, ledger, StartProduction, SetCollectorArea,
       BeginSettlement, EndSettlement, RunLine, IdleLine, AgePosters, AutoPost,
       NoAutoPost, EmitAndAdvance, Finished
  <1>3. QED
    BY <1>1, <1>2

\* The contracts are finitely many, and what they carry are naturals.
LEMMA ContractsFinite ==
  ASSUME TypeOK
  PROVE  /\ IsFiniteSet(DOMAIN contracts)
         /\ IsFiniteSet(InTransit)
         /\ InTransit \subseteq DOMAIN contracts
         /\ \A i \in DOMAIN contracts : Qty[i] \in Nat /\ Escrow[i] \in Nat
         /\ \A s \in Stations, m \in Material :
              IsFiniteSet(ContractsOf(s, m)) /\ ContractsOf(s, m) \subseteq DOMAIN contracts
  <1>1. contracts \in Seq(ContractType)
    BY DEF TypeOK
  <1>2. Len(contracts) \in Nat /\ DOMAIN contracts = 1..Len(contracts)
    BY <1>1
  <1>3. IsFiniteSet(DOMAIN contracts)
    BY <1>2, FS_Interval
  <1>4. InTransit \subseteq DOMAIN contracts
    BY DEF InTransit
  <1>5. IsFiniteSet(InTransit)
    BY <1>3, <1>4, FS_Subset
  <1>6. ASSUME NEW i \in DOMAIN contracts
        PROVE  Qty[i] \in Nat /\ Escrow[i] \in Nat
    <2>1. contracts[i] \in ContractType
      BY <1>1
    <2>2. QED
      BY <2>1 DEF Qty, Escrow, ContractType
  <1>7. ASSUME NEW s \in Stations, NEW m \in Material
        PROVE  IsFiniteSet(ContractsOf(s, m)) /\ ContractsOf(s, m) \subseteq DOMAIN contracts
    <2>1. ContractsOf(s, m) \subseteq InTransit
      BY DEF ContractsOf
    <2>2. QED
      BY <1>4, <1>5, <2>1, FS_Subset
  <1>8. QED
    BY <1>3, <1>4, <1>5, <1>6, <1>7

\* The contracts after one is struck.
LEMMA AfterStrike ==
  ASSUME TypeOK, NEW c \in ContractType, Strikes(c), NEW n, n = Len(contracts) + 1
  PROVE  /\ n \notin DOMAIN contracts
         /\ InTransit' = InTransit \cup {n}
         /\ Qty'[n] = c.qty /\ Escrow'[n] = c.escrow
         /\ \A i \in DOMAIN contracts : Qty'[i] = Qty[i] /\ Escrow'[i] = Escrow[i]
         /\ \A s \in Stations, m \in Material :
              ContractsOf(s, m)' =
                ContractsOf(s, m) \cup (IF c.seller = s /\ c.material = m THEN {n} ELSE {})
  <1>1. contracts \in Seq(ContractType) /\ contracts' = Append(contracts, c)
    BY DEF TypeOK, Strikes, FormContract
  <1>2. /\ DOMAIN contracts = 1..Len(contracts) /\ Len(contracts) \in Nat
        /\ DOMAIN contracts' = DOMAIN contracts \cup {n}
        /\ n \notin DOMAIN contracts
        /\ contracts'[n] = c
        /\ \A i \in DOMAIN contracts : contracts'[i] = contracts[i]
    BY <1>1
  <1>3. c.status = "InTransit"
    BY DEF Strikes
  <1>4. InTransit' = InTransit \cup {n}
    BY <1>2, <1>3 DEF InTransit
  <1>5. /\ Qty'[n] = c.qty /\ Escrow'[n] = c.escrow
        /\ \A i \in DOMAIN contracts : Qty'[i] = Qty[i] /\ Escrow'[i] = Escrow[i]
    BY <1>2 DEF Qty, Escrow
  <1>6. ASSUME NEW s \in Stations, NEW m \in Material
        PROVE  ContractsOf(s, m)' =
                 ContractsOf(s, m) \cup (IF c.seller = s /\ c.material = m THEN {n} ELSE {})
    <2>1. InTransit \subseteq DOMAIN contracts
      BY DEF InTransit
    <2>2. QED
      BY <1>2, <1>4, <2>1 DEF ContractsOf
  <1>7. QED
    BY <1>2, <1>4, <1>5, <1>6

\* The contracts after one that was due is closed.
LEMMA AfterClose ==
  ASSUME TypeOK, DueTracked, NEW i \in due, Deliver(i) \/ FailDelivery(i)
  PROVE  /\ i \in InTransit
         /\ contracts[i] \in ContractType
         /\ Qty' = Qty /\ Escrow' = Escrow
         /\ InTransit' = InTransit \ {i}
         /\ \A s \in Stations, m \in Material :
              ContractsOf(s, m)' = ContractsOf(s, m) \ {i}
  <1>1. i \in DOMAIN contracts /\ contracts[i].status = "InTransit"
    BY DEF TypeOK, DueTracked, IsDue
  <1>2. contracts[i] \in ContractType
    BY <1>1 DEF TypeOK
  <1>3. PICK o \in {"Settled", "Failed"} :
          contracts' = [contracts EXCEPT ![i].status = o]
    BY DEF Deliver, FailDelivery
  <1>4. /\ DOMAIN contracts' = DOMAIN contracts
        /\ \A j \in DOMAIN contracts \ {i} : contracts'[j] = contracts[j]
        /\ contracts'[i].status # "InTransit"
        /\ contracts'[i].qty = contracts[i].qty
        /\ contracts'[i].escrow = contracts[i].escrow
    BY <1>1, <1>2, <1>3 DEF ContractType
  <1>5. InTransit' = InTransit \ {i}
    BY <1>4 DEF InTransit
  <1>6. Qty' = Qty
    <2>1. \A j \in DOMAIN contracts : contracts'[j].qty = contracts[j].qty
      BY <1>4
    <2>2. QED
      BY <1>4, <2>1 DEF Qty
  <1>7. Escrow' = Escrow
    <2>1. \A j \in DOMAIN contracts : contracts'[j].escrow = contracts[j].escrow
      BY <1>4
    <2>2. QED
      BY <1>4, <2>1 DEF Escrow
  <1>8. ASSUME NEW s \in Stations, NEW m \in Material
        PROVE  ContractsOf(s, m)' = ContractsOf(s, m) \ {i}
    <2>1. InTransit \subseteq DOMAIN contracts
      BY DEF InTransit
    <2>2. QED
      BY <1>4, <1>5, <2>1 DEF ContractsOf
  <1>9. QED
    BY <1>1, <1>2, <1>5, <1>6, <1>7, <1>8 DEF InTransit

(***************************************************************************)
(* Credits                                                                 *)
(***************************************************************************)

LEMMA StationsFinite == IsFiniteSet(Stations)
  BY StationsAssumption, FS_Interval DEF Stations

\* Totals that differ at one station differ by as much.
LEMMA TotalsDiffer ==
  ASSUME NEW old, NEW now, NEW s \in Stations,
         \A t \in Stations : old[t] \in Nat /\ now[t] \in Nat,
         \A t \in Stations \ {s} : old[t] = now[t]
  PROVE  /\ SumFunctionOnSet(old, Stations) \in Nat
         /\ SumFunctionOnSet(now, Stations)
              = SumFunctionOnSet(old, Stations) - old[s] + now[s]
  BY StationsFinite, SumChanged, SumNat

\* Changing what one station has changes the total by as much.
LEMMA TotalChanged ==
  ASSUME NEW f \in [Stations -> Nat], NEW s \in Stations, NEW v \in Nat
  PROVE  /\ SumFunctionOnSet(f, Stations) \in Nat
         /\ SumFunctionOnSet([f EXCEPT ![s] = v], Stations)
              = SumFunctionOnSet(f, Stations) - f[s] + v
  <1> DEFINE g == [f EXCEPT ![s] = v]
  <1>1. /\ \A x \in Stations : f[x] \in Nat /\ g[x] \in Nat
        /\ \A x \in Stations \ {s} : f[x] = g[x]
        /\ g[s] = v
    OBVIOUS
  <1> HIDE DEF g
  <1>2. SumFunctionOnSet(g, Stations) = SumFunctionOnSet(f, Stations) - f[s] + g[s]
    BY <1>1, StationsFinite, SumChanged
  <1>3. SumFunctionOnSet(f, Stations) \in Nat
    BY <1>1, StationsFinite, SumNat
  <1>4. QED
    BY <1>1, <1>2, <1>3 DEF g

\* What is in escrow after a contract is struck, or one that was due is closed.
LEMMA EscrowAfterStrike ==
  ASSUME TypeOK, NEW c \in ContractType, Strikes(c)
  PROVE  Escrowed \in Nat /\ Escrowed' = Escrowed + c.escrow
  <1> DEFINE n == Len(contracts) + 1
  <1>1. /\ n \notin DOMAIN contracts
        /\ InTransit' = InTransit \cup {n}
        /\ Escrow'[n] = c.escrow
        /\ \A i \in DOMAIN contracts : Escrow'[i] = Escrow[i]
    BY AfterStrike
  <1>2. /\ IsFiniteSet(InTransit)
        /\ InTransit \subseteq DOMAIN contracts
        /\ \A i \in DOMAIN contracts : Escrow[i] \in Nat
    BY ContractsFinite
  <1>3. c.escrow \in Nat
    BY DEF ContractType
  <1> HIDE DEF n
  <1>4. SumFunctionOnSet(Escrow', InTransit \cup {n})
          = SumFunctionOnSet(Escrow', InTransit) + Escrow'[n]
    <2>1. \A x \in InTransit \cup {n} : Escrow'[x] \in Nat
      BY <1>1, <1>2, <1>3
    <2>2. QED
      BY <1>1, <1>2, <2>1, SumWith
  <1>5. SumFunctionOnSet(Escrow', InTransit) = SumFunctionOnSet(Escrow, InTransit)
    BY <1>1, <1>2, SumSame
  <1>6. SumFunctionOnSet(Escrow, InTransit) \in Nat
    BY <1>2, SumNat
  <1>7. QED
    BY <1>1, <1>4, <1>5, <1>6 DEF Escrowed

LEMMA EscrowAfterClose ==
  ASSUME TypeOK, DueTracked, NEW i \in due, Deliver(i) \/ FailDelivery(i)
  PROVE  /\ contracts[i].escrow \in Nat
         /\ Escrowed' \in Nat
         /\ Escrowed = contracts[i].escrow + Escrowed'
  <1>1. /\ i \in InTransit
        /\ contracts[i] \in ContractType
        /\ Escrow' = Escrow
        /\ InTransit' = InTransit \ {i}
    BY AfterClose
  <1>2. /\ IsFiniteSet(InTransit)
        /\ InTransit \subseteq DOMAIN contracts
        /\ \A j \in DOMAIN contracts : Escrow[j] \in Nat
    BY ContractsFinite
  <1>3. IsFiniteSet(InTransit \ {i})
    BY <1>2, FS_Subset
  <1>4. SumFunctionOnSet(Escrow, InTransit) = Escrow[i] + SumFunctionOnSet(Escrow, InTransit \ {i})
    BY <1>1, <1>2, SumWithout
  <1>5. SumFunctionOnSet(Escrow, InTransit \ {i}) \in Nat
    BY <1>2, <1>3, SumNat
  <1>6. Escrow[i] = contracts[i].escrow
    BY <1>1, <1>2 DEF Escrow
  <1>7. contracts[i].escrow \in Nat
    BY <1>1 DEF ContractType
  <1>8. QED
    BY <1>1, <1>4, <1>5, <1>6, <1>7 DEF Escrowed

\* CreditsConserved is not inductive by itself: only a contract that is in
\* transit has its escrow in the sum, and that those on the work list are is
\* what DueTracked says.
LEMMA CreditsStep ==
  ASSUME OnTimeInv, CreditsConserved, [Next]_vars
  PROVE  CreditsConserved'
  <1> DEFINE Held == SumFunctionOnSet(credits, Stations)
             Initially == SumFunctionOnSet(InitialCredits, Stations)
  <1>1. TypeOK /\ DueTracked /\ Held + Escrowed = Initially
    BY DEF OnTimeInv, CreditsConserved
  <1>2. credits \in [Stations -> Nat]
    BY <1>1 DEF TypeOK
  <1>3. ASSUME NEW s \in Stations, NEW v \in Nat, credits' = [credits EXCEPT ![s] = v]
        PROVE  Held \in Nat /\ Held' = Held - credits[s] + v /\ credits[s] \in Nat
    BY <1>2, <1>3, TotalChanged
  <1> HIDE DEF Initially
  <1>4. Held' + Escrowed' = Initially
    <2>1. CASE UNCHANGED <<credits, reserved, contracts>>
      BY <1>1, <2>1 DEF Escrowed, Escrow, InTransit
    <2>2. ASSUME NEW c \in ContractType, Strikes(c)
          PROVE  Held' + Escrowed' = Initially
      <3>1. /\ c.buyer \in Stations /\ c.escrow \in Nat
            /\ credits[c.buyer] >= c.escrow
            /\ credits' = [credits EXCEPT ![c.buyer] = credits[c.buyer] - c.escrow]
        BY <2>2 DEF Strikes, FormContract, ContractType
      <3>2. credits[c.buyer] - c.escrow \in Nat
        BY <1>2, <3>1
      <3>3. Held \in Nat /\ Held' = Held - c.escrow
        <4>1. /\ Held \in Nat /\ credits[c.buyer] \in Nat
              /\ Held' = Held - credits[c.buyer] + (credits[c.buyer] - c.escrow)
          BY <1>3, <3>1, <3>2
        <4> HIDE DEF Held
        <4>2. QED
          BY <3>1, <4>1
      <3>4. Escrowed \in Nat /\ Escrowed' = Escrowed + c.escrow
        BY <1>1, <2>2, EscrowAfterStrike
      <3> HIDE DEF Held
      <3>5. QED
        BY <1>1, <3>1, <3>3, <3>4
    <2>3. ASSUME NEW i \in due, Deliver(i) \/ FailDelivery(i)
          PROVE  Held' + Escrowed' = Initially
      <3>1. /\ contracts[i].escrow \in Nat
            /\ Escrowed' \in Nat
            /\ Escrowed = contracts[i].escrow + Escrowed'
        BY <1>1, <2>3, EscrowAfterClose
      <3>2. contracts[i].buyer \in Stations /\ contracts[i].seller \in Stations
        BY <1>1, ContractTerms DEF TypeOK
      <3>3. PICK s \in Stations :
              credits' = [credits EXCEPT ![s] = credits[s] + contracts[i].escrow]
        BY <2>3, <3>2 DEF Deliver, FailDelivery
      <3>4. Held \in Nat /\ Held' = Held + contracts[i].escrow
        <4>1. credits[s] + contracts[i].escrow \in Nat
          BY <1>2, <3>1
        <4>2. /\ Held \in Nat /\ credits[s] \in Nat
              /\ Held' = Held - credits[s] + (credits[s] + contracts[i].escrow)
          BY <1>3, <3>3, <4>1
        <4> HIDE DEF Held
        <4>3. QED
          BY <3>1, <4>2
      <3> HIDE DEF Held
      <3>5. QED
        BY <1>1, <3>1, <3>4
    <2>4. QED
      BY <1>1, <2>1, <2>2, <2>3, LedgerSteps
  <1>5. QED
    BY <1>4 DEF CreditsConserved, Initially

\* Credits are neither made nor lost by trade, whatever is agreed, delivered
\* or refunded (try_form_contract, settle_contracts).
THEOREM CreditsAreConserved == Spec => []CreditsConserved
  <1>1. Init => CreditsConserved
    <2>1. ASSUME Init
          PROVE  InTransit = {} /\ credits = InitialCredits
      BY <2>1 DEF Init, InTransit
    <2>2. SumFunctionOnSet(InitialCredits, Stations) \in Nat
      BY StationsFinite, StationsAssumption, SumNat
    <2>3. QED
      BY <2>1, <2>2, SumEmpty DEF CreditsConserved, Escrowed
  <1>2. OnTimeInv /\ CreditsConserved /\ [Next]_vars => CreditsConserved'
    BY CreditsStep
  <1>3. QED
    BY <1>1, <1>2, OnTimeInvariant, PTL DEF Spec

(***************************************************************************)
(* Reservations                                                            *)
(***************************************************************************)

LEMMA PromisedAfterStrike ==
  ASSUME TypeOK, NEW c \in ContractType, Strikes(c), NEW s \in Stations, NEW m \in Material
  PROVE  /\ Promised(s, m) \in Nat
         /\ Promised(s, m)' =
              Promised(s, m) + (IF c.seller = s /\ c.material = m THEN c.qty ELSE 0)
  <1> DEFINE n == Len(contracts) + 1
  <1>1. /\ n \notin DOMAIN contracts
        /\ Qty'[n] = c.qty
        /\ \A i \in DOMAIN contracts : Qty'[i] = Qty[i]
        /\ ContractsOf(s, m)' =
             ContractsOf(s, m) \cup (IF c.seller = s /\ c.material = m THEN {n} ELSE {})
    BY AfterStrike
  <1>2. /\ IsFiniteSet(ContractsOf(s, m))
        /\ ContractsOf(s, m) \subseteq DOMAIN contracts
        /\ \A i \in DOMAIN contracts : Qty[i] \in Nat
    BY ContractsFinite
  <1>3. c.qty \in Nat
    BY DEF ContractType
  <1> HIDE DEF n
  <1>4. SumFunctionOnSet(Qty', ContractsOf(s, m)) = SumFunctionOnSet(Qty, ContractsOf(s, m))
    BY <1>1, <1>2, SumSame
  <1>5. SumFunctionOnSet(Qty, ContractsOf(s, m)) \in Nat
    BY <1>2, SumNat
  <1>6. Promised(s, m)' = SumFunctionOnSet(Qty', ContractsOf(s, m)')
    BY DEF Promised
  <1>7. CASE c.seller = s /\ c.material = m
    <2>1. \A x \in ContractsOf(s, m) \cup {n} : Qty'[x] \in Nat
      BY <1>1, <1>2, <1>3
    <2>2. SumFunctionOnSet(Qty', ContractsOf(s, m) \cup {n})
            = SumFunctionOnSet(Qty', ContractsOf(s, m)) + Qty'[n]
      BY <1>1, <1>2, <2>1, SumWith
    <2>3. QED
      BY <1>1, <1>4, <1>5, <1>6, <1>7, <2>2 DEF Promised
  <1>8. CASE ~ (c.seller = s /\ c.material = m)
    <2>1. ContractsOf(s, m)' = ContractsOf(s, m)
      BY <1>1, <1>8
    <2>2. QED
      BY <1>4, <1>5, <1>6, <1>8, <2>1 DEF Promised
  <1>9. QED
    BY <1>7, <1>8

LEMMA PromisedAfterClose ==
  ASSUME TypeOK, DueTracked, NEW i \in due, Deliver(i) \/ FailDelivery(i),
         NEW s \in Stations, NEW m \in Material
  PROVE  /\ contracts[i] \in ContractType
         /\ Promised(s, m)' \in Nat
         /\ Promised(s, m) =
              Promised(s, m)' + (IF contracts[i].seller = s /\ contracts[i].material = m
                                 THEN contracts[i].qty ELSE 0)
  <1> DEFINE of == ContractsOf(s, m)
  <1>1. /\ i \in InTransit
        /\ contracts[i] \in ContractType
        /\ Qty' = Qty
        /\ ContractsOf(s, m)' = of \ {i}
    BY AfterClose
  <1>2. /\ IsFiniteSet(of)
        /\ of \subseteq DOMAIN contracts
        /\ InTransit \subseteq DOMAIN contracts
        /\ \A j \in DOMAIN contracts : Qty[j] \in Nat
    BY ContractsFinite
  <1>3. i \in of <=> contracts[i].seller = s /\ contracts[i].material = m
    BY <1>1 DEF ContractsOf
  <1>4. Promised(s, m)' = SumFunctionOnSet(Qty, of \ {i})
    BY <1>1 DEF Promised
  <1>5. Promised(s, m) = SumFunctionOnSet(Qty, of)
    BY DEF Promised
  <1> HIDE DEF of
  <1>6. SumFunctionOnSet(Qty, of \ {i}) \in Nat
    <2>1. IsFiniteSet(of \ {i})
      BY <1>2, FS_Subset
    <2>2. QED
      BY <1>2, <2>1, SumNat
  <1>7. CASE i \in of
    <2>1. SumFunctionOnSet(Qty, of) = Qty[i] + SumFunctionOnSet(Qty, of \ {i})
      BY <1>2, <1>7, SumWithout
    <2>2. Qty[i] = contracts[i].qty /\ Qty[i] \in Nat
      BY <1>1, <1>2 DEF Qty
    <2>3. QED
      BY <1>1, <1>3, <1>4, <1>5, <1>6, <1>7, <2>1, <2>2
  <1>8. CASE i \notin of
    <2>1. of \ {i} = of
      BY <1>8
    <2>2. QED
      BY <1>1, <1>3, <1>4, <1>5, <1>6, <1>8, <2>1
  <1>9. QED
    BY <1>7, <1>8

\* Reservations keep covering what is promised: what a delivery releases is
\* what it had promised, and a failed one leaves its reservation.
LEMMA ReservationsStep ==
  ASSUME OnTimeInv, ReservationsCover, [Next]_vars
  PROVE  ReservationsCover'
  <1>1. TypeOK /\ DueTracked
    BY DEF OnTimeInv
  <1> SUFFICES ASSUME NEW s \in Stations, NEW m \in Material
               PROVE  reserved'[s][m] >= Promised(s, m)'
    BY DEF ReservationsCover
  <1>2. /\ reserved \in [Stations -> [Material -> Nat]]
        /\ reserved[s][m] \in Nat
    BY <1>1, StockType DEF TypeOK, Stockpile
  <1>3. reserved[s][m] >= Promised(s, m)
    BY DEF ReservationsCover
  <1>4. CASE UNCHANGED <<credits, reserved, contracts>>
    BY <1>3, <1>4 DEF Promised, Qty, ContractsOf, InTransit
  <1>5. ASSUME NEW c \in ContractType, Strikes(c)
        PROVE  reserved'[s][m] >= Promised(s, m)'
    <2>1. /\ Promised(s, m) \in Nat
          /\ Promised(s, m)' =
               Promised(s, m) + (IF c.seller = s /\ c.material = m THEN c.qty ELSE 0)
      BY <1>1, <1>5, PromisedAfterStrike
    <2>2. /\ c.seller \in Stations /\ c.material \in Material /\ c.qty \in Nat
          /\ reserved' = [reserved EXCEPT ![c.seller][c.material] = @ + c.qty]
      BY <1>5 DEF Strikes, FormContract, ContractType
    <2>3. reserved'[s][m] =
            reserved[s][m] + (IF c.seller = s /\ c.material = m THEN c.qty ELSE 0)
      BY <1>2, <2>2
    <2>4. QED
      BY <1>2, <1>3, <2>1, <2>2, <2>3
  <1>6. ASSUME NEW i \in due, Deliver(i) \/ FailDelivery(i)
        PROVE  reserved'[s][m] >= Promised(s, m)'
    <2> DEFINE c == contracts[i]
    <2>1. /\ c \in ContractType
          /\ Promised(s, m)' \in Nat
          /\ Promised(s, m) =
               Promised(s, m)' + (IF c.seller = s /\ c.material = m THEN c.qty ELSE 0)
      BY <1>1, <1>6, PromisedAfterClose
    <2>2. c.seller \in Stations /\ c.material \in Material /\ c.qty \in Nat
      BY <2>1 DEF ContractType
    <2>3. \/ reserved' = reserved
          \/ reserved' = [reserved EXCEPT ![c.seller][c.material] = Released(c)]
      BY <1>6 DEF Deliver, FailDelivery
    <2> HIDE DEF c
    <2>4. CASE reserved' = reserved
      BY <1>2, <1>3, <2>1, <2>2, <2>4
    <2>5. CASE reserved' = [reserved EXCEPT ![c.seller][c.material] = Released(c)]
      <3>1. CASE c.seller = s /\ c.material = m
        <4>1. reserved'[s][m] = Released(c)
          BY <1>2, <2>2, <2>5, <3>1
        <4>2. Released(c) = IF reserved[s][m] > c.qty THEN reserved[s][m] - c.qty ELSE 0
          BY <3>1 DEF Released
        <4>3. QED
          BY <1>2, <1>3, <2>1, <2>2, <3>1, <4>1, <4>2
      <3>2. CASE ~ (c.seller = s /\ c.material = m)
        <4>1. reserved'[s][m] = reserved[s][m]
          BY <1>2, <2>2, <2>5, <3>2
        <4>2. QED
          BY <1>3, <2>1, <3>2, <4>1
      <3>3. QED
        BY <3>1, <3>2
    <2>6. QED
      BY <2>3, <2>4, <2>5
  <1>7. QED
    BY <1>1, <1>4, <1>5, <1>6, LedgerSteps

\* Whatever has been delivered or has failed, all cargo under way is covered by
\* a reservation at its seller (settle_contracts).
THEOREM ReservationsAreKept == Spec => []ReservationsCover
  <1>1. Init => ReservationsCover
    <2>1. ASSUME Init, NEW s \in Stations, NEW m \in Material
          PROVE  reserved[s][m] >= Promised(s, m)
      <3>1. ContractsOf(s, m) = {} /\ reserved[s][m] = 0
        BY <2>1 DEF Init, ContractsOf, InTransit
      <3>2. QED
        BY <3>1, SumEmpty DEF Promised
    <2>2. QED
      BY <2>1 DEF ReservationsCover
  <1>2. OnTimeInv /\ ReservationsCover /\ [Next]_vars => ReservationsCover'
    BY ReservationsStep
  <1>3. QED
    BY <1>1, <1>2, OnTimeInvariant, PTL DEF Spec

\* What is reserved covers each contract in transit alone.
LEMMA ReservedForEach ==
  ASSUME TypeOK, ReservationsCover, NEW i \in InTransit
  PROVE  /\ contracts[i].qty \in Nat
         /\ contracts[i].seller \in Stations /\ contracts[i].material \in Material
         /\ reserved[contracts[i].seller][contracts[i].material] \in Nat
         /\ reserved[contracts[i].seller][contracts[i].material] >= contracts[i].qty
  <1> DEFINE s == contracts[i].seller
             m == contracts[i].material
  <1>1. i \in DOMAIN contracts /\ contracts[i] \in ContractType
    BY DEF InTransit, TypeOK
  <1>2. s \in Stations /\ m \in Material /\ contracts[i].qty \in Nat
    BY <1>1 DEF ContractType
  <1>3. i \in ContractsOf(s, m)
    BY DEF ContractsOf
  <1>4. Qty[i] = contracts[i].qty
    BY <1>1 DEF Qty
  <1> HIDE DEF s, m
  <1>5. /\ IsFiniteSet(ContractsOf(s, m))
        /\ \A x \in ContractsOf(s, m) : Qty[x] \in Nat
    BY <1>2, ContractsFinite
  <1>6. Promised(s, m) \in Nat /\ Qty[i] <= Promised(s, m)
    BY <1>3, <1>5, SumNat, SumAtLeast DEF Promised
  <1>7. reserved[s][m] >= Promised(s, m) /\ reserved[s][m] \in Nat
    BY <1>2, StockType DEF ReservationsCover, TypeOK
  <1>8. QED
    BY <1>2, <1>4, <1>6, <1>7 DEF s, m

\* The clamp of settle_contracts, (*reserved - quantity).max(0.0), never bites:
\* every delivery releases exactly what its contract had reserved.
ReleasesWhatItReserved ==
  \A i \in due :
    Deliver(i) =>
      reserved'[contracts[i].seller][contracts[i].material] =
        reserved[contracts[i].seller][contracts[i].material] - contracts[i].qty

THEOREM DeliveriesReleaseExactly == Spec => [][ReleasesWhatItReserved]_vars
  <1>1. ASSUME OnTimeInv, ReservationsCover
        PROVE  ReleasesWhatItReserved
    <2> SUFFICES ASSUME NEW i \in due, Deliver(i)
                 PROVE  reserved'[contracts[i].seller][contracts[i].material] =
                          reserved[contracts[i].seller][contracts[i].material] - contracts[i].qty
      BY DEF ReleasesWhatItReserved
    <2> DEFINE c == contracts[i]
               r == reserved[c.seller][c.material]
    <2>1. TypeOK /\ DueTracked
      BY <1>1 DEF OnTimeInv
    <2>2. i \in InTransit
      BY <2>1, AfterClose
    <2>3. /\ c.qty \in Nat /\ c.seller \in Stations /\ c.material \in Material
          /\ r \in Nat /\ r >= c.qty
      BY <1>1, <2>1, <2>2, ReservedForEach
    <2>4. reserved' = [reserved EXCEPT ![c.seller][c.material] = Released(c)]
      BY DEF Deliver
    <2>5. Released(c) = r - c.qty
      <3>1. Released(c) = IF r > c.qty THEN r - c.qty ELSE 0
        BY DEF Released
      <3> HIDE DEF c, r
      <3>2. QED
        BY <2>3, <3>1
    <2>6. reserved \in [Stations -> [Material -> Nat]]
      BY <2>1 DEF TypeOK, Stockpile
    <2> HIDE DEF c
    <2>7. reserved'[c.seller][c.material] = Released(c)
      BY <2>3, <2>4, <2>6
    <2>8. QED
      BY <2>5, <2>7 DEF c
  <1>2. QED
    BY <1>1, OnTimeInvariant, ReservationsAreKept, PTL DEF Spec

\* A station that has production lines keeps having some.
LEMMA LinesStay ==
  ASSUME TypeOK, [Next]_vars, NEW s \in Stations, lines[s] # <<>>
  PROVE  lines'[s] # <<>>
  <1>1. lines \in [Stations -> Seq(LineType)] /\ lines[s] \in Seq(LineType)
    BY DEF TypeOK
  <1>2. CASE UNCHANGED lines
    BY <1>2
  <1>3. ASSUME NEW t \in Stations, NEW rxn \in Reaction, StartProduction(t, rxn)
        PROVE  lines'[s] # <<>>
    <2>1. lines' = [lines EXCEPT ![t] = Append(@, [reaction |-> rxn, progress |-> 0])]
      BY <1>3 DEF StartProduction
    <2>2. [reaction |-> rxn, progress |-> 0] \in LineType
      BY DEF LineType
    <2>3. CASE s = t
      <3>1. lines'[s] = Append(lines[s], [reaction |-> rxn, progress |-> 0])
        BY <1>1, <2>1, <2>3
      <3>2. Len(lines'[s]) = Len(lines[s]) + 1 /\ Len(lines[s]) \in Nat
        BY <1>1, <2>2, <3>1
      <3>3. QED
        BY <3>2
    <2>4. CASE s # t
      BY <1>1, <2>1, <2>4
    <2>5. QED
      BY <2>3, <2>4
  <1>4. CASE RunLine
    <2>1. PICK p : lines' = [lines EXCEPT ![at][line].progress = p]
      BY <1>4 DEF RunLine
    <2>2. at \in Stations
      BY DEF TypeOK
    <2>3. DOMAIN lines'[s] = DOMAIN lines[s]
      BY <1>1, <2>1, <2>2
    <2>4. Len(lines[s]) \in Nat \ {0} /\ DOMAIN lines[s] = 1..Len(lines[s])
      BY <1>1, EmptySeq, LenProperties
    <2>5. QED
      BY <2>3, <2>4
  <1>5. QED
    BY <1>2, <1>3, <1>4 DEF Next, Command, Tick, vars, PostMarketMessage,
       SetCollectorArea, BeginSettlement, Deliver, FailDelivery, EndSettlement,
       IdleLine, AgePosters, AutoPost, NoAutoPost, EmitAndAdvance, Finished

\* Where nothing has been produced the seller has what it reserved, so the
\* step that fails a delivery is at a station with production lines.
LEMMA HonouredStep ==
  ASSUME OnTimeInv, ReservationsCover, IdleReservesInStock, EveryDeliveryHonoured,
         [Next]_vars
  PROVE  EveryDeliveryHonoured'
  <1>1. TypeOK /\ DueTracked /\ contracts \in Seq(ContractType)
    BY DEF OnTimeInv, TypeOK
  <1> SUFFICES ASSUME NEW j \in DOMAIN contracts', contracts'[j].status = "Failed"
               PROVE  lines'[contracts'[j].seller] # <<>>
    BY DEF EveryDeliveryHonoured
  <1>2. ASSUME j \in DOMAIN contracts, contracts[j].status = "Failed",
               contracts'[j].seller = contracts[j].seller
        PROVE  lines'[contracts'[j].seller] # <<>>
    BY <1>1, <1>2, ContractTerms, LinesStay DEF EveryDeliveryHonoured
  <1>3. CASE UNCHANGED <<credits, reserved, contracts>>
    BY <1>2, <1>3
  <1>4. ASSUME NEW c \in ContractType, Strikes(c)
        PROVE  j \in DOMAIN contracts /\ contracts'[j] = contracts[j]
    <2>1. contracts' = Append(contracts, c) /\ c.status = "InTransit"
      BY <1>4 DEF Strikes, FormContract
    <2>2. DOMAIN contracts' = 1..(Len(contracts) + 1) /\ DOMAIN contracts = 1..Len(contracts)
      BY <1>1, <2>1
    <2>3. CASE j = Len(contracts) + 1
      BY <1>1, <2>1, <2>3
    <2>4. CASE j # Len(contracts) + 1
      BY <1>1, <2>1, <2>2, <2>4
    <2>5. QED
      BY <2>3, <2>4
  <1>5. ASSUME NEW i \in due, Deliver(i) \/ FailDelivery(i)
        PROVE  lines'[contracts'[j].seller] # <<>>
    <2>1. i \in InTransit /\ contracts[i] \in ContractType /\ i \in DOMAIN contracts
      BY <1>1, <1>5, AfterClose DEF TypeOK
    <2>2. PICK o \in Status :
            /\ contracts' = [contracts EXCEPT ![i].status = o]
            /\ o = "Failed" => FailDelivery(i)
      BY <1>5 DEF Deliver, FailDelivery, Status
    <2>3. CASE j # i
      <3>1. j \in DOMAIN contracts /\ contracts'[j] = contracts[j]
        BY <2>2, <2>3
      <3>2. QED
        BY <1>2, <3>1
    <2>4. CASE j = i
      <3>1. contracts'[i].status = o /\ contracts'[i].seller = contracts[i].seller
        BY <2>1, <2>2 DEF ContractType
      <3>2. FailDelivery(i)
        BY <2>2, <2>4, <3>1
      <3> DEFINE s == contracts[i].seller
                 m == contracts[i].material
      <3>3. /\ contracts[i].qty \in Nat /\ s \in Stations /\ m \in Material
            /\ reserved[s][m] \in Nat /\ reserved[s][m] >= contracts[i].qty
        BY <1>1, <2>1, ReservedForEach
      <3>4. ~ (warehouse[s][m] >= contracts[i].qty) /\ lines' = lines
        BY <3>2 DEF FailDelivery, Deliverable
      <3>5. warehouse[s][m] \in Nat
        BY <1>1, <3>3, StockType DEF TypeOK
      <3>6. lines[s] = <<>> => reserved[s][m] <= warehouse[s][m]
        BY <3>3 DEF IdleReservesInStock
      <3> HIDE DEF s, m
      <3>7. lines[s] # <<>>
        BY <3>3, <3>4, <3>5, <3>6
      <3>8. QED
        BY <2>4, <3>1, <3>4, <3>7 DEF s
    <2>5. QED
      BY <2>3, <2>4
  <1>6. QED
    BY <1>1, <1>2, <1>3, <1>4, <1>5, LedgerSteps

\* A promised delivery fails only at a station that has started production:
\* trade alone, however tangled, breaks no promise (try_form_contract,
\* settle_contracts).
THEOREM IdleDeliveriesHonoured == Spec => []EveryDeliveryHonoured
  <1>1. Init => EveryDeliveryHonoured
    BY DEF Init, EveryDeliveryHonoured
  <1>2. /\ OnTimeInv /\ ReservationsCover /\ IdleReservesInStock /\ EveryDeliveryHonoured
        /\ [Next]_vars
        => EveryDeliveryHonoured'
    BY HonouredStep
  <1>3. QED
    BY <1>1, <1>2, OnTimeInvariant, ReservationsAreKept, IdleStationsKeepReserves, PTL DEF Spec

(***************************************************************************)
(* Goods                                                                   *)
(***************************************************************************)

\* The stocks once station s holds v units of m.
Restocked(stocks, s, m, v) == [stocks EXCEPT ![s][m] = v]

\* What a delivery does to the stocks: the quantity leaves the seller and then
\* arrives at the buyer.
LEMMA DeliveryMoves ==
  ASSUME TypeOK, DueTracked, NEW i \in due, Deliver(i)
  PROVE  \E s, b \in Stations, m \in Material, q \in Nat, mid \in [Stations -> Stockpile] :
           /\ warehouse[s][m] - q \in Nat
           /\ mid = Restocked(warehouse, s, m, warehouse[s][m] - q)
           /\ warehouse' = Restocked(mid, b, m, mid[b][m] + q)
           /\ UNCHANGED lines
  <1> DEFINE c == contracts[i]
             mid == Unloaded(c)
  <1>1. c \in ContractType
    BY AfterClose
  <1>2. /\ c.seller \in Stations /\ c.buyer \in Stations
        /\ c.material \in Material /\ c.qty \in Nat
    BY <1>1 DEF ContractType
  <1>3. /\ warehouse' = [mid EXCEPT ![c.buyer][c.material] = mid[c.buyer][c.material] + c.qty]
        /\ warehouse[c.seller][c.material] >= c.qty
        /\ UNCHANGED lines
    BY DEF Deliver, Deliverable
  <1>4. mid = [warehouse EXCEPT ![c.seller][c.material] = warehouse[c.seller][c.material] - c.qty]
    BY DEF Unloaded
  <1>5. warehouse[c.seller][c.material] \in Nat
    BY <1>2, StockType DEF TypeOK
  <1> HIDE DEF mid, c
  <1>6. warehouse[c.seller][c.material] - c.qty \in Nat
    BY <1>2, <1>3, <1>5
  <1>7. mid \in [Stations -> Stockpile]
    BY <1>2, <1>4, <1>6, StockUpdate DEF TypeOK
  <1>8. QED
    BY <1>2, <1>3, <1>4, <1>6, <1>7 DEF Restocked

\* A step that neither delivers nor produces leaves the stocks.
LEMMA StockSteps ==
  ASSUME TypeOK, [Next]_vars
  PROVE  \/ UNCHANGED warehouse
         \/ \E i \in due : Deliver(i)
         \/ RunLine
  BY DEF Next, Command, Tick, vars, PostMarketMessage, StartProduction,
     SetCollectorArea, BeginSettlement, FailDelivery, EndSettlement, IdleLine,
     AgePosters, AutoPost, NoAutoPost, EmitAndAdvance, Finished

\* The total of a material after one station's stock of one material changed.
LEMMA StockOfChanged ==
  ASSUME NEW f \in [Stations -> Stockpile], NEW s \in Stations, NEW m \in Material,
         NEW v \in Nat, NEW k \in Material
  PROVE  /\ StockOf(f, k) \in Nat
         /\ f[s][m] \in Nat
         /\ StockOf(Restocked(f, s, m, v), k) =
              IF k = m THEN StockOf(f, k) - f[s][m] + v ELSE StockOf(f, k)
  <1> DEFINE of == [x \in Stations |-> f[x][k]]
             new == Restocked(f, s, m, v)
  <1>1. of \in [Stations -> Nat] /\ f[s][m] \in Nat
    BY StockType
  <1>2. StockOf(f, k) = SumFunctionOnSet(of, Stations)
    BY DEF StockOf
  <1>3. SumFunctionOnSet(of, Stations) \in Nat
    BY <1>1, StationsFinite, SumNat
  <1>4. \A x \in Stations : new[x][k] = IF x = s /\ k = m THEN v ELSE f[x][k]
    BY DEF Stockpile, Restocked
  <1>5. CASE k = m
    <2>1. [x \in Stations |-> new[x][k]] = [of EXCEPT ![s] = v]
      BY <1>4, <1>5
    <2>2. StockOf(new, k) = SumFunctionOnSet([of EXCEPT ![s] = v], Stations)
      BY <2>1 DEF StockOf
    <2>3. of[s] = f[s][m]
      BY <1>5
    <2> HIDE DEF of, new
    <2>4. SumFunctionOnSet([of EXCEPT ![s] = v], Stations)
            = SumFunctionOnSet(of, Stations) - of[s] + v
      BY <1>1, TotalChanged
    <2>5. QED
      BY <1>1, <1>2, <1>3, <1>5, <2>2, <2>3, <2>4 DEF new
  <1>6. CASE k # m
    <2>1. [x \in Stations |-> new[x][k]] = of
      BY <1>4, <1>6
    <2>2. StockOf(new, k) = StockOf(f, k)
      BY <2>1 DEF StockOf
    <2> HIDE DEF of, new
    <2>3. QED
      BY <1>1, <1>2, <1>3, <1>6, <2>2 DEF new
  <1>7. QED
    BY <1>5, <1>6

\* A delivery leaves the total of every material.
LEMMA DeliveryKeepsStock ==
  ASSUME TypeOK, DueTracked, NEW i \in due, Deliver(i), NEW k \in Material
  PROVE  StockOf(warehouse', k) = StockOf(warehouse, k)
  <1>1. PICK s \in Stations, b \in Stations, m \in Material, q \in Nat,
             mid \in [Stations -> Stockpile] :
           /\ warehouse[s][m] - q \in Nat
           /\ mid = Restocked(warehouse, s, m, warehouse[s][m] - q)
           /\ warehouse' = Restocked(mid, b, m, mid[b][m] + q)
    BY DeliveryMoves
  <1>2. /\ StockOf(warehouse, k) \in Nat
        /\ warehouse[s][m] \in Nat
        /\ StockOf(mid, k) = IF k = m THEN StockOf(warehouse, k) - q ELSE StockOf(warehouse, k)
    <2> DEFINE left == warehouse[s][m] - q
    <2>1. left \in Nat /\ mid = Restocked(warehouse, s, m, left)
      BY <1>1
    <2>2. warehouse \in [Stations -> Stockpile]
      BY DEF TypeOK
    <2> HIDE DEF left
    <2>3. /\ StockOf(warehouse, k) \in Nat
          /\ warehouse[s][m] \in Nat
          /\ StockOf(mid, k) =
               IF k = m THEN StockOf(warehouse, k) - warehouse[s][m] + left
               ELSE StockOf(warehouse, k)
      BY <2>1, <2>2, StockOfChanged
    <2>4. QED
      BY <2>3 DEF left
  <1>3. /\ mid[b][m] \in Nat
        /\ StockOf(warehouse', k) = IF k = m THEN StockOf(mid, k) + q ELSE StockOf(mid, k)
    <2>1. mid[b][m] \in Nat
      BY StockType
    <2> DEFINE gain == mid[b][m] + q
    <2>2. gain \in Nat /\ warehouse' = Restocked(mid, b, m, gain)
      BY <1>1, <2>1
    <2> HIDE DEF gain
    <2>3. /\ StockOf(mid, k) \in Nat
          /\ StockOf(warehouse', k) =
               IF k = m THEN StockOf(mid, k) - mid[b][m] + gain ELSE StockOf(mid, k)
      BY <2>2, StockOfChanged
    <2>4. QED
      BY <2>1, <2>3 DEF gain
  <1>4. QED
    BY <1>2, <1>3

\* A line changes no material its recipe leaves alone.
LEMMA RunLineKeepsInert ==
  ASSUME TypeOK, RunLine, NEW k \in Inert
  PROVE  StockOf(warehouse', k) = StockOf(warehouse, k)
  <1> DEFINE rxn == ReactionInfo[lines[at][line].reaction]
             completes == lines[at][line].progress + 1 >= rxn.duration
  <1>1. k \in Material /\ at \in Stations /\ line \in DOMAIN lines[at]
    BY DEF Inert, RunLine, TypeOK
  <1>2. lines[at][line] \in LineType
    BY <1>1 DEF TypeOK
  <1>3. rxn.inputs[k] = 0 /\ rxn.outputs[k] = 0
    BY <1>2 DEF Inert, LineType
  <1>4. warehouse' = [warehouse EXCEPT ![at] =
                        [m \in Material |-> AfterRun(at, rxn, m, completes)]]
    BY DEF RunLine
  <1> HIDE DEF rxn, completes
  <1>5. warehouse[at][k] \in Nat /\ warehouse \in [Stations -> Stockpile]
    BY <1>1, StockType DEF TypeOK
  <1>6. AfterRun(at, rxn, k, completes) = warehouse[at][k]
    BY <1>3, <1>5 DEF AfterRun
  <1>7. \A s \in Stations : warehouse'[s][k] = warehouse[s][k]
    BY <1>1, <1>4, <1>5, <1>6
  <1>8. QED
    BY <1>7 DEF StockOf

\* Of a material that no recipe takes or gives the stations always hold what
\* they started with, however it is traded (settle_contracts).
THEOREM GoodsAreConserved == Spec => []GoodsConserved
  <1>1. Init => GoodsConserved
    BY DEF Init, GoodsConserved
  <1>2. OnTimeInv /\ GoodsConserved /\ [Next]_vars => GoodsConserved'
    <2> SUFFICES ASSUME TypeOK, DueTracked, GoodsConserved, [Next]_vars, NEW k \in Inert
                 PROVE  StockOf(warehouse', k) = StockOf(InitialStock, k)
      BY DEF GoodsConserved, OnTimeInv, Inert
    <2>1. k \in Material /\ StockOf(warehouse, k) = StockOf(InitialStock, k)
      BY DEF Inert, GoodsConserved
    <2>2. StockOf(warehouse', k) = StockOf(warehouse, k)
      BY <2>1, StockSteps, DeliveryKeepsStock, RunLineKeepsInert
    <2>3. QED
      BY <2>1, <2>2
  <1>3. QED
    BY <1>1, <1>2, OnTimeInvariant, PTL DEF Spec

(***************************************************************************)
(* Matter                                                                  *)
(***************************************************************************)

LEMMA Distribute ==
  /\ \A w, a, b \in Nat : w * (a + b) = w * a + w * b
  /\ \A w, a, b \in Nat : w * (a - b) = w * a - w * b
  /\ \A w, a \in Nat : (a + 1) * w = a * w + w
  /\ \A w \in Nat : 0 * w = 0
  BY SMT

Weighting == [Material -> Nat]

\* A stock is worth a natural number.
LEMMA WorthNat ==
  ASSUME NEW weight \in Weighting, NEW stock \in Stockpile
  PROVE  /\ Worth(weight, stock) \in Nat
         /\ \A m \in Material : weight[m] * stock[m] \in Nat
  <1> DEFINE value == [m \in Material |-> weight[m] * stock[m]]
  <1>1. \A m \in Material : weight[m] * stock[m] \in Nat
    BY ProductNat DEF Weighting, Stockpile
  <1>2. \A m \in Material : value[m] \in Nat
    BY <1>1
  <1> HIDE DEF value
  <1>3. SumFunctionOnSet(value, Material) \in Nat
    BY <1>2, SumNat, StationsAssumption
  <1>4. QED
    BY <1>1, <1>3 DEF Worth, value

\* A stock that changes in one material is worth that much more or less.
LEMMA WorthChanged ==
  ASSUME NEW weight \in Weighting, NEW stock \in Stockpile, NEW new \in Stockpile,
         NEW m \in Material, \A k \in Material \ {m} : new[k] = stock[k]
  PROVE  Worth(weight, new) = Worth(weight, stock) - weight[m] * stock[m] + weight[m] * new[m]
  <1> DEFINE old == [k \in Material |-> weight[k] * stock[k]]
             now == [k \in Material |-> weight[k] * new[k]]
  <1>1. \A k \in Material : old[k] \in Nat /\ now[k] \in Nat
    BY WorthNat
  <1>2. \A k \in Material \ {m} : old[k] = now[k]
    OBVIOUS
  <1>3. old[m] = weight[m] * stock[m] /\ now[m] = weight[m] * new[m]
    OBVIOUS
  <1>4. Worth(weight, stock) = SumFunctionOnSet(old, Material)
        /\ Worth(weight, new) = SumFunctionOnSet(now, Material)
    BY DEF Worth
  <1> HIDE DEF old, now
  <1>5. SumFunctionOnSet(now, Material) = SumFunctionOnSet(old, Material) - old[m] + now[m]
    BY <1>1, <1>2, SumChanged, StationsAssumption
  <1>6. QED
    BY <1>3, <1>4, <1>5

\* When one station's stock changes, the total changes by what it is worth.
LEMMA TotalWorthChanged ==
  ASSUME NEW weight \in Weighting, NEW f \in [Stations -> Stockpile],
         NEW g \in [Stations -> Stockpile], NEW s \in Stations,
         \A t \in Stations \ {s} : g[t] = f[t]
  PROVE  /\ TotalWorth(weight, f) \in Nat
         /\ TotalWorth(weight, g) =
              TotalWorth(weight, f) - Worth(weight, f[s]) + Worth(weight, g[s])
  <1> DEFINE old == [t \in Stations |-> Worth(weight, f[t])]
             now == [t \in Stations |-> Worth(weight, g[t])]
  <1>1. \A t \in Stations : old[t] \in Nat /\ now[t] \in Nat
    BY WorthNat
  <1>2. \A t \in Stations \ {s} : old[t] = now[t]
    OBVIOUS
  <1>3. old[s] = Worth(weight, f[s]) /\ now[s] = Worth(weight, g[s])
    OBVIOUS
  <1>4. TotalWorth(weight, f) = SumFunctionOnSet(old, Stations)
        /\ TotalWorth(weight, g) = SumFunctionOnSet(now, Stations)
    BY DEF TotalWorth
  <1> HIDE DEF old, now
  <1>5. /\ SumFunctionOnSet(old, Stations) \in Nat
        /\ SumFunctionOnSet(now, Stations) = SumFunctionOnSet(old, Stations) - old[s] + now[s]
    BY <1>1, <1>2, TotalsDiffer, Zenon
  <1>6. QED
    BY <1>3, <1>4, <1>5

LEMMA WorthRestocked ==
  ASSUME NEW weight \in Weighting, NEW f \in [Stations -> Stockpile], NEW s \in Stations,
         NEW m \in Material, NEW v \in Nat
  PROVE  /\ Restocked(f, s, m, v) \in [Stations -> Stockpile]
         /\ TotalWorth(weight, f) \in Nat
         /\ weight[m] * f[s][m] \in Nat
         /\ weight[m] * v \in Nat
         /\ TotalWorth(weight, Restocked(f, s, m, v)) =
              TotalWorth(weight, f) - weight[m] * f[s][m] + weight[m] * v
  <1> DEFINE g == Restocked(f, s, m, v)
  <1>1. g \in [Stations -> Stockpile]
    BY StockUpdate DEF Restocked
  <1>2. /\ g[s][m] = v
        /\ \A k \in Material \ {m} : g[s][k] = f[s][k]
        /\ \A t \in Stations \ {s} : g[t] = f[t]
    BY DEF Restocked, Stockpile
  <1> HIDE DEF g
  <1>3. f[s] \in Stockpile /\ g[s] \in Stockpile
    BY <1>1
  <1>4. Worth(weight, g[s]) = Worth(weight, f[s]) - weight[m] * f[s][m] + weight[m] * v
    BY <1>2, <1>3, WorthChanged
  <1>5. /\ TotalWorth(weight, f) \in Nat
        /\ TotalWorth(weight, g) =
             TotalWorth(weight, f) - Worth(weight, f[s]) + Worth(weight, g[s])
    BY <1>1, <1>2, TotalWorthChanged
  <1>6. weight[m] * f[s][m] \in Nat /\ Worth(weight, f[s]) \in Nat
    BY <1>3, WorthNat
  <1>7. weight[m] * v \in Nat
    BY ProductNat DEF Weighting
  <1>8. QED
    BY <1>1, <1>4, <1>5, <1>6, <1>7 DEF g

\* A delivery leaves what all stocks together are worth.
LEMMA DeliveryKeepsWorth ==
  ASSUME TypeOK, DueTracked, NEW i \in due, Deliver(i), NEW weight \in Weighting
  PROVE  TotalWorth(weight, warehouse') = TotalWorth(weight, warehouse)
  <1>1. PICK s \in Stations, b \in Stations, m \in Material, q \in Nat,
             mid \in [Stations -> Stockpile] :
           /\ warehouse[s][m] - q \in Nat
           /\ mid = Restocked(warehouse, s, m, warehouse[s][m] - q)
           /\ warehouse' = Restocked(mid, b, m, mid[b][m] + q)
    BY DeliveryMoves
  <1> DEFINE w == weight[m]
             left == warehouse[s][m] - q
             gain == mid[b][m] + q
  <1>2. warehouse \in [Stations -> Stockpile]
    BY DEF TypeOK
  <1>3. w \in Nat
    BY DEF Weighting
  <1>4. warehouse[s][m] \in Nat /\ mid[b][m] \in Nat
    BY <1>2, StockType
  <1>5. left \in Nat /\ gain \in Nat
    BY <1>1, <1>4
  <1>6. /\ w * left = w * warehouse[s][m] - w * q
        /\ w * gain = w * mid[b][m] + w * q
    BY <1>3, <1>4, Distribute, ZenonT(30)
  <1>7. /\ mid = Restocked(warehouse, s, m, left)
        /\ warehouse' = Restocked(mid, b, m, gain)
    BY <1>1
  <1>8. w * q \in Nat
    BY <1>3, ProductNat
  <1> HIDE DEF left, gain
  <1>9. /\ TotalWorth(weight, warehouse) \in Nat
        /\ weight[m] * warehouse[s][m] \in Nat
        /\ TotalWorth(weight, mid) =
             TotalWorth(weight, warehouse) - weight[m] * warehouse[s][m] + weight[m] * left
    BY <1>2, <1>5, <1>7, WorthRestocked
  <1>10. /\ weight[m] * mid[b][m] \in Nat
        /\ TotalWorth(weight, warehouse') =
             TotalWorth(weight, mid) - weight[m] * mid[b][m] + weight[m] * gain
    BY <1>5, <1>7, WorthRestocked
  <1>11. QED
    BY <1>6, <1>8, <1>9, <1>10

\* Stocks that add up are worth what they are worth together.
LEMMA WorthAdded ==
  ASSUME NEW weight \in Weighting, NEW a \in Stockpile, NEW b \in Stockpile, NEW c \in Stockpile,
         \A m \in Material : c[m] = a[m] + b[m]
  PROVE  Worth(weight, c) = Worth(weight, a) + Worth(weight, b)
  <1> DEFINE of(stock) == [m \in Material |-> weight[m] * stock[m]]
             fa == of(a)
             fb == of(b)
             fc == of(c)
  <1>1. ASSUME NEW m \in Material
        PROVE  fa[m] \in Nat /\ fb[m] \in Nat /\ fc[m] \in Nat /\ fc[m] = fa[m] + fb[m]
    <2>1. a[m] \in Nat /\ b[m] \in Nat /\ weight[m] \in Nat
      BY DEF Stockpile, Weighting
    <2>2. weight[m] * (a[m] + b[m]) = weight[m] * a[m] + weight[m] * b[m]
      BY <2>1, Distribute, Zenon
    <2>3. weight[m] * c[m] = weight[m] * a[m] + weight[m] * b[m]
      BY <2>2
    <2>4. weight[m] * a[m] \in Nat /\ weight[m] * b[m] \in Nat /\ weight[m] * c[m] \in Nat
      BY WorthNat
    <2>5. QED
      BY <2>3, <2>4
  <1>2. /\ Worth(weight, a) = SumFunctionOnSet(fa, Material)
        /\ Worth(weight, b) = SumFunctionOnSet(fb, Material)
        /\ Worth(weight, c) = SumFunctionOnSet(fc, Material)
    BY DEF Worth
  <1> HIDE DEF fa, fb, fc
  <1>3. QED
    BY <1>1, <1>2, SumAdded, StationsAssumption

NoGoods == [m \in Material |-> 0]

LEMMA NothingIsWorthless ==
  ASSUME NEW weight \in Weighting
  PROVE  NoGoods \in Stockpile /\ Worth(weight, NoGoods) = 0
  <1>1. NoGoods \in Stockpile /\ \A m \in Material : NoGoods[m] = NoGoods[m] + NoGoods[m]
    BY DEF NoGoods, Stockpile
  <1>2. Worth(weight, NoGoods) = Worth(weight, NoGoods) + Worth(weight, NoGoods)
    BY <1>1, WorthAdded
  <1>3. Worth(weight, NoGoods) \in Nat
    BY <1>1, WorthNat
  <1>4. \A x \in Nat : x = x + x => x = 0
    BY SMT
  <1>5. QED
    BY <1>1, <1>2, <1>3, <1>4, Zenon

\* What a line has taken in is worth a natural number; so are all of them.
LEMMA LinesWorthNat ==
  ASSUME NEW weight \in Weighting, NEW ls \in Seq(LineType)
  PROVE  /\ IsFiniteSet(DOMAIN ls)
         /\ \A k \in DOMAIN ls : TakenIn(weight, ls[k]) \in Nat
         /\ InLines(weight, ls) \in Nat
  <1> DEFINE f == [k \in DOMAIN ls |-> TakenIn(weight, ls[k])]
  <1>1. IsFiniteSet(DOMAIN ls)
    BY LenProperties, FS_Interval
  <1>2. ASSUME NEW k \in DOMAIN ls
        PROVE  TakenIn(weight, ls[k]) \in Nat
    <2>1. ls[k] \in LineType
      OBVIOUS
    <2>2. ReactionInfo[ls[k].reaction].inputs \in Stockpile
      BY <2>1, ReactionAssumption DEF LineType
    <2>3. Worth(weight, ReactionInfo[ls[k].reaction].inputs) \in Nat
      BY <2>2, WorthNat
    <2>4. QED
      BY <2>1, <2>3, ProductNat DEF TakenIn, LineType
  <1>3. \A k \in DOMAIN ls : f[k] \in Nat
    BY <1>2
  <1>4. InLines(weight, ls) = SumFunctionOnSet(f, DOMAIN ls)
    BY DEF InLines
  <1> HIDE DEF f
  <1>5. QED
    BY <1>1, <1>2, <1>3, <1>4, SumNat

\* What all lines together have taken in.
InAllLines(weight, all) ==
  SumFunctionOnSet([s \in Stations |-> InLines(weight, all[s])], Stations)

\* When the lines of one station change, the total changes by as much.
LEMMA InAllLinesChanged ==
  ASSUME NEW weight \in Weighting, NEW f \in [Stations -> Seq(LineType)],
         NEW g \in [Stations -> Seq(LineType)], NEW s \in Stations,
         \A t \in Stations \ {s} : g[t] = f[t]
  PROVE  /\ InAllLines(weight, f) \in Nat
         /\ InAllLines(weight, g) =
              InAllLines(weight, f) - InLines(weight, f[s]) + InLines(weight, g[s])
  <1> DEFINE old == [t \in Stations |-> InLines(weight, f[t])]
             now == [t \in Stations |-> InLines(weight, g[t])]
  <1>1. \A t \in Stations : old[t] \in Nat /\ now[t] \in Nat
    BY LinesWorthNat
  <1>2. \A t \in Stations \ {s} : old[t] = now[t]
    OBVIOUS
  <1>3. old[s] = InLines(weight, f[s]) /\ now[s] = InLines(weight, g[s])
    OBVIOUS
  <1>4. InAllLines(weight, f) = SumFunctionOnSet(old, Stations)
        /\ InAllLines(weight, g) = SumFunctionOnSet(now, Stations)
    BY DEF InAllLines
  <1> HIDE DEF old, now
  <1>5. /\ SumFunctionOnSet(old, Stations) \in Nat
        /\ SumFunctionOnSet(now, Stations) = SumFunctionOnSet(old, Stations) - old[s] + now[s]
    BY <1>1, <1>2, TotalsDiffer, Zenon
  <1>6. QED
    BY <1>3, <1>4, <1>5

\* A batch under way has not reached its duration: update_stations resets the
\* progress of a line in the step that ends a batch.
BatchesOpen ==
  \A s \in Stations : \A k \in DOMAIN lines[s] :
    lines[s][k].progress < ReactionInfo[lines[s][k].reaction].duration

\* A new line is at the beginning of its first batch.
LEMMA StartedLines ==
  ASSUME TypeOK, NEW s \in Stations, NEW rxn \in Reaction, StartProduction(s, rxn)
  PROVE  \E n : \E l \in LineType :
           /\ l = [reaction |-> rxn, progress |-> 0]
           /\ n \notin DOMAIN lines[s]
           /\ DOMAIN lines'[s] = DOMAIN lines[s] \cup {n}
           /\ lines'[s][n] = l
           /\ \A k \in DOMAIN lines[s] : lines'[s][k] = lines[s][k]
           /\ \A t \in Stations \ {s} : lines'[t] = lines[t]
           /\ UNCHANGED warehouse
  <1> DEFINE n == Len(lines[s]) + 1
             l == [reaction |-> rxn, progress |-> 0]
  <1>1. lines \in [Stations -> Seq(LineType)] /\ lines[s] \in Seq(LineType)
    BY DEF TypeOK
  <1>2. l \in LineType
    BY DEF LineType
  <1>3. lines' = [lines EXCEPT ![s] = Append(@, l)] /\ UNCHANGED warehouse
    BY DEF StartProduction
  <1> HIDE DEF l
  <1>4. lines'[s] = Append(lines[s], l) /\ \A t \in Stations \ {s} : lines'[t] = lines[t]
    BY <1>1, <1>3
  <1>5. /\ Len(lines[s]) \in Nat /\ DOMAIN lines[s] = 1..Len(lines[s])
        /\ DOMAIN lines'[s] = 1..(Len(lines[s]) + 1)
        /\ lines'[s][n] = l
        /\ \A k \in DOMAIN lines[s] : lines'[s][k] = lines[s][k]
    BY <1>1, <1>2, <1>4
  <1>6. n \notin DOMAIN lines[s] /\ DOMAIN lines'[s] = DOMAIN lines[s] \cup {n}
    BY <1>5
  <1> HIDE DEF n
  <1>7. QED
    BY <1>2, <1>3, <1>4, <1>5, <1>6 DEF l

\* What running a line does: its progress, its station's stock, nothing else.
LEMMA RanLines ==
  ASSUME TypeOK, RunLine, NEW l, NEW rxn, l = lines[at][line], rxn = ReactionInfo[l.reaction]
  PROVE  /\ at \in Stations /\ line \in DOMAIN lines[at]
         /\ l \in LineType
         /\ rxn.inputs \in Stockpile /\ rxn.outputs \in Stockpile /\ rxn.duration \in Nat \ {0}
         /\ DOMAIN lines'[at] = DOMAIN lines[at]
         /\ lines'[at][line].reaction = l.reaction
         /\ lines'[at][line].progress =
              IF l.progress + 1 >= rxn.duration THEN 0 ELSE l.progress + 1
         /\ \A k \in DOMAIN lines[at] \ {line} : lines'[at][k] = lines[at][k]
         /\ \A t \in Stations \ {at} : lines'[t] = lines[t] /\ warehouse'[t] = warehouse[t]
         /\ \A m \in Material :
              /\ warehouse[at][m] >= rxn.inputs[m]
              /\ warehouse'[at][m] =
                   warehouse[at][m] - rxn.inputs[m]
                     + (IF l.progress + 1 >= rxn.duration THEN rxn.outputs[m] ELSE 0)
  <1> DEFINE completes == l.progress + 1 >= rxn.duration
             p == NextProgress(l.progress, completes)
  <1>1. at \in Stations /\ line \in DOMAIN lines[at] /\ lines[at] \in Seq(LineType)
    BY DEF RunLine, TypeOK
  <1>2. l \in LineType
    BY <1>1
  <1>3. rxn.inputs \in Stockpile /\ rxn.outputs \in Stockpile /\ rxn.duration \in Nat \ {0}
    BY <1>2, ReactionAssumption DEF LineType
  <1>4. /\ CanRun(at, rxn)
        /\ warehouse' = [warehouse EXCEPT ![at] =
                           [m \in Material |-> AfterRun(at, rxn, m, completes)]]
        /\ lines' = [lines EXCEPT ![at][line].progress = NextProgress(@, completes)]
    BY DEF RunLine
  <1>5. p = IF completes THEN 0 ELSE l.progress + 1
    BY DEF NextProgress
  <1>6. lines' = [lines EXCEPT ![at][line].progress = p]
    BY <1>4
  <1> HIDE DEF p, completes
  <1>7. /\ lines'[at] = [lines[at] EXCEPT ![line] = [l EXCEPT !.progress = p]]
        /\ \A t \in Stations \ {at} : lines'[t] = lines[t]
    BY <1>1, <1>6 DEF TypeOK
  <1>8. /\ DOMAIN lines'[at] = DOMAIN lines[at]
        /\ lines'[at][line] = [l EXCEPT !.progress = p]
        /\ \A k \in DOMAIN lines[at] \ {line} : lines'[at][k] = lines[at][k]
    BY <1>1, <1>7
  <1>9. lines'[at][line].progress = p /\ lines'[at][line].reaction = l.reaction
    BY <1>2, <1>8 DEF LineType
  <1>10. /\ \A t \in Stations \ {at} : warehouse'[t] = warehouse[t]
         /\ \A m \in Material : warehouse'[at][m] = AfterRun(at, rxn, m, completes)
    BY <1>1, <1>4 DEF TypeOK
  <1>11. \A m \in Material : warehouse[at][m] >= rxn.inputs[m]
    BY <1>4 DEF CanRun
  <1>12. QED
    BY <1>1, <1>2, <1>3, <1>5, <1>7, <1>8, <1>9, <1>10, <1>11 DEF AfterRun, completes

\* Every step keeps batches open.
LEMMA BatchesStep ==
  ASSUME TypeOK, BatchesOpen, [Next]_vars
  PROVE  BatchesOpen'
  <1>1. CASE UNCHANGED lines
    BY <1>1 DEF BatchesOpen
  <1>2. ASSUME NEW s \in Stations, NEW rxn \in Reaction, StartProduction(s, rxn)
        PROVE  BatchesOpen'
    <2>1. PICK n : \E l \in LineType :
            /\ l = [reaction |-> rxn, progress |-> 0]
            /\ DOMAIN lines'[s] = DOMAIN lines[s] \cup {n}
            /\ lines'[s][n] = l
            /\ \A k \in DOMAIN lines[s] : lines'[s][k] = lines[s][k]
            /\ \A t \in Stations \ {s} : lines'[t] = lines[t]
      BY <1>2, StartedLines
    <2>2. ReactionInfo[rxn].duration \in Nat \ {0}
      BY ReactionAssumption
    <2>3. lines'[s][n].progress < ReactionInfo[lines'[s][n].reaction].duration
      BY <2>1, <2>2
    <2>4. QED
      BY <2>1, <2>3 DEF BatchesOpen
  <1>3. CASE RunLine
    <2> DEFINE l == lines[at][line]
               rxn == ReactionInfo[l.reaction]
    <2>1. /\ at \in Stations /\ line \in DOMAIN lines[at] /\ l \in LineType
          /\ rxn.duration \in Nat \ {0}
          /\ DOMAIN lines'[at] = DOMAIN lines[at]
          /\ lines'[at][line].reaction = l.reaction
          /\ lines'[at][line].progress =
               IF l.progress + 1 >= rxn.duration THEN 0 ELSE l.progress + 1
          /\ \A k \in DOMAIN lines[at] \ {line} : lines'[at][k] = lines[at][k]
          /\ \A t \in Stations \ {at} : lines'[t] = lines[t]
      BY <1>3, RanLines
    <2>2. l.progress \in Nat
      BY <2>1 DEF LineType
    <2>3. lines'[at][line].progress < ReactionInfo[lines'[at][line].reaction].duration
      <3> HIDE DEF l
      <3>1. ReactionInfo[lines'[at][line].reaction] = rxn
        BY <2>1
      <3> HIDE DEF rxn
      <3>2. QED
        BY <2>1, <2>2, <3>1
    <2> HIDE DEF l, rxn
    <2>4. QED
      BY <2>1, <2>3 DEF BatchesOpen
  <1>4. QED
    BY <1>1, <1>2, <1>3 DEF Next, Command, Tick, vars, PostMarketMessage,
       SetCollectorArea, BeginSettlement, Deliver, FailDelivery, EndSettlement,
       IdleLine, AgePosters, AutoPost, NoAutoPost, EmitAndAdvance, Finished

\* A new line has taken in nothing yet.
LEMMA StartKeepsWorth ==
  ASSUME TypeOK, TypeOK', NEW s \in Stations, NEW rxn \in Reaction, StartProduction(s, rxn),
         NEW weight \in Weighting
  PROVE  InAllLines(weight, lines') = InAllLines(weight, lines)
  <1> DEFINE f == [k \in DOMAIN lines[s] |-> TakenIn(weight, lines[s][k])]
             g == [k \in DOMAIN lines'[s] |-> TakenIn(weight, lines'[s][k])]
  <1>1. PICK n : \E l \in LineType :
          /\ l = [reaction |-> rxn, progress |-> 0]
          /\ n \notin DOMAIN lines[s]
          /\ DOMAIN lines'[s] = DOMAIN lines[s] \cup {n}
          /\ lines'[s][n] = l
          /\ \A k \in DOMAIN lines[s] : lines'[s][k] = lines[s][k]
          /\ \A t \in Stations \ {s} : lines'[t] = lines[t]
    BY StartedLines
  <1>2. lines \in [Stations -> Seq(LineType)] /\ lines' \in [Stations -> Seq(LineType)]
    BY DEF TypeOK
  <1>3. g[n] = 0
    <2>1. lines'[s][n].progress = 0 /\ lines'[s][n].reaction = rxn
      BY <1>1
    <2>2. Worth(weight, ReactionInfo[rxn].inputs) \in Nat
      BY ReactionAssumption, WorthNat
    <2>3. 0 * Worth(weight, ReactionInfo[rxn].inputs) = 0
      BY <2>2
    <2>4. g[n] = TakenIn(weight, lines'[s][n])
      BY <1>1
    <2>5. TakenIn(weight, lines'[s][n]) = 0
      BY <2>1, <2>3 DEF TakenIn
    <2>6. QED
      BY <2>4, <2>5
  <1>4. \A k \in DOMAIN lines[s] : g[k] = f[k]
    BY <1>1
  <1>5. /\ IsFiniteSet(DOMAIN lines[s])
        /\ \A k \in DOMAIN lines[s] : f[k] \in Nat
    BY <1>2, LinesWorthNat
  <1>6. /\ InLines(weight, lines[s]) = SumFunctionOnSet(f, DOMAIN lines[s])
        /\ InLines(weight, lines'[s]) = SumFunctionOnSet(g, DOMAIN lines[s] \cup {n})
    BY <1>1 DEF InLines
  <1> HIDE DEF f, g
  <1>7. SumFunctionOnSet(g, DOMAIN lines[s] \cup {n}) = SumFunctionOnSet(g, DOMAIN lines[s]) + g[n]
    <2>1. n \notin DOMAIN lines[s]
      BY <1>1
    <2>2. \A k \in DOMAIN lines[s] \cup {n} : g[k] \in Nat
      BY <1>3, <1>4, <1>5
    <2>3. QED
      BY <1>5, <2>1, <2>2, SumWith
  <1>8. SumFunctionOnSet(g, DOMAIN lines[s]) = SumFunctionOnSet(f, DOMAIN lines[s])
    BY <1>4, <1>5, SumSame
  <1>9. InLines(weight, lines[s]) \in Nat
    BY <1>2, LinesWorthNat
  <1>10. InLines(weight, lines'[s]) = InLines(weight, lines[s])
    BY <1>3, <1>6, <1>7, <1>8, <1>9
  <1>11. /\ InAllLines(weight, lines) \in Nat
         /\ InAllLines(weight, lines') =
              InAllLines(weight, lines) - InLines(weight, lines[s]) + InLines(weight, lines'[s])
    <2>1. \A t \in Stations \ {s} : lines'[t] = lines[t]
      BY <1>1
    <2>2. QED
      BY <1>2, <2>1, InAllLinesChanged
  <1>12. QED
    BY <1>9, <1>10, <1>11

\* What the stock of a station loses to a line, the line has taken in; what a
\* batch gives back is what it took.
LEMMA RunKeepsWorth ==
  ASSUME TypeOK, TypeOK', BatchesOpen, RunLine, NEW weight \in Weighting, Balances(weight)
  PROVE  TotalWorth(weight, warehouse') + InAllLines(weight, lines')
           = TotalWorth(weight, warehouse) + InAllLines(weight, lines)
  <1> DEFINE l == lines[at][line]
             rxn == ReactionInfo[l.reaction]
             completes == l.progress + 1 >= rxn.duration
             gives == IF completes THEN rxn.outputs ELSE NoGoods
             taken == Worth(weight, rxn.inputs)
             f == [k \in DOMAIN lines[at] |-> TakenIn(weight, lines[at][k])]
             g == [k \in DOMAIN lines'[at] |-> TakenIn(weight, lines'[at][k])]
  <1>1. /\ at \in Stations /\ line \in DOMAIN lines[at] /\ l \in LineType
        /\ rxn.inputs \in Stockpile /\ rxn.outputs \in Stockpile /\ rxn.duration \in Nat \ {0}
        /\ DOMAIN lines'[at] = DOMAIN lines[at]
        /\ lines'[at][line].reaction = l.reaction
        /\ lines'[at][line].progress = IF completes THEN 0 ELSE l.progress + 1
        /\ \A k \in DOMAIN lines[at] \ {line} : lines'[at][k] = lines[at][k]
        /\ \A t \in Stations \ {at} : lines'[t] = lines[t] /\ warehouse'[t] = warehouse[t]
        /\ \A m \in Material :
             /\ warehouse[at][m] >= rxn.inputs[m]
             /\ warehouse'[at][m] =
                  warehouse[at][m] - rxn.inputs[m] + (IF completes THEN rxn.outputs[m] ELSE 0)
    BY RanLines
  <1>2. /\ lines \in [Stations -> Seq(LineType)] /\ lines' \in [Stations -> Seq(LineType)]
        /\ warehouse \in [Stations -> Stockpile] /\ warehouse' \in [Stations -> Stockpile]
        /\ warehouse[at] \in Stockpile /\ warehouse'[at] \in Stockpile
    BY DEF TypeOK
  <1>3. l.progress \in Nat /\ l.reaction \in Reaction
    BY <1>1 DEF LineType
  <1>4. l.progress < rxn.duration
    BY <1>1 DEF BatchesOpen
  <1>5. rxn.duration * taken = Worth(weight, rxn.outputs)
    BY <1>3 DEF Balances
  <1>6. g[line] = lines'[at][line].progress * taken /\ f[line] = l.progress * taken
    BY <1>1 DEF TakenIn
  <1>7. /\ \A k \in DOMAIN lines[at] : f[k] \in Nat /\ g[k] \in Nat
        /\ \A k \in DOMAIN lines[at] \ {line} : f[k] = g[k]
        /\ IsFiniteSet(DOMAIN lines[at])
        /\ InLines(weight, lines[at]) \in Nat
    <2>1. lines[at] \in Seq(LineType) /\ lines'[at] \in Seq(LineType)
      BY <1>1, <1>2
    <2>2. /\ IsFiniteSet(DOMAIN lines[at])
          /\ InLines(weight, lines[at]) \in Nat
          /\ \A k \in DOMAIN lines[at] : f[k] \in Nat
      BY <2>1, LinesWorthNat
    <2>3. \A k \in DOMAIN lines'[at] : g[k] \in Nat
      BY <2>1, LinesWorthNat
    <2>4. \A k \in DOMAIN lines[at] \ {line} : f[k] = g[k]
      BY <1>1
    <2>5. QED
      BY <1>1, <2>2, <2>3, <2>4
  <1>8. /\ InLines(weight, lines[at]) = SumFunctionOnSet(f, DOMAIN lines[at])
        /\ InLines(weight, lines'[at]) = SumFunctionOnSet(g, DOMAIN lines[at])
    BY <1>1 DEF InLines
  <1>9. taken \in Nat /\ Worth(weight, rxn.outputs) \in Nat
    BY <1>1, WorthNat
  <1>10. gives \in Stockpile /\ Worth(weight, gives) =
           IF completes THEN Worth(weight, rxn.outputs) ELSE 0
    BY <1>1, NothingIsWorthless
  <1>11. Worth(weight, warehouse'[at]) + taken = Worth(weight, warehouse[at]) + Worth(weight, gives)
    <2> DEFINE both == [m \in Material |-> warehouse[at][m] + gives[m]]
    <2>1. ASSUME NEW m \in Material
          PROVE  /\ both[m] \in Nat
                 /\ both[m] = warehouse[at][m] + gives[m]
                 /\ both[m] = warehouse'[at][m] + rxn.inputs[m]
      <3>1. gives[m] = IF completes THEN rxn.outputs[m] ELSE 0
        BY DEF NoGoods
      <3>2. /\ warehouse[at][m] \in Nat /\ rxn.inputs[m] \in Nat /\ gives[m] \in Nat
        BY <1>1, <1>2, <1>10 DEF Stockpile
      <3>3. warehouse'[at][m] = warehouse[at][m] - rxn.inputs[m] + gives[m]
        BY <1>1, <3>1
      <3>4. both[m] = warehouse[at][m] + gives[m]
        OBVIOUS
      <3> HIDE DEF gives, rxn, both
      <3>5. QED
        BY <3>2, <3>3, <3>4
    <2>2. both \in Stockpile
      BY <2>1 DEF Stockpile
    <2>3. \A m \in Material : both[m] = warehouse[at][m] + gives[m]
      BY <2>1
    <2>4. \A m \in Material : both[m] = warehouse'[at][m] + rxn.inputs[m]
      BY <2>1
    <2> HIDE DEF both, gives, rxn
    <2>5. Worth(weight, both) = Worth(weight, warehouse[at]) + Worth(weight, gives)
      BY <1>2, <1>10, <2>2, <2>3, WorthAdded, ZenonT(30)
    <2>6. Worth(weight, both) = Worth(weight, warehouse'[at]) + Worth(weight, rxn.inputs)
      BY <1>1, <1>2, <2>2, <2>4, WorthAdded, ZenonT(30)
    <2>7. QED
      BY <2>5, <2>6
  <1> HIDE DEF f, g, gives
  <1>12. InLines(weight, lines'[at])
           = InLines(weight, lines[at]) - l.progress * taken + lines'[at][line].progress * taken
    <2>1. SumFunctionOnSet(g, DOMAIN lines[at])
            = SumFunctionOnSet(f, DOMAIN lines[at]) - f[line] + g[line]
      BY <1>1, <1>7, SumChanged
    <2>2. QED
      BY <1>6, <1>8, <2>1
  <1>13. /\ TotalWorth(weight, warehouse) \in Nat
         /\ TotalWorth(weight, warehouse') =
              TotalWorth(weight, warehouse)
                - Worth(weight, warehouse[at]) + Worth(weight, warehouse'[at])
    BY <1>1, <1>2, TotalWorthChanged
  <1>14. /\ InAllLines(weight, lines) \in Nat
         /\ InAllLines(weight, lines') =
              InAllLines(weight, lines) - InLines(weight, lines[at]) + InLines(weight, lines'[at])
    BY <1>1, <1>2, InAllLinesChanged
  <1>15. Worth(weight, warehouse[at]) \in Nat /\ Worth(weight, warehouse'[at]) \in Nat
    BY <1>2, WorthNat
  <1> DEFINE had == l.progress * taken
             has == lines'[at][line].progress * taken
  <1>16. /\ had \in Nat
         /\ completes => has = 0 /\ had + taken = Worth(weight, rxn.outputs)
         /\ ~ completes => has = had + taken
    <2>1. had \in Nat /\ (l.progress + 1) * taken = had + taken
      BY <1>3, <1>9, Distribute, ProductNat, Zenon
    <2>2. CASE completes
      <3>1. l.progress + 1 = rxn.duration
        <4> HIDE DEF l, rxn
        <4>1. QED
          BY <1>1, <1>3, <1>4, <2>2
      <3>2. lines'[at][line].progress = 0
        BY <1>1, <2>2
      <3>3. has = 0
        BY <1>9, <3>2, Distribute, Zenon
      <3> HIDE DEF taken, l, rxn
      <3>4. had + taken = Worth(weight, rxn.outputs)
        BY <1>5, <2>1, <3>1, Zenon
      <3>5. QED
        BY <2>1, <2>2, <3>3, <3>4, Zenon
    <2>3. CASE ~ completes
      <3>1. lines'[at][line].progress = l.progress + 1
        BY <1>1, <2>3
      <3> HIDE DEF completes, taken, l
      <3>2. QED
        BY <2>1, <2>3, <3>1, Zenon
    <2>4. QED
      BY <2>2, <2>3
  <1> HIDE DEF had, has, completes, taken, rxn, l
  <1>17. InLines(weight, lines'[at]) = InLines(weight, lines[at]) - had + has
    BY <1>12 DEF had, has
  <1>18. CASE completes
    BY <1>7, <1>9, <1>10, <1>11, <1>13, <1>14, <1>15, <1>16, <1>17, <1>18
  <1>19. CASE ~ completes
    BY <1>7, <1>9, <1>10, <1>11, <1>13, <1>14, <1>15, <1>16, <1>17, <1>19
  <1>20. QED
    BY <1>18, <1>19

\* The balance of matter for one weighting, as an invariant of the steps.
LEMMA WorthStep ==
  ASSUME OnTimeInv, OnTimeInv', BatchesOpen, [Next]_vars, NEW weight \in Weighting,
         Balances(weight), WorthKept(weight)
  PROVE  WorthKept(weight)'
  <1>1. TypeOK /\ TypeOK' /\ DueTracked
    BY DEF OnTimeInv
  <1>2. TotalWorth(weight, warehouse) + InAllLines(weight, lines) = TotalWorth(weight, InitialStock)
    BY DEF WorthKept, InAllLines
  <1>3. TotalWorth(weight, warehouse') + InAllLines(weight, lines') = TotalWorth(weight, InitialStock)
    <2>1. CASE UNCHANGED <<warehouse, lines>>
      BY <1>2, <2>1
    <2>2. ASSUME NEW s \in Stations, NEW rxn \in Reaction, StartProduction(s, rxn)
          PROVE  TotalWorth(weight, warehouse') + InAllLines(weight, lines')
                   = TotalWorth(weight, InitialStock)
      <3>1. InAllLines(weight, lines') = InAllLines(weight, lines)
        BY <1>1, <2>2, StartKeepsWorth
      <3>2. warehouse' = warehouse
        BY <2>2 DEF StartProduction
      <3>3. QED
        BY <1>2, <3>1, <3>2
    <2>3. ASSUME NEW i \in due, Deliver(i)
          PROVE  TotalWorth(weight, warehouse') + InAllLines(weight, lines')
                   = TotalWorth(weight, InitialStock)
      <3>1. TotalWorth(weight, warehouse') = TotalWorth(weight, warehouse)
        BY <1>1, <2>3, DeliveryKeepsWorth
      <3>2. lines' = lines
        BY <2>3 DEF Deliver
      <3>3. QED
        BY <1>2, <3>1, <3>2
    <2>4. CASE RunLine
      BY <1>1, <1>2, <2>4, RunKeepsWorth
    <2>5. QED
      BY <2>1, <2>2, <2>3, <2>4 DEF Next, Command, Tick, vars, PostMarketMessage,
         SetCollectorArea, BeginSettlement, FailDelivery, EndSettlement, IdleLine,
         AgePosters, AutoPost, NoAutoPost, EmitAndAdvance, Finished
  <1>4. QED
    BY <1>3 DEF WorthKept, InAllLines

\* At the start no line has taken anything in.
LEMMA WorthAtStart ==
  ASSUME Init, NEW weight \in Weighting
  PROVE  WorthKept(weight)
  <1> DEFINE f == [s \in Stations |-> InLines(weight, lines[s])]
             none == [s \in Stations |-> 0]
  <1>1. \A s \in Stations : lines[s] = <<>>
    BY DEF Init
  <1>2. InLines(weight, <<>>) = 0
    <2>1. DOMAIN <<>> = {}
      OBVIOUS
    <2>2. QED
      BY <2>1, SumEmpty DEF InLines
  <1>3. f = none
    BY <1>1, <1>2
  <1>4. SumFunctionOnSet(none, Stations) = 0
    <2>1. /\ \A s \in Stations : none[s] \in Nat
          /\ \A s \in Stations : none[s] = none[s] + none[s]
      OBVIOUS
    <2> HIDE DEF none
    <2>2. SumFunctionOnSet(none, Stations) \in Nat
      BY <2>1, SumNat, StationsFinite
    <2>3. SumFunctionOnSet(none, Stations)
            = SumFunctionOnSet(none, Stations) + SumFunctionOnSet(none, Stations)
      BY <2>1, SumAdded, StationsFinite
    <2>4. \A x \in Nat : x = x + x => x = 0
      BY SMT
    <2>5. QED
      BY <2>2, <2>3, <2>4, Zenon
  <1>5. TotalWorth(weight, InitialStock) \in Nat
    <2>1. 1 \in Stations /\ InitialStock \in [Stations -> Stockpile]
      BY StationsAssumption DEF Stations
    <2>2. QED
      BY <2>1, TotalWorthChanged
  <1>6. warehouse = InitialStock
    BY DEF Init
  <1> HIDE DEF none
  <1>7. QED
    BY <1>3, <1>4, <1>5, <1>6 DEF WorthKept

MatterInv ==
  /\ OnTimeInv
  /\ BatchesOpen
  /\ \A weight \in Weighting : Balances(weight) => WorthKept(weight)

\* Every weighting that balances the recipes is kept, so no sequence of batches,
\* stalls, deliveries and failed deliveries makes or loses matter
\* (update_stations, settle_contracts).
THEOREM MatterIsAccountedFor == Spec => []MatterAccounted
  <1>1. Init => BatchesOpen
    BY DEF Init, BatchesOpen
  <1>2. Init => \A weight \in Weighting : WorthKept(weight)
    BY WorthAtStart
  <1>3. Init => MatterInv
    BY <1>1, <1>2, InitType DEF MatterInv, OnTimeInv, Init, DueTracked, NoneOverdue
  <1>4. MatterInv /\ [Next]_vars => MatterInv'
    <2> SUFFICES ASSUME MatterInv, [Next]_vars
                 PROVE  MatterInv'
      OBVIOUS
    <2>1. OnTimeInv'
      BY OnTimeStep DEF MatterInv
    <2>2. BatchesOpen'
      BY BatchesStep DEF MatterInv, OnTimeInv
    <2>3. ASSUME NEW weight \in Weighting, Balances(weight)
          PROVE  WorthKept(weight)'
      BY <2>1, <2>3, WorthStep DEF MatterInv
    <2>4. QED
      BY <2>1, <2>2, <2>3 DEF MatterInv, Weighting, Balances
  <1>5. MatterInv => MatterAccounted
    <2>1. \A weight \in [Material -> 0..MaxWeight] : weight \in Weighting
      BY WeightAssumption DEF Weighting
    <2>2. QED
      BY <2>1 DEF MatterInv, MatterAccounted
  <1>6. QED
    BY <1>3, <1>4, <1>5, PTL DEF Spec

(***************************************************************************)
(* How long posters live                                                   *)
(***************************************************************************)

\* Whether the posters of station s have been aged in the current tick: the
\* loop of update_stations reaches the stations one after the other.
HasAged(s) == phase \in {"autopost", "emit"} \/ (phase = "stations" /\ s < at)

Age(s, m) == (tick - m.tick) + (IF HasAged(s) THEN 1 ELSE 0)

\* PostersExpire speaks of the state between two ticks; within a tick some
\* stations are a tick ahead of the clock.  A message whose life is not over is
\* up, and what is up shows what is left of it.
UpInv ==
  \A m \in messages :
    (m.kind # "Reject" /\ Age(m.from, m) < Life(m)) =>
      \E p \in posters[m.from] : p.id = m.id

LifeInv ==
  \A m \in messages, s \in Stations :
    \A p \in posters[s] :
      p.id = m.id => s = m.from /\ p.remaining + Age(s, m) = Life(m)

\* The numbers the ages are computed from.
LEMMA LifeNumbers ==
  ASSUME TypeOK
  PROVE  /\ tick \in Nat /\ nextMsg \in Nat /\ at \in Nat
         /\ \A m \in messages : m.id \in Nat /\ m.tick \in Nat /\ Life(m) \in Nat
         /\ \A m \in messages : m.from \in Stations
         /\ \A s \in Stations : s \in Nat /\ s <= NumStations
         /\ \A s \in Stations : \A p \in posters[s] : p.id \in Nat /\ p.remaining \in Nat
  <1>1. \A s \in Stations : s \in Nat /\ s <= NumStations
    BY StationsAssumption DEF Stations
  <1>2. at \in Stations
    BY DEF TypeOK
  <1>3. /\ \A m \in messages : m.id \in Nat /\ m.tick \in Nat /\ Life(m) \in Nat
        /\ \A m \in messages : m.from \in Stations
    BY DEF TypeOK, MessageType, Life
  <1>4. ASSUME NEW s \in Stations, NEW p \in posters[s]
        PROVE  p.id \in Nat /\ p.remaining \in Nat
    <2>1. p \in PosterType
      BY DEF TypeOK
    <2>2. QED
      BY <2>1 DEF PosterType
  <1>5. QED
    BY <1>1, <1>2, <1>3, <1>4 DEF TypeOK

\* Steps that leave the posters alone and age no station.
LEMMA LifeKept ==
  ASSUME TypeOK, LifeInv, UpInv, UNCHANGED <<posters, messages, tick>>,
         \A s \in Stations : HasAged(s)' = HasAged(s)
  PROVE  LifeInv' /\ UpInv'
  <1>1. \A m \in messages, s \in Stations : Age(s, m)' = Age(s, m)
    BY DEF Age
  <1>2. LifeInv'
    BY <1>1 DEF LifeInv
  <1>3. \A m \in messages : m.from \in Stations
    BY LifeNumbers
  <1>4. UpInv'
    BY <1>1, <1>3 DEF UpInv, Life
  <1>5. QED
    BY <1>2, <1>4

\* A poster enters with its whole life before it, under an id of its own.
LEMMA LifePosted ==
  ASSUME ConsentInv, RadioInv, LifeInv, NEW r \in Request, PostMarketMessage(r)
  PROVE  LifeInv'
  <1> DEFINE msg == [id |-> nextMsg, tick |-> tick, kind |-> r.kind, from |-> r.from,
                     to |-> r.to, reply |-> r.reply, material |-> r.material,
                     qty |-> r.qty, price |-> r.price, ttl |-> r.ttl]
             new == Poster(nextMsg, r.kind, r.material, r.ttl)
  <1>1. /\ TypeOK
        /\ \A m \in messages : m.id < nextMsg
        /\ \A s \in Stations : \A p \in posters[s] : p.id < nextMsg
    BY DEF ConsentInv, RegistryInv, RadioInv, PosterIds
  <1>2. /\ phase = "commands" /\ phase' = phase /\ tick' = tick /\ at' = at
        /\ messages' = messages \cup {msg}
        /\ \A s \in Stations : \A p \in posters'[s] :
             p \in posters[s] \/ (s = r.from /\ p = new)
    BY <1>1 DEF PostMarketMessage, cursor, TypeOK
  <1>3. /\ msg.id = nextMsg /\ new.id = nextMsg /\ msg.from = r.from
        /\ new.remaining = Life(msg) /\ msg.tick = tick
    BY DEF Poster, Life
  <1>4. \A m, s : Age(s, m)' = Age(s, m)
    BY <1>2 DEF Age, HasAged
  <1>5. Life(msg) \in Nat /\ \A s : Age(s, msg) = 0
    <2>1. r.ttl \in Nat
      BY InputAssumption DEF RequestType
    <2>2. Life(msg) \in Nat
      BY <2>1 DEF Life
    <2>3. ~ \E s : HasAged(s)
      BY <1>2 DEF HasAged
    <2>4. tick - msg.tick = 0
      BY <1>1, LifeNumbers
    <2> HIDE DEF msg
    <2>5. QED
      BY <2>2, <2>3, <2>4 DEF Age
  <1> HIDE DEF msg, new
  <1> SUFFICES ASSUME NEW m \in messages', NEW s \in Stations, NEW p \in posters'[s], p.id = m.id
               PROVE  s = m.from /\ p.remaining + Age(s, m) = Life(m)
    BY <1>4 DEF LifeInv, Life
  <1>6. CASE m \in messages /\ p \in posters[s]
    BY <1>6 DEF LifeInv
  <1>7. CASE m \in messages /\ p \notin posters[s]
    <2>1. m.id < nextMsg /\ m.id \in Nat /\ nextMsg \in Nat /\ p.id = nextMsg
      BY <1>1, <1>2, <1>3, <1>7, LifeNumbers
    <2>2. QED
      BY <2>1
  <1>8. CASE m = msg /\ p \in posters[s]
    <2>1. p.id < nextMsg /\ p.id \in Nat /\ nextMsg \in Nat /\ m.id = nextMsg
      BY <1>1, <1>3, <1>8, LifeNumbers
    <2>2. QED
      BY <2>1
  <1>9. CASE m = msg /\ p \notin posters[s]
    BY <1>2, <1>3, <1>5, <1>9
  <1>10. QED
    BY <1>2, <1>6, <1>7, <1>8, <1>9

\* What is up stays up, and the new message is up unless it is a rejection.
LEMMA UpPosted ==
  ASSUME ConsentInv, UpInv, NEW r \in Request, PostMarketMessage(r)
  PROVE  UpInv'
  <1> DEFINE msg == [id |-> nextMsg, tick |-> tick, kind |-> r.kind, from |-> r.from,
                     to |-> r.to, reply |-> r.reply, material |-> r.material,
                     qty |-> r.qty, price |-> r.price, ttl |-> r.ttl]
             new == Poster(nextMsg, r.kind, r.material, r.ttl)
  <1>1. TypeOK /\ posters \in [Stations -> SUBSET PosterType] /\ r.from \in Stations
    BY DEF ConsentInv, TypeOK, PostMarketMessage, Postable
  <1>2. /\ phase' = phase /\ tick' = tick /\ at' = at
        /\ messages' = messages \cup {msg}
        /\ posters' = IF r.kind = "Reject" THEN posters
                      ELSE [posters EXCEPT ![r.from] = @ \cup {new}]
    BY DEF PostMarketMessage, cursor
  <1>3. msg.id = nextMsg /\ new.id = nextMsg /\ msg.from = r.from /\ msg.kind = r.kind
    BY DEF Poster
  <1>4. \A m, s : Age(s, m)' = Age(s, m)
    BY <1>2 DEF Age, HasAged
  <1> HIDE DEF msg, new
  <1>5. /\ \A s \in Stations : posters[s] \subseteq posters'[s]
        /\ r.kind # "Reject" => new \in posters'[r.from]
    BY <1>1, <1>2
  <1> SUFFICES ASSUME NEW m \in messages', m.kind # "Reject", Age(m.from, m) < Life(m)
               PROVE  \E p \in posters'[m.from] : p.id = m.id
    BY <1>4 DEF UpInv, Life
  <1>6. CASE m \in messages
    <2>1. m.from \in Stations
      BY <1>1, <1>6, LifeNumbers
    <2>2. QED
      BY <1>5, <1>6, <2>1 DEF UpInv
  <1>7. CASE m = msg
    BY <1>3, <1>5, <1>7
  <1>8. QED
    BY <1>2, <1>6, <1>7

\* A notice takes no poster down.
LEMMA UpNoticed ==
  ASSUME TypeOK, UpInv, AutoPost
  PROVE  UpInv'
  <1>1. PICK plan \in AutoPlans(at) :
          posters' = [posters EXCEPT ![at] =
                        @ \cup {Poster(nextMsg, plan[1], plan[2], AutoTtl)}]
    BY DEF AutoPost
  <1>2. /\ tick' = tick /\ messages' = messages
        /\ phase = "autopost" /\ phase' \in {"autopost", "emit"}
    BY DEF AutoPost, NextStation
  <1>3. \A m, s : Age(s, m)' = Age(s, m)
    BY <1>2 DEF Age, HasAged
  <1>4. \A s \in Stations : posters[s] \subseteq posters'[s]
    BY <1>1 DEF TypeOK
  <1>5. \A m \in messages : m.from \in Stations
    BY LifeNumbers
  <1>6. QED
    BY <1>2, <1>3, <1>4, <1>5 DEF UpInv, Life

\* The loop of update_stations ages one station at a time.
LEMMA OneIsAged ==
  ASSUME TypeOK, AgePosters
  PROVE  /\ tick' = tick /\ messages' = messages
         /\ posters' = [posters EXCEPT ![at] = Aged(@)]
         /\ at \in Stations /\ posters \in [Stations -> SUBSET PosterType]
         /\ \A s \in Stations :
              HasAged(s)' = (HasAged(s) \/ s = at) /\ (s = at => ~ HasAged(s))
  <1>1. /\ phase = "stations" /\ tick' = tick /\ messages' = messages
        /\ posters' = [posters EXCEPT ![at] = Aged(@)]
        /\ IF at < NumStations THEN at' = at + 1 /\ phase' = phase
                               ELSE phase' = "autopost"
    BY DEF AgePosters
  <1>2. at \in Stations /\ posters \in [Stations -> SUBSET PosterType]
    BY DEF TypeOK
  <1>3. ASSUME NEW s \in Stations
        PROVE  HasAged(s)' = (HasAged(s) \/ s = at) /\ (s = at => ~ HasAged(s))
    <2>1. s \in Nat /\ s <= NumStations /\ at \in Nat /\ NumStations \in Nat /\ at <= NumStations
      BY <1>2, LifeNumbers, StationsAssumption
    <2>2. CASE at < NumStations
      BY <1>1, <2>1, <2>2 DEF HasAged
    <2>3. CASE ~ (at < NumStations)
      <3>1. at = NumStations /\ (s < at \/ s = at)
        BY <2>1, <2>3
      <3>2. phase' = "autopost" /\ phase = "stations"
        BY <1>1, <2>3
      <3>3. s = at => ~ (s < at)
        BY <2>1
      <3>4. QED
        BY <3>1, <3>2, <3>3 DEF HasAged
    <2>4. QED
      BY <2>2, <2>3
  <1>4. QED
    BY <1>1, <1>2, <1>3

\* It takes one tick from every poster of a station and lets those whose time
\* is up go.
LEMMA LifeAged ==
  ASSUME TypeOK, LifeInv, AgePosters
  PROVE  LifeInv'
  <1>1. /\ tick' = tick /\ messages' = messages
        /\ posters' = [posters EXCEPT ![at] = Aged(@)]
    BY OneIsAged
  <1>2. at \in Stations /\ posters \in [Stations -> SUBSET PosterType]
    BY OneIsAged
  <1>3. \A s \in Stations :
          HasAged(s)' = (HasAged(s) \/ s = at) /\ (s = at => ~ HasAged(s))
    BY OneIsAged
  <1> SUFFICES ASSUME NEW m \in messages, NEW s \in Stations, NEW p \in posters'[s], p.id = m.id
               PROVE  s = m.from /\ p.remaining + Age(s, m)' = Life(m)
    BY <1>1 DEF LifeInv, Life
  <1>4. CASE s # at
    <2>1. p \in posters[s] /\ Age(s, m)' = Age(s, m)
      BY <1>1, <1>2, <1>3, <1>4 DEF Age
    <2>2. QED
      BY <2>1 DEF LifeInv
  <1>5. CASE s = at
    <2>1. PICK q \in posters[s] : p = [q EXCEPT !.remaining = @ - 1]
      BY <1>1, <1>2, <1>5 DEF Aged
    <2>2. q \in PosterType
      BY <1>2
    <2>3. p.id = q.id /\ p.remaining = q.remaining - 1 /\ q.remaining \in Nat
      BY <2>1, <2>2 DEF PosterType
    <2>4. s = m.from /\ q.remaining + Age(s, m) = Life(m)
      BY <2>3 DEF LifeInv
    <2>5. HasAged(s)' /\ ~ HasAged(s)
      BY <1>3, <1>5, Zenon
    <2>6. Age(s, m)' = (tick - m.tick) + 1 /\ Age(s, m) = (tick - m.tick) + 0
      BY <1>1, <2>5 DEF Age
    <2>7. tick \in Nat /\ m.tick \in Nat /\ Life(m) \in Nat
      BY LifeNumbers
    <2>8. QED
      BY <2>3, <2>4, <2>6, <2>7
  <1>6. QED
    BY <1>4, <1>5

\* Of a station that is aged what stays up is what had more than a tick left.
LEMMA UpAged ==
  ASSUME TypeOK, LifeInv, UpInv, AgePosters
  PROVE  UpInv'
  <1>1. /\ tick' = tick /\ messages' = messages
        /\ posters' = [posters EXCEPT ![at] = Aged(@)]
        /\ at \in Stations /\ posters \in [Stations -> SUBSET PosterType]
    BY OneIsAged
  <1>2. \A s \in Stations :
          HasAged(s)' = (HasAged(s) \/ s = at) /\ (s = at => ~ HasAged(s))
    BY OneIsAged
  <1> SUFFICES ASSUME NEW m \in messages, m.kind # "Reject", Age(m.from, m)' < Life(m)
               PROVE  \E p \in posters'[m.from] : p.id = m.id
    BY <1>1 DEF UpInv, Life
  <1>3. /\ tick \in Nat /\ m.tick \in Nat /\ Life(m) \in Nat /\ m.from \in Stations
    BY LifeNumbers
  <1>4. CASE m.from # at
    <2>1. posters'[m.from] = posters[m.from] /\ Age(m.from, m)' = Age(m.from, m)
      BY <1>1, <1>2, <1>3, <1>4 DEF Age
    <2>2. QED
      BY <2>1 DEF UpInv
  <1>5. CASE m.from = at
    <2>1. HasAged(m.from)' /\ ~ HasAged(m.from)
      BY <1>2, <1>3, <1>5, Zenon
    <2>2. Age(m.from, m)' = (tick - m.tick) + 1 /\ Age(m.from, m) = (tick - m.tick) + 0
      BY <1>1, <2>1 DEF Age
    <2>3. Age(m.from, m) + 1 < Life(m) /\ Age(m.from, m) \in Int
      BY <1>3, <2>2
    <2>4. PICK p \in posters[m.from] : p.id = m.id
      BY <1>3, <2>3 DEF UpInv
    <2>5. p \in PosterType
      BY <1>1, <1>3
    <2>6. p.remaining \in Nat /\ p.remaining + Age(m.from, m) = Life(m)
      BY <1>3, <2>4, <2>5 DEF LifeInv, PosterType
    <2>7. p.remaining > 1
      BY <1>3, <2>3, <2>6
    <2>8. [p EXCEPT !.remaining = @ - 1] \in Aged(posters[m.from])
      BY <2>7 DEF Aged
    <2>9. [p EXCEPT !.remaining = @ - 1].id = p.id
      BY <2>5 DEF PosterType
    <2>10. posters'[m.from] = Aged(posters[m.from])
      BY <1>1, <1>5
    <2>11. QED
      BY <2>4, <2>8, <2>9, <2>10
  <1>6. QED
    BY <1>4, <1>5

\* An automatic notice has no message of its id in the registry.
LEMMA LifeNoticed ==
  ASSUME ConsentInv, LifeInv, AutoPost
  PROVE  LifeInv'
  <1>1. PICK plan \in AutoPlans(at) :
          posters' = [posters EXCEPT ![at] =
                        @ \cup {Poster(nextMsg, plan[1], plan[2], AutoTtl)}]
    BY DEF AutoPost
  <1>2. /\ TypeOK /\ posters \in [Stations -> SUBSET PosterType]
        /\ \A m \in messages : m.id < nextMsg
    BY DEF ConsentInv, RegistryInv, TypeOK
  <1>3. /\ tick' = tick /\ messages' = messages
        /\ phase = "autopost" /\ phase' \in {"autopost", "emit"}
    BY DEF AutoPost, NextStation
  <1>4. \A m, s : Age(s, m)' = Age(s, m)
    BY <1>3 DEF Age, HasAged
  <1> SUFFICES ASSUME NEW m \in messages, NEW s \in Stations, NEW p \in posters'[s], p.id = m.id
               PROVE  s = m.from /\ p.remaining + Age(s, m) = Life(m)
    BY <1>3, <1>4 DEF LifeInv, Life
  <1>5. p \in posters[s] \/ p.id = nextMsg
    BY <1>1, <1>2 DEF Poster
  <1>6. m.id < nextMsg /\ m.id \in Nat /\ nextMsg \in Nat
    BY <1>2, LifeNumbers
  <1>7. p \in posters[s]
    BY <1>5, <1>6
  <1>8. QED
    BY <1>7 DEF LifeInv

\* The clock catches up with the posters.
LEMMA LifeTicked ==
  ASSUME TypeOK, LifeInv, EmitAndAdvance
  PROVE  LifeInv'
  <1>1. /\ phase = "emit" /\ phase' = "commands" /\ tick' = tick + 1 /\ messages' = messages
        /\ posters' = [s \in Stations |-> {[p EXCEPT !.broadcasted = TRUE] : p \in posters[s]}]
    BY DEF EmitAndAdvance
  <1> SUFFICES ASSUME NEW m \in messages, NEW s \in Stations, NEW p \in posters'[s], p.id = m.id
               PROVE  s = m.from /\ p.remaining + Age(s, m)' = Life(m)
    BY <1>1 DEF LifeInv, Life
  <1>2. Age(s, m)' = Age(s, m)
    BY <1>1, LifeNumbers DEF Age, HasAged
  <1>3. PICK q \in posters[s] : p = [q EXCEPT !.broadcasted = TRUE]
    BY <1>1
  <1>4. q \in PosterType
    BY DEF TypeOK
  <1>5. p.id = q.id /\ p.remaining = q.remaining
    BY <1>3, <1>4 DEF PosterType
  <1>6. QED
    BY <1>2, <1>5 DEF LifeInv

LEMMA UpTicked ==
  ASSUME TypeOK, UpInv, EmitAndAdvance
  PROVE  UpInv'
  <1>1. /\ phase = "emit" /\ phase' = "commands" /\ tick' = tick + 1 /\ messages' = messages
        /\ posters' = [s \in Stations |-> {[p EXCEPT !.broadcasted = TRUE] : p \in posters[s]}]
    BY DEF EmitAndAdvance
  <1> SUFFICES ASSUME NEW m \in messages, m.kind # "Reject", Age(m.from, m)' < Life(m)
               PROVE  \E p \in posters'[m.from] : p.id = m.id
    BY <1>1 DEF UpInv, Life
  <1>2. Age(m.from, m)' = Age(m.from, m) /\ m.from \in Stations
    BY <1>1, LifeNumbers DEF Age, HasAged
  <1>3. PICK p \in posters[m.from] : p.id = m.id
    BY <1>2 DEF UpInv
  <1>4. p \in PosterType
    BY <1>2 DEF TypeOK
  <1>5. [p EXCEPT !.broadcasted = TRUE].id = p.id
    BY <1>4 DEF PosterType
  <1>6. [p EXCEPT !.broadcasted = TRUE] \in posters'[m.from]
    BY <1>1, <1>2
  <1>7. QED
    BY <1>3, <1>5, <1>6

LEMMA LifeStep ==
  ASSUME ConsentInv, RadioInv, LifeInv, UpInv, [Next]_vars
  PROVE  LifeInv' /\ UpInv'
  <1>1. TypeOK
    BY DEF ConsentInv
  <1>2. CASE \/ \E s \in Stations, rxn \in Reaction : StartProduction(s, rxn)
             \/ \E s \in Stations, a \in AreaRequest : SetCollectorArea(s, a)
             \/ BeginSettlement \/ (\E i \in due : Deliver(i) \/ FailDelivery(i))
             \/ EndSettlement \/ RunLine \/ IdleLine \/ NoAutoPost \/ Finished
             \/ UNCHANGED vars
    <2>1. UNCHANGED <<posters, messages, tick>>
      BY <1>2 DEF StartProduction, SetCollectorArea, BeginSettlement, Deliver,
                  FailDelivery, EndSettlement, RunLine, IdleLine, NoAutoPost,
                  Finished, vars, market
    <2>2. \/ UNCHANGED <<phase, at>>
          \/ phase \in {"commands", "settle"} /\ phase' = "settle"
          \/ phase = "settle" /\ phase' = "stations" /\ at' = 1
          \/ phase = "autopost" /\ phase' \in {"autopost", "emit"}
      BY <1>2 DEF StartProduction, SetCollectorArea, BeginSettlement, Deliver,
                  FailDelivery, EndSettlement, RunLine, IdleLine, NoAutoPost,
                  NextStation, Finished, vars, cursor
    <2>3. \A s \in Stations : ~ (s < 1)
      BY StationsAssumption DEF Stations
    <2>4. \A s \in Stations : HasAged(s)' = HasAged(s)
      BY <2>2, <2>3 DEF HasAged
    <2>5. QED
      BY <1>1, <2>1, <2>4, LifeKept
  <1>3. QED
    BY <1>1, <1>2, LifePosted, LifeAged, LifeNoticed, LifeTicked,
       UpPosted, UpAged, UpNoticed, UpTicked
       DEF Next, Command, Tick

\* A message of an agent hangs at its own station for as many ticks as it asked
\* for, neither fewer nor more, however many others come and go
\* (update_stations, post_market_message).
THEOREM PostersLiveTheirTime == Spec => []PostersExpire
  <1>1. Init => LifeInv /\ UpInv
    BY DEF Init, LifeInv, UpInv
  <1>2. ConsentInv /\ RadioInv /\ LifeInv /\ UpInv /\ [Next]_vars => LifeInv' /\ UpInv'
    BY LifeStep
  <1>3. TypeOK /\ LifeInv /\ UpInv => PostersExpire
    <2> SUFFICES ASSUME TypeOK, LifeInv, UpInv, phase = "commands", NEW m \in messages
                 PROVE  /\ (m.kind # "Reject" /\ TimeLeft(m) > 0)
                             => \E p \in posters[m.from] : p.id = m.id
                        /\ \A s \in Stations : \A p \in posters[s] :
                             p.id = m.id => s = m.from /\ p.remaining = TimeLeft(m)
      BY DEF PostersExpire
    <2>1. tick \in Nat /\ m.tick \in Nat /\ Life(m) \in Nat /\ m.from \in Stations
      BY LifeNumbers
    <2>2. \A s : Age(s, m) = tick - m.tick
      BY <2>1 DEF Age, HasAged
    <2>3. TimeLeft(m) = m.tick + Life(m) - tick
      BY DEF TimeLeft
    <2>4. ASSUME NEW s \in Stations, NEW p \in posters[s], p.id = m.id
          PROVE  s = m.from /\ p.remaining = TimeLeft(m)
      <3>1. s = m.from /\ p.remaining + Age(s, m) = Life(m)
        BY <2>4 DEF LifeInv
      <3>2. p.remaining \in Nat
        BY LifeNumbers
      <3>3. QED
        BY <2>1, <2>2, <2>3, <3>1, <3>2
    <2>5. ASSUME m.kind # "Reject", TimeLeft(m) > 0
          PROVE  \E p \in posters[m.from] : p.id = m.id
      <3>1. Age(m.from, m) < Life(m)
        BY <2>1, <2>2, <2>3, <2>5
      <3>2. QED
        BY <2>5, <3>1 DEF UpInv
    <2>6. QED
      BY <2>4, <2>5
  <1>4. ConsentInv => TypeOK
    BY DEF ConsentInv
  <1>5. QED
    BY <1>1, <1>2, <1>3, <1>4, ConsentInvariant, RadioInvariant, PTL DEF Spec

(***************************************************************************)
(* How many automatic notices are on the air                               *)
(***************************************************************************)

\* The automatic notices of station s that still wait to go on the air: no
\* message of the registry has their id.
Notices(s) == {p \in Unsent(s) : \A m \in messages : m.id # p.id}

\* A notice waits at most from its station's turn in generate_auto_posters to
\* the broadcasts of the same tick, and never beside another of its station.
OneWaiting ==
  \A s \in Stations : \A p \in Notices(s) :
    /\ tick % PostInterval = 0
    /\ phase \in {"autopost", "emit"}
    /\ phase = "autopost" => s < at
    /\ \A q \in Notices(s) : q = p

FewHeard ==
  \A s \in Stations, t \in Nat :
    /\ \A a, b \in NoticesHeard(s, t) : a = b
    /\ t % PostInterval # 0 => NoticesHeard(s, t) = {}

NoticeInv ==
  /\ \A a \in onAir : a[2] < tick
  /\ OneWaiting
  /\ FewHeard

\* What is on the air only loses notices when messages come.
LEMMA HeardShrinks ==
  ASSUME FewHeard, onAir' = onAir, messages \subseteq messages'
  PROVE  FewHeard'
  <1>1. \A s, t : NoticesHeard(s, t)' \subseteq NoticesHeard(s, t)
    BY DEF NoticesHeard
  <1>2. QED
    BY <1>1 DEF FewHeard

\* Outside generate_auto_posters and emit_market_broadcasts no notice waits.
LEMMA NoneWaiting ==
  ASSUME OneWaiting, phase \notin {"autopost", "emit"}
  PROVE  \A s \in Stations : Notices(s) = {}
  BY DEF OneWaiting

\* Steps that change neither the posters nor the registry nor the air.
LEMMA NoticesKept ==
  ASSUME TypeOK, NoticeInv, UNCHANGED <<posters, messages, onAir, tick>>,
         \/ phase \notin {"autopost", "emit"}
         \/ UNCHANGED <<phase, at>>
         \/ NextStation /\ phase = "autopost"
  PROVE  NoticeInv'
  <1>1. FewHeard'
    BY HeardShrinks DEF NoticeInv
  <1>2. \A s \in Stations : Notices(s)' = Notices(s)
    BY DEF Notices, Unsent
  <1>3. OneWaiting'
    <2>1. CASE phase \notin {"autopost", "emit"}
      BY <1>2, <2>1, NoneWaiting DEF NoticeInv, OneWaiting
    <2>2. CASE UNCHANGED <<phase, at>>
      BY <1>2, <2>2 DEF NoticeInv, OneWaiting
    <2>3. CASE NextStation /\ phase = "autopost"
      <3>1. \/ at' = at + 1 /\ phase' = "autopost"
            \/ phase' = "emit"
        BY <2>3 DEF NextStation
      <3>2. \A s \in Stations : s < at => s < at + 1
        BY LifeNumbers
      <3>3. QED
        BY <1>2, <2>3, <3>1, <3>2 DEF NoticeInv, OneWaiting
    <2>4. QED
      BY <2>1, <2>2, <2>3
  <1>4. \A a \in onAir' : a[2] < tick'
    BY DEF NoticeInv
  <1>5. QED
    BY <1>1, <1>3, <1>4 DEF NoticeInv

\* The poster of an agent is no notice: its message is in the registry.
LEMMA NoticesPosted ==
  ASSUME TypeOK, NoticeInv, NEW r \in Request, PostMarketMessage(r)
  PROVE  NoticeInv'
  <1> DEFINE msg == [id |-> nextMsg, tick |-> tick, kind |-> r.kind, from |-> r.from,
                     to |-> r.to, reply |-> r.reply, material |-> r.material,
                     qty |-> r.qty, price |-> r.price, ttl |-> r.ttl]
             new == Poster(nextMsg, r.kind, r.material, r.ttl)
  <1>1. /\ phase = "commands" /\ tick' = tick /\ onAir' = onAir
        /\ messages' = messages \cup {msg}
        /\ \A s \in Stations : \A p \in posters'[s] : p \in posters[s] \/ p = new
    BY DEF PostMarketMessage, cursor, TypeOK
  <1>2. msg.id = nextMsg /\ new.id = nextMsg
    BY DEF Poster
  <1> HIDE DEF msg, new
  <1>3. \A s \in Stations : Notices(s) = {}
    BY <1>1, NoneWaiting DEF NoticeInv
  <1>4. \A s \in Stations : Notices(s)' = {}
    BY <1>1, <1>2, <1>3 DEF Notices, Unsent
  <1>5. FewHeard'
    BY <1>1, HeardShrinks DEF NoticeInv
  <1>6. OneWaiting'
    BY <1>4 DEF OneWaiting
  <1>7. QED
    BY <1>1, <1>5, <1>6 DEF NoticeInv

LEMMA NoticesAged ==
  ASSUME TypeOK, NoticeInv, AgePosters
  PROVE  NoticeInv'
  <1>1. /\ phase = "stations" /\ tick' = tick /\ messages' = messages /\ onAir' = onAir
        /\ posters' = [posters EXCEPT ![at] = Aged(@)]
    BY DEF AgePosters
  <1>2. \A s \in Stations : Notices(s) = {}
    BY <1>1, NoneWaiting DEF NoticeInv
  <1>3. ASSUME NEW s \in Stations, NEW p \in posters'[s]
        PROVE  \E q \in posters[s] : p.id = q.id /\ p.broadcasted = q.broadcasted
    <2>1. posters \in [Stations -> SUBSET PosterType]
      BY DEF TypeOK
    <2>2. CASE s # at
      BY <1>1, <2>1, <2>2
    <2>3. CASE s = at
      <3>1. PICK q \in posters[s] : p = [q EXCEPT !.remaining = @ - 1]
        BY <1>1, <2>1, <2>3 DEF Aged
      <3>2. q \in PosterType
        BY <2>1
      <3>3. QED
        BY <3>1, <3>2 DEF PosterType
    <2>4. QED
      BY <2>2, <2>3
  <1>4. \A s \in Stations : Notices(s)' = {}
    BY <1>1, <1>2, <1>3 DEF Notices, Unsent
  <1>5. FewHeard'
    BY <1>1, HeardShrinks DEF NoticeInv
  <1>6. OneWaiting'
    BY <1>4 DEF OneWaiting
  <1>7. QED
    BY <1>1, <1>5, <1>6 DEF NoticeInv

\* generate_auto_posters comes to a station with no notice waiting and leaves
\* one.
LEMMA NoticesPlanned ==
  ASSUME TypeOK, NoticeInv, AutoPost
  PROVE  NoticeInv'
  <1>1. PICK plan \in AutoPlans(at) :
          posters' = [posters EXCEPT ![at] =
                        @ \cup {Poster(nextMsg, plan[1], plan[2], AutoTtl)}]
    BY DEF AutoPost
  <1>2. /\ phase = "autopost" /\ tick % PostInterval = 0
        /\ UNCHANGED <<tick, messages, onAir>>
        /\ \/ at' = at + 1 /\ phase' = "autopost"
           \/ phase' = "emit"
    BY DEF AutoPost, NextStation
  <1>3. posters \in [Stations -> SUBSET PosterType] /\ at \in Stations
    BY DEF TypeOK
  <1>4. \A s \in Stations : s \in Nat /\ at \in Nat
    BY LifeNumbers
  <1> DEFINE new == Poster(nextMsg, plan[1], plan[2], AutoTtl)
  <1>5. \A s \in Stations : Notices(s)' \subseteq (IF s = at THEN {new} ELSE Notices(s))
    <2>1. Notices(at) = {}
      BY <1>2, <1>3, <1>4 DEF NoticeInv, OneWaiting
    <2>2. \A s \in Stations :
            posters'[s] = IF s = at THEN posters[s] \cup {new} ELSE posters[s]
      BY <1>1, <1>3
    <2> HIDE DEF new
    <2>3. QED
      BY <1>2, <2>1, <2>2 DEF Notices, Unsent
  <1> HIDE DEF new
  <1>6. OneWaiting'
    <2> SUFFICES ASSUME NEW s \in Stations, NEW p \in Notices(s)'
                 PROVE  /\ phase' = "autopost" => s < at'
                        /\ \A q \in Notices(s)' : q = p
      BY <1>2 DEF OneWaiting
    <2>1. CASE s = at
      BY <1>2, <1>4, <1>5, <2>1
    <2>2. CASE s # at
      <3>1. p \in Notices(s) /\ Notices(s)' \subseteq Notices(s)
        BY <1>5, <2>2
      <3>2. s < at /\ \A q \in Notices(s) : q = p
        BY <1>2, <3>1 DEF NoticeInv, OneWaiting
      <3>3. QED
        BY <1>2, <1>4, <3>1, <3>2
    <2>3. QED
      BY <2>1, <2>2
  <1>7. FewHeard'
    BY <1>2, HeardShrinks DEF NoticeInv
  <1>8. QED
    BY <1>2, <1>6, <1>7 DEF NoticeInv

\* The broadcasts of a tick: one per waiting notice, hence one per station.
LEMMA NoticesSent ==
  ASSUME TypeOK, NoticeInv, EmitAndAdvance
  PROVE  NoticeInv'
  <1>1. /\ phase = "emit" /\ tick' = tick + 1 /\ messages' = messages
        /\ onAir' = onAir \cup
             UNION {{<<p.id, tick, s>> : p \in Unsent(s)} : s \in Stations}
        /\ posters' = [s \in Stations |-> {[p EXCEPT !.broadcasted = TRUE] : p \in posters[s]}]
    BY DEF EmitAndAdvance
  <1>2. ASSUME NEW a \in onAir', a \notin onAir
        PROVE  \E s \in Stations : \E p \in Unsent(s) : a = <<p.id, tick, s>>
    BY <1>1, <1>2
  <1>3. tick \in Nat /\ \A a \in onAir : a[2] < tick /\ a[2] \in Nat
    BY DEF TypeOK, NoticeInv
  <1>4. \A a \in onAir' : a[2] < tick'
    <2> SUFFICES ASSUME NEW a \in onAir'
                 PROVE  a[2] < tick + 1
      BY <1>1
    <2>1. CASE a \in onAir
      BY <1>3, <2>1
    <2>2. CASE a \notin onAir
      BY <1>2, <1>3, <2>2
    <2>3. QED
      BY <2>1, <2>2
  <1>5. OneWaiting'
    <2>1. ASSUME NEW s \in Stations, NEW p \in posters'[s]
          PROVE  p.broadcasted
      <3>1. PICK q \in posters[s] : p = [q EXCEPT !.broadcasted = TRUE]
        BY <1>1
      <3>2. q \in PosterType
        BY DEF TypeOK
      <3>3. QED
        BY <3>1, <3>2 DEF PosterType
    <2>2. \A s \in Stations : Notices(s)' = {}
      BY <2>1 DEF Notices, Unsent
    <2>3. QED
      BY <2>2 DEF OneWaiting
  <1>6. FewHeard'
    <2> SUFFICES ASSUME NEW s \in Stations, NEW t \in Nat
                 PROVE  /\ \A a, b \in NoticesHeard(s, t)' : a = b
                        /\ t % PostInterval # 0 => NoticesHeard(s, t)' = {}
      BY DEF FewHeard
    <2>1. CASE t # tick
      <3>1. \A a \in onAir' : a \notin onAir => a[2] = tick
        BY <1>2
      <3>2. NoticesHeard(s, t)' = NoticesHeard(s, t)
        BY <1>1, <2>1, <3>1 DEF NoticesHeard
      <3>3. QED
        BY <3>2 DEF NoticeInv, FewHeard
    <2>2. CASE t = tick
      <3>1. ASSUME NEW a \in NoticesHeard(s, t)'
            PROVE  \E p \in Notices(s) : a = <<p.id, tick, s>>
        <4>1. a \in onAir' /\ a[2] = tick /\ a[3] = s /\ \A m \in messages : m.id # a[1]
          BY <1>1, <2>2 DEF NoticesHeard
        <4>2. a \notin onAir
          BY <1>3, <4>1
        <4>3. PICK u \in Stations : \E p \in Unsent(u) : a = <<p.id, tick, u>>
          BY <1>2, <4>1, <4>2
        <4>4. PICK p \in Unsent(u) : a = <<p.id, tick, u>>
          BY <4>3
        <4>5. u = s /\ p \in Notices(s)
          BY <4>1, <4>4 DEF Notices
        <4>6. QED
          BY <4>4, <4>5
      <3>2. \A p, q \in Notices(s) : p = q
        BY DEF NoticeInv, OneWaiting
      <3>3. tick % PostInterval # 0 => Notices(s) = {}
        BY DEF NoticeInv, OneWaiting
      <3>4. QED
        BY <2>2, <3>1, <3>2, <3>3
    <2>3. QED
      BY <2>1, <2>2
  <1>7. QED
    BY <1>4, <1>5, <1>6 DEF NoticeInv

LEMMA NoticeStep ==
  ASSUME TypeOK, NoticeInv, [Next]_vars
  PROVE  NoticeInv'
  <1>1. CASE \/ \E s \in Stations, rxn \in Reaction : StartProduction(s, rxn)
             \/ \E s \in Stations, a \in AreaRequest : SetCollectorArea(s, a)
             \/ BeginSettlement \/ (\E i \in due : Deliver(i) \/ FailDelivery(i))
             \/ EndSettlement \/ RunLine \/ IdleLine \/ NoAutoPost \/ Finished
             \/ UNCHANGED vars
    <2>1. UNCHANGED <<posters, messages, onAir, tick>>
      BY <1>1 DEF StartProduction, SetCollectorArea, BeginSettlement, Deliver,
                  FailDelivery, EndSettlement, RunLine, IdleLine, NoAutoPost,
                  Finished, vars, market
    <2>2. \/ phase \notin {"autopost", "emit"}
          \/ UNCHANGED <<phase, at>>
          \/ NextStation /\ phase = "autopost"
      BY <1>1 DEF StartProduction, SetCollectorArea, BeginSettlement, Deliver,
                  FailDelivery, EndSettlement, RunLine, IdleLine, NoAutoPost,
                  Finished, vars
    <2>3. QED
      BY <2>1, <2>2, NoticesKept
  <1>2. QED
    BY <1>1, NoticesPosted, NoticesAged, NoticesPlanned, NoticesSent DEF Next, Command, Tick

\* The engine's own notices never crowd the channel: of each station a tick at
\* an interval carries at most one, and a tick between two intervals none,
\* whatever the agents post (generate_auto_posters, emit_market_broadcasts).
THEOREM NoticesAreFew == Spec => []OneNoticePerInterval
  <1>1. Init => NoticeInv
    <2> SUFFICES ASSUME Init
                 PROVE  NoticeInv
      OBVIOUS
    <2>1. onAir = {} /\ \A s \in Stations : Notices(s) = {}
      BY DEF Init, Notices, Unsent
    <2>2. \A s, t : NoticesHeard(s, t) = {}
      BY <2>1 DEF NoticesHeard
    <2>3. QED
      BY <2>1, <2>2 DEF NoticeInv, OneWaiting, FewHeard
  <1>2. TypeOK /\ NoticeInv /\ [Next]_vars => NoticeInv'
    BY NoticeStep
  <1>3. TypeOK /\ NoticeInv => OneNoticePerInterval
    <2> SUFFICES ASSUME TypeOK, NoticeInv, NEW s \in Stations, NEW t \in 0..tick
                 PROVE  Cardinality(NoticesHeard(s, t))
                          <= IF t % PostInterval = 0 THEN 1 ELSE 0
      BY DEF OneNoticePerInterval
    <2> DEFINE H == NoticesHeard(s, t)
    <2>1. t \in Nat
      BY LifeNumbers
    <2>2. (\A a, b \in H : a = b) /\ (t % PostInterval # 0 => H = {})
      BY <2>1 DEF NoticeInv, FewHeard
    <2> HIDE DEF H
    <2>3. CASE H = {}
      <3>1. Cardinality(H) = 0
        BY <2>3, FS_EmptySet
      <3>2. QED
        BY <3>1 DEF H
    <2>4. CASE H # {}
      <3>1. PICK a \in H : TRUE
        BY <2>4
      <3>2. H = {a}
        BY <2>2, <3>1
      <3>3. Cardinality(H) = 1
        BY <3>2, FS_Singleton
      <3>4. QED
        BY <2>2, <2>4, <3>3 DEF H
    <2>5. QED
      BY <2>3, <2>4
  <1>4. QED
    BY <1>1, <1>2, <1>3, TypeCorrect, PTL DEF Spec

=============================================================================
