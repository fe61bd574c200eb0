\* Negotiation, contracts, settlement and notices without production: cargo
\* overtakes cargo (travel 1 or 2), offers are accepted repeatedly, by the wrong
\* station and for more than was offered; messages are up as posters for 0 to 3
\* ticks, beside notices for three intervals.
SPECIFICATION Spec
CONSTANTS
  NumStations = 2
  Material = {"ore", "iron", "silicates", "water"}
  Raw = {"ore", "silicates"}
  TechTier <- TierOne
  InitialCredits <- SomeCredits
  Sought <- SoughtWater
  Reaction = {}
  ReactionInfo <- Smelting
  InitialStock <- TwoStocks
  InitialArea <- NoArea
  AreaRequest = {}
  Irradiance = {0}
  PostInterval = 1
  AutoTtl = 2
  SurplusFloor = 100
  ScarceBelow = 1
  MaxWeight = 0
  MaxLines = 0
  Request <- TradeRequest
  TravelTicks = {1, 2}
  MaxTick = 3
  MaxMessages = 4
INVARIANTS
  TypeOK
  ContractsAgreed
  NoneOverdue
  GoodsConserved
  IdleReservesInStock
  EveryDeliveryHonoured
  BroadcastOnce
  PostersExpire
  BothNoticesUp
PROPERTIES
  ImplementsEscrowBank
