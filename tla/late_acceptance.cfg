\* An offer is accepted after its ticks are over.
SPECIFICATION Spec
CONSTANTS
  NumStations = 2
  Material = {"ore", "iron", "silicates", "water"}
  Raw = {"ore", "silicates"}
  TechTier <- TierOne
  InitialCredits <- SomeCredits
  Sought <- SoughtWater
  Reaction = {}
  ReactionInfo <- Smelting
  InitialStock <- TwoStocks
  InitialArea <- NoArea
  AreaRequest = {}
  Irradiance = {0}
  PostInterval = 1
  AutoTtl = 2
  SurplusFloor = 100
  ScarceBelow = 1
  MaxWeight = 0
  MaxLines = 0
  Request <- TradeRequest
  TravelTicks = {1, 2}
  MaxTick = 4
  MaxMessages = 2
INVARIANT OpenWhenAccepted
