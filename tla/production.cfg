\* Trade and production at once: lines smelt the ore that contracts reserve,
\* deliveries fail, energy varies with the light and the collector area;
\* under the fairness of the tick loop every contract is closed.
SPECIFICATION FairSpec
CONSTANTS
  NumStations = 2
  Material = {"ore", "iron"}
  Raw = {"ore"}
  TechTier <- TierOne
  InitialCredits <- SomeCredits
  Sought <- SoughtIron
  Reaction = {"smelt"}
  ReactionInfo <- Smelting
  InitialStock <- OreOnly
  InitialArea <- SmallArea
  Request <- OreRequest
  AreaRequest <- Areas
  TravelTicks = {2}
  Irradiance = {0, 1}
  PostInterval = 2
  AutoTtl = 4
  SurplusFloor = 2
  ScarceBelow = 1
  MaxWeight = 2
  MaxTick = 3
  MaxMessages = 3
  MaxLines = 2
INVARIANTS
  CreditsConserved
  ReservationsCover
  MatterAccounted
  OneNoticePerInterval
PROPERTIES
  ContractsClose
