\* A failed delivery leaves the seller reservation in place.
SPECIFICATION Spec
CONSTANTS
  NumStations = 2
  Material = {"ore", "iron"}
  Raw = {"ore"}
  TechTier <- TierOne
  InitialCredits <- SomeCredits
  Sought <- SoughtIron
  Reaction = {"smelt"}
  ReactionInfo <- Smelting
  InitialStock <- OreOnly
  InitialArea <- SmallArea
  Request <- OreRequest
  AreaRequest <- Areas
  TravelTicks = {2}
  Irradiance = {0, 1}
  PostInterval = 2
  AutoTtl = 4
  SurplusFloor = 2
  ScarceBelow = 1
  MaxWeight = 0
  MaxTick = 3
  MaxMessages = 2
  MaxLines = 2
INVARIANT ReservedOnlyForActive
