\* A line of a few bodies.
SPECIFICATION FairSpec
CONSTANTS
  Circular <- LineOfOrbits
  Snapshots <- Files
  KnownMass <- KnownMasses
  Profile <- Profiles
  Candidates <- Surfaces
  CommandSets <- Burns
  ShipBase = 1000
  StationBase = 2000
  OneAU = 75
  Orbit = 12
  Height = 3
  HeatPerMass = 20
  ShipFuel = 8
  RoomTemp = 1
  WantedShips = {1, 2}
  WantedStations = {1, 3}
  TICK = 4
  Influencers = 1
  Softening = 17
  DryMass = 8
  Isp = 1
  MaxFlow = 1
  ShipRadius = 5
  StationRadius = 2
  ShipCapacity = 4000
  ShipArea = 40
  Light = 20
  HistoryRange = 160
  Budget = 40
  PassiveCap = 6
  Gain = 2000
  NoiseFloor = 5
  LunaId = 9999
  MaxTick = 5
  MaxResumes = 1
CHECK_DEADLOCK FALSE
INVARIANTS
  Reversible
  MergersConserve
  HistoryIsTrue
  LightTakesItsTime
  SeenWhenLit
  ShadowsAgree
PROPERTIES
  StartsUp
