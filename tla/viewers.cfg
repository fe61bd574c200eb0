\* A ring of one tick, so that a stream lags when two ticks are published
\* before it is read; two starts of the engine, two connections, and enough
\* publications for a restart to go back in ticks.
SPECIFICATION FairSpec
CONSTANTS
  Contact <- TwoContacts
  Message <- Notices
  Sky <- Skies
  Ring = 1
  Stale = 0
  FeedCap = 3
  MaxPublished = 3
  MaxRuns = 2
  MaxLinks = 2
  MaxPushed = 2
  WireCap = 1
CHECK_DEADLOCK FALSE
INVARIANTS
  NoSilentGap
  TracksFollowSightings
  FeedComplete
  CommandsAccounted
PROPERTIES
  ImplementsTickFeed
  EveryTickShown
  ServedFromASave
