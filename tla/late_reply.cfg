\* A reply to a message received a tick earlier is refused as not received.
SPECIFICATION Spec
CONSTANTS
  Station <- Both
  Receiver <- One
  Agent <- One
  Advised <- Nobody
  Client <- Nobody
  Called <- Nothing
  Streamed <- OfferStream
  Notices <- Nothing
  MaxTick = 4
  MaxAccepted = 3
  MaxSaid = 0
INVARIANTS
  RefusalsTruthful
