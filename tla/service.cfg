\* A station run by an agent, one without sensors advised by a language model
\* that names any message, a program that submits commands for no station, under
\* a wrong name or of an unknown kind, and a stream that offers and accepts.
SPECIFICATION FairSpec
CONSTANTS
  Station <- Both
  Receiver <- One
  Agent <- One
  Advised <- Two
  Client <- Tool
  Called <- ToolCalls
  Streamed <- MarketStream
  Notices <- WantOfTwo
  MaxTick = 3
  MaxAccepted = 2
  MaxSaid = 1
INVARIANTS
  TypeOK
  NoneWaitsLong
  AgentsAnswerTheSender
  BuyersHeardTheOffer
  CallsAnswerReceived
PROPERTIES
  ImplementsCommandLog
  ServesEveryCommand
