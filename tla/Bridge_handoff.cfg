SPECIFICATION BridgeSpec
CONSTANTS
  NoMethod <- None
  SinkConsume <- Consume
  SinkBorrow <- Borrow
  Factory <- Bcl
  Programs <- UnverifiedOnes
  Tables <- NoTables
  Orders <- Lists
  MaxSyms = 6
  MaxTrips = 2
  MaxCalls = 3
INVARIANTS
  HandoffSilent
CHECK_DEADLOCK FALSE
