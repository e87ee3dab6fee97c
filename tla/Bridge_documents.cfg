SPECIFICATION BridgeSpec
CONSTANTS
  NoMethod <- None
  SinkConsume <- Consume
  SinkBorrow <- Borrow
  Factory <- Bcl
  Programs <- AllDocuments
  Tables <- NoTables
  Orders <- Lists
  MaxSyms = 6
  MaxTrips = 2
  MaxCalls = 3
INVARIANTS
  TransfersHold
  LoweringExact
  OverwrittenLeaks
  HoistInventsNoLeak
CHECK_DEADLOCK FALSE
