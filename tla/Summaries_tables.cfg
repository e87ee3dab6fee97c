SPECIFICATION SummariesSpec
CONSTANTS
  NoMethod <- None
  Orders <- NoOrders
  Tables <- AllTables
  KeyOrders <- Both
INVARIANTS
  BottomUp
  TransferSound
  SummariesLeast
  ReturnsExact
  LogComplete
PROPERTIES
  OnlyRises
  CondensationRefines
  SummariesEnd
CHECK_DEADLOCK FALSE
