SPECIFICATION CheckerSpec
CONSTANTS
  n1 = n1
  n2 = n2
  Cfgs <- NoGraphs
  MaxSyms = 3
  Resources <- Res
  Types <- Res
  Signatures <- Sigs
  Headers <- LendHeaders
INVARIANTS
  ExclusiveForCall
CHECK_DEADLOCK FALSE
