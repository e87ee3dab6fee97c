SPECIFICATION CheckerSpec
CONSTANTS
  n1 = n1
  n2 = n2
  Cfgs <- NoGraphs
  MaxSyms = 2
  Resources <- Res
  Types <- Res
  Signatures <- Sigs
  Headers <- ReturnHeaders
INVARIANTS
  ReturnsChecked
CHECK_DEADLOCK FALSE
