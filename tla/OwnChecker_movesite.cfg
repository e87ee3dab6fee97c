SPECIFICATION CheckerSpec
CONSTANTS
  n1 = n1
  n2 = n2
  Cfgs <- NoGraphs
  MaxSyms = 4
  Resources <- Res
  Types <- Res
  Signatures <- Sigs
  Headers <- MoveSiteHeaders
SYMMETRY Symmetry
INVARIANTS
  ExactMoveSite
CHECK_DEADLOCK FALSE
