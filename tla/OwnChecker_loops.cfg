SPECIFICATION CheckerSpec
CONSTANTS
  n1 = n1
  n2 = n2
  Cfgs <- NoGraphs
  MaxSyms = 2
  Resources <- Res
  Types <- Res
  Signatures <- Sigs
  Headers <- LoopHeaders
INVARIANTS
  ReportsOnFixpoint
  OverwritesDiagnosed
  TypeOK
PROPERTIES
  Terminates
CHECK_DEADLOCK FALSE
