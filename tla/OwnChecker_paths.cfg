SPECIFICATION CheckerSpec
CONSTANTS
  n1 = n1
  n2 = n2
  Cfgs <- NoGraphs
  MaxSyms = 4
  Resources <- Res
  Types <- Res
  Signatures <- Sigs
  Headers <- PathHeaders
SYMMETRY Symmetry
INVARIANTS
  StateCovered
  FaultsDiagnosed
  LeaksDiagnosed
  DefiniteMeansEveryPath
CHECK_DEADLOCK FALSE
