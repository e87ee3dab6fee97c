SPECIFICATION CheckerSpec
CONSTANTS
  n1 = n1
  n2 = n2
  Cfgs <- NoGraphs
  MaxSyms = 4
  Resources <- Res
  Types <- SomeUnknown
  Signatures <- Sigs
  Headers <- LoweringHeaders
SYMMETRY Symmetry
INVARIANTS
  GraphSound
  NeverRaises
  BoundBeforeUse
  StackStaysHome
CHECK_DEADLOCK FALSE
