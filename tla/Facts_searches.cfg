SPECIFICATION FactsSpec
CONSTANTS
  a = a
  b = b
  c = c
  id = id
  expr = expr
  Programs <- AllPrograms
  LifetimeModules <- AllLifetimeModules
  Registrations <- AllRegistrations
  Bound <- BoundNames
  Plain <- PlainNames
  Opaque <- OpaqueNames
  Tables <- AllTables
  DepList <- AllDeps
  Checks <- AllChecks
INVARIANTS
  ProvenCallsHarmless
  EscapesExact
  CaptivesExact
  StormExact
  EvidenceIsReal
  CrossingsReported
  DefiniteCrossing
PROPERTIES
  FactsEnd
CHECK_DEADLOCK FALSE
