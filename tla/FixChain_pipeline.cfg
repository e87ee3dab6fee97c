SPECIFICATION ChainSpec
CONSTANTS
  r1 = r1
  r2 = r2
  p1 = p1
  p2 = p2
  p3 = p3
  s1 = s1
  s2 = s2
  c1 = c1
  c2 = c2
  t1 = t1
  t2 = t2
  Runs <- TwoRuns
  Plans <- ThreePlans
  Sources <- TwoSources
  InputOf <- MadeFrom
  MaxMishaps = 2
  Sites <- SixSites
  Identity <- Identities
  Key <- Keys
  Shape <- Shapes
  Fixable <- Resolved
  Closures <- TwoClosures
  Runtimes <- TwoRuntimes
  Worlds <- SomeWorlds
INVARIANTS
  OwnWorkdir
  NoStaleWorkdir
  EvidenceOfOneAttempt
  AtOneMoment
PROPERTIES
  StoreRefined
  NotAllLose
  RunsEnd
  CertifiedWhenTrue
CHECK_DEADLOCK FALSE
