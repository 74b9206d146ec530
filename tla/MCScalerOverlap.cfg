SPECIFICATION Spec
CONSTANTS
  d1 = d1
  d2 = d2
  s1 = s1
  s2 = s2
  j1 = j1
  j2 = j2
  Server = {d1, d2, s1, s2}
  Dedicated = {d1, d2}
  Foreign = {d2}
  FirstIx <- MCFirstIx
  Region <- MCRegion
  RegionOf <- MCRegionOf
  Cpus <- MCCpus
  Job = {j1, j2}
  OneShot = {j1, j2}
  User = {u1}
  Flapping = {}
  NoRegion = NoRegion
  NoServer = NoServer
  NoCore = NoCore
INVARIANTS
  NameClashExplained
  OneBuildUnlessOverlooked
  RowsCameUp
PROPERTIES
  DeletesExplained
  JobsInTurnNeverClash
CHECK_DEADLOCK FALSE
