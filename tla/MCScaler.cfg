SPECIFICATION Spec
CONSTANTS
  d1 = d1
  d2 = d2
  s1 = s1
  s2 = s2
  j1 = j1
  j2 = j2
  Server = {d1, s1, s2}
  Dedicated = {d1}
  Foreign = {}
  FirstIx <- MCFirstIx
  Region <- MCRegion
  RegionOf <- MCRegionOf
  Cpus <- MCCpus
  Job = {j1}
  OneShot = {}
  User = {u1}
  Flapping = {d1}
  NoRegion = NoRegion
  NoServer = NoServer
  NoCore = NoCore
SYMMETRY MCSymmetry
INVARIANTS
  TypeOK
  NameClashExplained
PROPERTY
  LongSessionSurvives
