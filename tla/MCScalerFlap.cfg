SPECIFICATION Spec
CONSTANTS
  d1 = d1
  d2 = d2
  s1 = s1
  s2 = s2
  j1 = j1
  j2 = j2
  Server = {d1, s1}
  Dedicated = {d1}
  Foreign = {}
  FirstIx <- MCFirstIx
  Region <- MCRegion
  RegionOf <- MCRegionOf
  Cpus <- MCCpus
  Job = {j1}
  OneShot = {}
  User = {u1, u2}
  Flapping = {s1}
  NoRegion = NoRegion
  NoServer = NoServer
  NoCore = NoCore
PROPERTY
  LongSessionSurvives
