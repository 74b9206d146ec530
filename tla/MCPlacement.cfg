SPECIFICATION Spec
CONSTANTS
  n1 = n1
  n2 = n2
  n3 = n3
  noGpu = noGpu
  Request <- MCRequest
  Node = {n1, n3}
  Region <- MCRegion
  RegionOf <- MCRegionOf
  Cpus <- MCCpus
  Gpus <- MCGpus
  Created <- MCCreated
  Unstable = {}
  ReserveAdminCore = TRUE
  ReservedRegion = "us-west-1"
  NoGpu = noGpu
  NoNode = NoNode
  NoCore = NoCore
INVARIANTS
  TypeOK
  SharedCoreExplained
  AdminCoreKept
CHECK_DEADLOCK FALSE
