SPECIFICATION Spec
CONSTANTS
  n1 = n1
  n2 = n2
  n3 = n3
  noGpu = noGpu
  Request <- MCPair
  Node = {n1}
  Region <- MCRegion
  RegionOf <- MCRegionOf
  Cpus <- MCCpus
  Gpus <- MCGpus
  Created <- MCCreated
  Unstable = {}
  ReserveAdminCore = FALSE
  ReservedRegion = "us-west-1"
  NoGpu = noGpu
  NoNode = NoNode
  NoCore = NoCore
INVARIANT
  UsageCountsCores
CHECK_DEADLOCK FALSE
