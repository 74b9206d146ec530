SPECIFICATION Spec
CONSTANTS
  n1 = n1
  n2 = n2
  n3 = n3
  noGpu = noGpu
  Request <- MCPair
  Node = {n1, n2}
  Region <- MCRegion
  RegionOf <- MCRegionOf
  Cpus <- MCTwoCores
  Gpus <- MCGpus
  Created <- MCCreated
  Unstable = {}
  ReserveAdminCore = TRUE
  ReservedRegion = "us-west-1"
  NoGpu = noGpu
  NoNode = NoNode
  NoCore = NoCore
INVARIANT
  CrashOnlyWhenNothingFits
CHECK_DEADLOCK FALSE
