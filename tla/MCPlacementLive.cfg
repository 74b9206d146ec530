SPECIFICATION FairSpec
CONSTANTS
  n1 = n1
  n2 = n2
  n3 = n3
  noGpu = noGpu
  Request <- MCPair
  Node = {n1, n2, n3}
  Region <- MCRegion
  RegionOf <- MCRegionOf
  Cpus <- MCOneCore
  Gpus <- MCGpus
  Created <- MCCreated
  Unstable = {n1}
  ReserveAdminCore = FALSE
  ReservedRegion = "us-west-1"
  NoGpu = noGpu
  NoNode = NoNode
  NoCore = NoCore
INVARIANTS
  SharedCoreExplained
  PackOldestFirst
PROPERTIES
  LeasesCores
  SerialCallsNeverShare
  CallHangsOnlyInClone
