SPECIFICATION FairSpec
CONSTANTS
  call1 = call1
  job1 = job1
  ovh1 = ovh1
  state1 = state1
  pull1 = pull1
  Request = {call1, job1, ovh1, state1, pull1}
  Kind <- MCKind
  Node = {n1, n2}
  Pool = 1
  Workers = 2
  Threads = 1
  NoRequest = NoRequest
INVARIANTS
  NoLeak
  ThreadLeft
  PullWaitsForAll
  
PROPERTIES
  NoStepBack
  
CHECK_DEADLOCK FALSE
