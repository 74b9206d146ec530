SPECIFICATION Spec
CONSTANTS
  stop1 = stop1
  pause1 = pause1
  pause2 = pause2
  resume1 = resume1
  resume2 = resume2
  state1 = state1
  pull1 = pull1
  Call = {stop1, pause1, pause2, resume1, resume2, state1, pull1}
  Op <- MCOp
  NoCall = NoCall
SYMMETRY MCSymmetry
INVARIANTS
  StopIsFinal
  PausedStaysPaused
  StreamExplained
  StateFailsExplained
PROPERTY
  ActsAtomically
CHECK_DEADLOCK FALSE
