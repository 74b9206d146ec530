SPECIFICATION Spec
CONSTANTS
  d1 = d1
  c1 = c1
  c2 = c2
  Server = {d1, c1, c2}
  Dedicated = {d1}
  FirstName <- MCFirstName
  FirstRegion <- MCFirstRegion
  FirstFlavor <- MCFirstFlavor
  HandName <- MCHandName
  HandFlavor <- MCHandFlavor
  Call = {u1}
  NoServer = NoServer
  NoIndex = NoIndex
INVARIANT
  OnlyJukeboxesByHand
SYMMETRY Clouds
CHECK_DEADLOCK FALSE
