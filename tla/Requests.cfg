\* Two requests and one slot.
SPECIFICATION FairSpec
CONSTANTS
  Request = {r1, r2}
  Capacity = 1
  InputCap = 1
  MaxTasks = 2
INVARIANTS
  SlotsAccounted
  NothingLeft
PROPERTIES
  DoneReturns
  DisconnectEnds
