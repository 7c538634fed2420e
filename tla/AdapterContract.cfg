\* Three items, two of which may be open, against the event stream of ItemStream.
SPECIFICATION Spec
CONSTANTS
  Id = {a, b, c}
  Texts <- TextsMC
  MaxPending = 2
  MaxItems = 3
  MaxItemText = 2
  MaxAllText = 2
  EventsCap = 1
SYMMETRY Symmetry
INVARIANTS
  PendingCounted
  TextAccounted
PROPERTIES
  Contract
CHECK_DEADLOCK FALSE
