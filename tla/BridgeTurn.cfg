\* One turn with two items or sentences, late boundaries, and clear.
SPECIFICATION Spec
CONSTANTS
  Modes = {"sentVad", "qwenVad", "qwenManual"}
  MaxTurns = 1
  MaxPending = 1
  MaxIds = 2
  MaxSessionItems = 2
  InboxCap = 2
  QueueCap = 3
  QueueBytes = 5
  MaxTurnText = 1
  MinCommit = 1
  MaxSamples = 2
  MaxText = 1
  Times <- AllTimes
INVARIANTS
  OneOutcome
PROPERTIES
  BoundarySound
  ClearedIsSilent
