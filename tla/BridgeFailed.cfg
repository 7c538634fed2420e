\* README, Errors and Disconnections: a failure that is reported for
\* one of two committed turns.
SPECIFICATION Spec
CONSTANTS
  Modes = {"sentManual"}
  MaxTurns = 2
  MaxPending = 4
  MaxIds = 1
  MaxSessionItems = 4
  InboxCap = 1
  QueueCap = 3
  QueueBytes = 5
  MaxTurnText = 4
  MinCommit = 1
  MaxSamples = 1
  MaxText = 1
  Times = {0}
INVARIANTS
  FailureIsToldOfAll
