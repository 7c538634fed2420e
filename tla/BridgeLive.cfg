\* A committed turn ends, under the fairness of FairSpec.
SPECIFICATION FairSpec
CONSTANTS
  Modes = {"qwenVad", "sentManual"}
  MaxTurns = 2
  MaxPending = 4
  MaxIds = 1
  MaxSessionItems = 4
  InboxCap = 1
  QueueCap = 2
  QueueBytes = 5
  MaxTurnText = 4
  MinCommit = 1
  MaxSamples = 1
  MaxText = 0
  Times = {0}
PROPERTIES
  CommittedTurnsEnd
