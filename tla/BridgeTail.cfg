\* Two turns, of which the second waits for the tail of the first.
SPECIFICATION Spec
CONSTANTS
  Modes = {"qwenVad", "sentVad", "sentManual"}
  MaxTurns = 2
  MaxPending = 4
  MaxIds = 1
  MaxSessionItems = 4
  InboxCap = 1
  QueueCap = 3
  QueueBytes = 5
  MaxTurnText = 4
  MinCommit = 1
  MaxSamples = 1
  MaxText = 2
  Times = {0}
INVARIANTS
  OrderedCommits
  WaitHasAnEnd
  OneBuffer
  DeltasAddUp
  NoOrphanItem
  QueueAccounted
  NoSentenceLost
PROPERTIES
  NeverBlockedAgain
