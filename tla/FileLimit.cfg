\* README, Capacity and Concurrency Limits: checked against the code.
SPECIFICATION Spec
CONSTANTS
  Id = {a, b, c}
  Texts <- OneText
  EventsCap = 1
  MaxWaiting = 2
  MaxBuffered = 3
  MaxTranscript = 3
INVARIANTS
  LimitCountsUnfinished
