\* The goroutines of a task in every order.
SPECIFICATION FairSpec
CONSTANTS
  EventsCap = 1
  InboxCap = 1
INVARIANTS
  NoTimerLeft
  OneEnd
  FinishedIsGenuine
PROPERTIES
  GoroutinesEnd
  FinishEnds
