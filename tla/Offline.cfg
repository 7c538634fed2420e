\* Two segments that share a slot, cancellation, and a restart.
SPECIFICATION FairSpec
CONSTANTS
  Request = {r1}
  Modes = {"inline", "webdav"}
  MaxSegments = 2
  Concurrency = 1
  MaxAttempts = 2
  MaxCrashes = 1
INVARIANTS
  SlotsAccounted
  FileLifetime
  SuccessIsEarned
  DirsAccounted
PROPERTIES
  CancelledReturns
  RequestsReturn
