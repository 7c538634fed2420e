\* Two items or sentences in any order of results, and the two goroutines of the response.
SPECIFICATION FairSpec
CONSTANTS
  Id = {a, b}
  Texts <- OneText
  EventsCap = 1
  MaxWaiting = 2
  MaxBuffered = 2
  MaxTranscript = 2
INVARIANTS
  Linear
  BufferAccounted
  SuccessIsComplete
PROPERTIES
  Leaves
