\* Three utterances, and any results with four time stamps.
SPECIFICATION Spec
CONSTANTS
  Protocols = {"fun-asr", "paraformer"}
  Utterances = 3
  Begin <- BeginMC
  End <- EndMC
  MaxId = 2
  Times <- TimesMC
INVARIANTS
  EachUtteranceOnce
  OrderlyAccepted
PROPERTIES
  Contract
CHECK_DEADLOCK FALSE
