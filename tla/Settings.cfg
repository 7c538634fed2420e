\* One model of each kind.
SPECIFICATION Spec
CONSTANTS
  Model = {"paraformer-v1", "paraformer-v2", "fun-asr", "fun-asr-old", "qwen-asr", "file"}
  Language = {"zh", "pt"}
  Prompt = {"p", "q"}
  Silence = {100, 500, 1300}
  Realtime = {"paraformer-v1", "paraformer-v2", "fun-asr", "fun-asr-old", "qwen-asr"}
  V1 = {"paraformer-v1"}
  Context = {"fun-asr"}
  Updates = {"fun-asr", "fun-asr-old"}
  Speaks <- SpeaksMC
INVARIANTS
  ToldIsRun
  HistoryFree
  UpdatesAreSafe
CHECK_DEADLOCK FALSE
