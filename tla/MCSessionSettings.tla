-------------------------- MODULE MCSessionSettings --------------------------
(* A small instance of SessionSettings for TLC: one model of each kind. *)
EXTENDS SessionSettings

SpeaksMC ==
  [m \in Model |-> IF m \in {"fun-asr", "qwen-asr"} THEN {"zh", "pt"} ELSE {"zh"}]

=============================================================================
