--------------------------- MODULE MCSentenceReader ---------------------------
(* A small instance of SentenceReader for TLC. *)
EXTENDS SentenceReader

BeginMC == <<0, 2, 4>>
EndMC   == <<1, 3, 4>>
TimesMC == -1 .. 2

=============================================================================
