---------------------------- MODULE MCQwenAdapter ----------------------------
(***************************************************************************)
(* Small instances of QwenAdapter for TLC.                                 *)
(***************************************************************************)
EXTENDS QwenAdapter, TLC

\* Texts that extend and shorten one another, and one that is too long.
TextsMC == {<<>>, <<1>>, <<1, 2>>, <<1, 2, 2>>}

Symmetry == Permutations(Id)

=============================================================================
