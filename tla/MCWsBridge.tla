----------------------------- MODULE MCWsBridge -----------------------------
(***************************************************************************)
(* Small instances of WsBridge for TLC.                                    *)
(***************************************************************************)
EXTENDS WsBridge

\* Time stamps before, at and beyond the end of the audio received, and none.
AllTimes == {-1} \cup 0 .. MaxSamples + 1

=============================================================================
