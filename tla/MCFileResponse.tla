---------------------------- MODULE MCFileResponse ----------------------------
(* Small instances of FileResponse for TLC.                                *)
EXTENDS FileResponse

\* Every text extends every shorter one: the task promises that (ItemStream).
OneText == {<<>>, <<1>>}

=============================================================================
