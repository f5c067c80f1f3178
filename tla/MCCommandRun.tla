----------------------------- MODULE MCCommandRun -----------------------------
(* CommandRun with pipes of one block and two of the three notices.          *)
EXTENDS CommandRun
=============================================================================
