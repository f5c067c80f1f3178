---------------------------- MODULE MCScrcpyConfig ----------------------------
(* ScrcpyConfig with two configurations, one of them with --turn-screen-off. *)
EXTENDS ScrcpyConfig
=============================================================================
