---------------------------- MODULE MCPairingFlow -----------------------------
(* PairingFlow with pipes of one block and a phone that answers on one of   *)
(* two addresses.                                                            *)
EXTENDS PairingFlow
=============================================================================
