--------------------------- MODULE MCSessionControl ---------------------------
(* SessionControl on two worker slots and one adb target.                   *)
EXTENDS SessionControl, TLC

Symmetry == Permutations(Sessions)
=============================================================================
