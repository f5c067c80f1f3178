--------------------------- MODULE MCHelperRuntime ----------------------------
(* HelperRuntime with a small set of interchangeable workers.                *)
EXTENDS HelperRuntime

Symmetry == Permutations(Sessions)
=============================================================================
