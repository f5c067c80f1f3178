---------------------------- MODULE MCPanelSession ----------------------------
(* PanelSession with a small set of interchangeable workers.                 *)
EXTENDS PanelSession

Symmetry == Permutations(Sessions)
=============================================================================
