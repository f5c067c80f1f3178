--------------------------- MODULE MCPanelLifecycle ---------------------------
(* Instances of PanelLifecycle for TLC.                                     *)
EXTENDS PanelLifecycle
=============================================================================
