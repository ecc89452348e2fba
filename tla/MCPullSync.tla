----------------------------- MODULE MCPullSync -----------------------------
(* Instances of PullSync for TLC.                                          *)
EXTENDS PullSync
=============================================================================
