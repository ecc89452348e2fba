----------------------------- MODULE MCPushSync -----------------------------
(* Small instances of PushSync for TLC.                                    *)
EXTENDS PushSync, TLC

CONSTANTS a, b, k1, k2

Sym == Permutations({k1, k2})
=============================================================================
