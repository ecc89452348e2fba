----------------------------- MODULE MCCacheFs -----------------------------
(* Instances of CacheFs for TLC: two names, each with its derived sibling. *)
EXTENDS CacheFs, TLC

CONSTANTS a, b, sa, sb

SiblingNames == (a :> sa) @@ (b :> sb)

(* The names may be exchanged together with their siblings.                *)
Swap == {(a :> b) @@ (b :> a) @@ (sa :> sb) @@ (sb :> sa)}
=============================================================================
