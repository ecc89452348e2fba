---------------------------- MODULE MCHydration ------------------------------
(* Two files in one directory: a key for each and one for the directory.   *)
EXTENDS Hydration, TLC

CONSTANTS f, g, kf, kg, kd, t1, t2

MCCovers == (kf :> {f}) @@ (kg :> {g}) @@ (kd :> {f, g})

Sym == Permutations({t1, t2})
=============================================================================
