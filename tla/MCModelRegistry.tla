----------------------------- MODULE MCModelRegistry -----------------------------
(* Values for the constants of ModelRegistry: more versions than the cache  *)
(* holds.                                                                   *)
EXTENDS ModelRegistry, TLC

CONSTANTS v1, v2, v3, v4, none
MCVersions == {v1, v2, v3, v4}
MCSymmetry == Permutations(MCVersions)
==================================================================================
