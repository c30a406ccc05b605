---------------------------- MODULE MCInferenceService ----------------------------
(* Values for the constants of InferenceService: a batch larger than the    *)
(* processor takes at a time, and a request beside it.                      *)
EXTENDS InferenceService

CONSTANTS v1, v2, none, r1, r2, r3, r4
MCVersions == {v1, v2}
MCSingles == {r1}
MCBatches == {<<r2, r3, r4>>}
===================================================================================
