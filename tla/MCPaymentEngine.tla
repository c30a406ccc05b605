---------------------------- MODULE MCPaymentEngine ----------------------------
(* Values for the constants of PaymentEngine.                              *)
EXTENDS PaymentEngine, TLC

CONSTANTS k1, k2, a1, m1, m2
MCPayKeys == {k1, k2}
MCAuthKeys == {a1}
MCSymmetry == Permutations(MCPayKeys)
MCMethods == {m1, m2}
MCExpired == {m2}
MCAmounts == {3, 5}
===============================================================================
