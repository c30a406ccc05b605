---------------------------- MODULE MCAccountLedger ----------------------------
(* Values for the constants of AccountLedger.                              *)
EXTENDS AccountLedger, TLC

CONSTANTS a1, r1, r2, r3

MCAccounts == {a1}
MCRequests == {r1, r2, r3}
MCOriginal == [a \in MCAccounts |-> 3]

Payments(amounts, results) ==
  [kind: {"payment"}, amount: amounts, result: results]

(* A payment of part of the debt, one of the rest, and each other kind.    *)
MCOps == Payments({1, 2}, {"completed"}) \union Payments({1}, {"pending", "failed"})
           \union [kind: {"contact"}, compliant: BOOLEAN]
           \union [kind: {"status"}, to: {"negotiating", "resolved"}, notes: {TRUE}]

Symm == Permutations(MCRequests)
===============================================================================
