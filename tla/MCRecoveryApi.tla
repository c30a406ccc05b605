----------------------------- MODULE MCRecoveryApi -----------------------------
(* Values for the constants of RecoveryApi.                                *)
EXTENDS RecoveryApi, TLC

CONSTANTS a1, r1, r2, o1, o2

MCAccounts == {a1}
MCOriginal == [a \in MCAccounts |-> 2]
MCTwoRequests == {r1, r2}
MCNoRequests == {}
MCOne == {o1}
MCTwo == {o1, o2}

MCNoOps == {}
MCOps == [kind: {"payment"}, amount: {1, 2}, result: {"completed", "pending"}]
           \union [kind: {"payment"}, amount: {1}, result: {"failed"}]
           \union [kind: {"contact"}, compliant: BOOLEAN]
           \union [kind: {"status"}, to: {"negotiating"}, notes: {FALSE}]

MCAllTexts == SUBSET Features
MCTwoTexts == {{"mini_miranda"}, {"mini_miranda", "threat"}}
MCAllFlags == SUBSET Flags
MCNoFlags == {{}}
MCSomeFlags == {"do_not_call", "disputed"}
MCNone == {}
Symm == Permutations(MCTwo) \union Permutations(MCTwoRequests)
MCDay == {12}
MCHours == {0, 7, 8, 21, 22}
===============================================================================
