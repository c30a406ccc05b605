-------------------------------- MODULE Ledger --------------------------------
(***************************************************************************)
(* What the accounts API promises: every operation on an account takes     *)
(* effect at one instant, on the account as it is at that instant.         *)
(***************************************************************************)
EXTENDS AccountRow

VARIABLES acct,     \* acct[a]: the row of account a
          child     \* child[a]: the child tables' contents for account a

vars == <<acct, child>>

Init == /\ acct = [a \in Accounts |-> NewRow(a)]
        /\ child = [a \in Accounts |-> NoChild]

Perform(a, op) == /\ acct' = [acct EXCEPT ![a] = Assigned(@, op)]
                  /\ child' = [child EXCEPT ![a] = Inserted(@, op)]

Next == \E a \in Accounts, op \in Ops: Perform(a, op)

Spec == Init /\ [][Next]_vars
===============================================================================
