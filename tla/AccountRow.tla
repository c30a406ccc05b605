------------------------------ MODULE AccountRow ------------------------------
(***************************************************************************)
(* The accounts table and its child tables as the account handlers see     *)
(* them (models/database.py, api/accounts_router.py): what each handler    *)
(* assigns to the row it loaded, what it inserts, and which columns the    *)
(* ORM writes back.  Money is counted in cents, so it is a natural number. *)
(***************************************************************************)
EXTENDS Naturals

CONSTANTS Accounts,     \* the accounts of the portfolio
          Original,     \* Original[a]: original_balance of account a
          Ops           \* the operations that callers issue

Status == {"ingested", "enriched", "scored", "contacted", "negotiating",
           "payment_pending", "resolved"}
PaymentResult == {"completed", "pending", "failed"}
Early  == {"scored", "enriched", "ingested"}

StatusOp  == [kind: {"status"}, to: Status, notes: BOOLEAN]
ContactOp == [kind: {"contact"}, compliant: BOOLEAN]
PaymentOp == [kind: {"payment"}, amount: Nat \ {0}, result: PaymentResult]
Op == StatusOp \union ContactOp \union PaymentOp

ASSUME RowAssumption == /\ Original \in [Accounts -> Nat]
                        /\ Ops \subseteq Op

(* One row of accounts, and what the child tables hold for it: the number  *)
(* of contact_attempts, the sum of completed payments, and the number of   *)
(* compliance_events.                                                      *)
Row   == [status: Status, attempts: Nat, paid: Nat, balance: Nat]
Child == [contacts: Nat, completed: Nat, events: Nat]

NewRow(a) == [status |-> "scored", attempts |-> 0, paid |-> 0,
              balance |-> Original[a]]
NoChild   == [contacts |-> 0, completed |-> 0, events |-> 0]

(* The definitions called mutants, here and in the other modules, are      *)
(* mistakes that a change of the code might make; each stands before the   *)
(* definition it would replace, and some property is known to catch it.    *)

(* Mutant: the balance is not kept from falling below zero.                *)
LessUnclamped(x, y) == x - y
Less(x, y) == IF x <= y THEN 0 ELSE x - y
One(cond)  == IF cond THEN 1 ELSE 0

(* Mutant: only the first contact is counted.                              *)
TouchedOnce(row) ==
  IF row.status \in Early
  THEN [row EXCEPT !.attempts = @ + 1, !.status = "contacted"] ELSE row

Touched(row) == [row EXCEPT !.attempts = @ + 1,
                            !.status = IF @ \in Early THEN "contacted" ELSE @]

Credited(row, amount) ==
  LET left == Less(row.balance, amount)
  IN  [row EXCEPT !.paid = @ + amount,
                  !.balance = left,
                  !.status = IF left = 0 THEN "resolved" ELSE "payment_pending"]

(* Mutant: a pending payment is credited like a completed one.             *)
AssignedOnPending(row, op) ==
  CASE op.kind = "status"  -> [row EXCEPT !.status = op.to]
    [] op.kind = "contact" -> Touched(row)
    [] op.kind = "payment" -> IF op.result = "failed" THEN row
                                                      ELSE Credited(row, op.amount)

(* What the handler of op leaves in the account object it works on.        *)
Assigned(row, op) ==
  CASE op.kind = "status"  -> [row EXCEPT !.status = op.to]
    [] op.kind = "contact" -> Touched(row)
    [] op.kind = "payment" ->
         CASE op.result = "completed" -> Credited(row, op.amount)
           [] op.result = "pending"   -> [row EXCEPT !.status = "payment_pending"]
           [] op.result = "failed"    -> row

(* What the handler of op adds to the child tables.                        *)
Inserted(child, op) ==
  CASE op.kind = "status"  -> [child EXCEPT !.events = @ + One(op.notes)]
    [] op.kind = "contact" -> [child EXCEPT !.contacts = @ + 1,
                                            !.events = @ + One(~op.compliant)]
    [] op.kind = "payment" ->
         [child EXCEPT !.completed =
            @ + (IF op.result = "completed" THEN op.amount ELSE 0)]

(* The ORM's UPDATE: a column is written only if its value differs from    *)
(* the value that was loaded; any other column keeps what the row has now. *)
Column(now, loaded, assigned) == IF assigned # loaded THEN assigned ELSE now

Flushed(row, loaded, assigned) ==
  [status   |-> Column(row.status, loaded.status, assigned.status),
   attempts |-> Column(row.attempts, loaded.attempts, assigned.attempts),
   paid     |-> Column(row.paid, loaded.paid, assigned.paid),
   balance  |-> Column(row.balance, loaded.balance, assigned.balance)]
===============================================================================
