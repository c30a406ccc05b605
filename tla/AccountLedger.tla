----------------------------- MODULE AccountLedger -----------------------------
(***************************************************************************)
(* The account handlers of api/accounts_router.py.  They are synchronous   *)
(* functions that the web framework runs in a thread pool, each with a     *)
(* database session of its own, so a request has two points where it meets *)
(* the others: the SELECT that loads the account, and the COMMIT that      *)
(* flushes what the handler assigned.  Nothing is locked or versioned      *)
(* between the two.                                                        *)
(***************************************************************************)
EXTENDS AccountRow

CONSTANTS Requests,   \* the requests, each served once
          Overlap     \* may requests on one account overlap?

ASSUME OverlapAssumption == Overlap \in BOOLEAN

VARIABLES acct,     \* acct[a]: the committed row of account a
          child,    \* child[a]: the committed child rows of account a
          req       \* req[r]: how far request r has got

dbVars == <<acct, child>>
vars   == <<acct, child, req>>

Waiting == [phase |-> "waiting"]
Served  == [phase |-> "served"]
Working == [phase: {"working"}, account: Accounts, op: Ops, loaded: Row]

TypeOK == /\ acct \in [Accounts -> Row]
          /\ child \in [Accounts -> Child]
          /\ req \in [Requests -> {Waiting, Served} \union Working]

IsWorking(r) == req[r].phase = "working"
WorkingOn(a) == {r \in Requests: IsWorking(r) /\ req[r].account = a}

Init == /\ acct = [a \in Accounts |-> NewRow(a)]
        /\ child = [a \in Accounts |-> NoChild]
        /\ req = [r \in Requests |-> Waiting]

(* get_account_or_404: the SELECT that every handler begins with.          *)
GetAccount(r, a, op) ==
  /\ req[r] = Waiting
  /\ Overlap \/ WorkingOn(a) = {}
  /\ req' = [req EXCEPT ![r] = [phase |-> "working", account |-> a,
                                op |-> op, loaded |-> acct[a]]]
  /\ UNCHANGED dbVars

(* Mutant: the request is not finished when it has committed, so that it   *)
(* may commit again.                                                       *)
CommitRepeatable(r) ==
  LET a == req[r].account
      op == req[r].op
      loaded == req[r].loaded
  IN /\ acct' = [acct EXCEPT ![a] = Flushed(@, loaded, Assigned(loaded, op))]
     /\ child' = [child EXCEPT ![a] = Inserted(@, op)]
     /\ req' = req

(* The rest of a handler, up to its db.commit().                           *)
Commit(r) ==
  LET a == req[r].account
      op == req[r].op
      loaded == req[r].loaded
  IN /\ acct' = [acct EXCEPT ![a] = Flushed(@, loaded, Assigned(loaded, op))]
     /\ child' = [child EXCEPT ![a] = Inserted(@, op)]
     /\ req' = [req EXCEPT ![r] = Served]

UpdateAccountStatus(r) == IsWorking(r) /\ req[r].op.kind = "status"  /\ Commit(r)
LogContactAttempt(r)   == IsWorking(r) /\ req[r].op.kind = "contact" /\ Commit(r)
RecordPayment(r)       == IsWorking(r) /\ req[r].op.kind = "payment" /\ Commit(r)

Next == \E r \in Requests:
          \/ \E a \in Accounts, op \in Ops: GetAccount(r, a, op)
          \/ UpdateAccountStatus(r)
          \/ LogContactAttempt(r)
          \/ RecordPayment(r)

Spec == Init /\ [][Next]_vars

-------------------------------------------------------------------------------
(* A row b is covered by child rows c when its rollups count no more than  *)
(* c holds, and its balance understates no debt that c leaves open.        *)
Covers(a, c, b) == /\ b.attempts <= c.contacts
                   /\ b.paid <= c.completed
                   /\ Original[a] <= b.balance + c.completed

(* With overlapping requests a rollup may lose an update (see              *)
(* PaidInFullOwesNothing), but it never counts one that was not made, and the   *)
(* balance never understates the debt that the recorded payments leave     *)
(* open (record_payment 281-285).                                          *)
RollupsNeverExceedRows == \A a \in Accounts: Covers(a, child[a], acct[a])

(* Because only changed columns are written, no status change and no       *)
(* contact can move money, whatever it overlaps: the money columns of an   *)
(* account move only in the step that inserts a completed payment.         *)
MoneyMovesOnlyWithPayments ==
  [][\A a \in Accounts:
       acct'[a].balance # acct[a].balance \/ acct'[a].paid # acct[a].paid
         => child'[a].completed > child[a].completed]_vars

(* README.md:83: a payment updates the balance and resolves the account on *)
(* full payment.  When the payments recorded for an account cover its      *)
(* original balance and no request on it is running, nothing is owed.      *)
PaidInFullOwesNothing ==
  \A a \in Accounts:
    child[a].completed >= Original[a] /\ WorkingOn(a) = {}
      => acct[a].balance = 0

(* Without overlap the ledger is exact.                                    *)
LedgerExact ==
  \A a \in Accounts: /\ acct[a].attempts = child[a].contacts
                     /\ acct[a].paid = child[a].completed
                     /\ acct[a].balance = Less(Original[a], child[a].completed)

(* The row a handler works on is covered too, however old it has become.   *)
LoadedCovered ==
  \A r \in Requests: IsWorking(r) => Covers(req[r].account,
                                           child[req[r].account], req[r].loaded)

(* Without overlap the handlers implement the atomic ledger.               *)
Atomic == INSTANCE Ledger
AtomicSpec == Atomic!Spec
===============================================================================
