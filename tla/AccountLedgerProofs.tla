-------------------------- MODULE AccountLedgerProofs --------------------------
(***************************************************************************)
(* What AccountLedger guarantees for every set of accounts, of requests    *)
(* and of operations.                                                      *)
(***************************************************************************)
EXTENDS AccountLedger, TLAPS

(* A handler assigns a row to a row, and what it inserts is a child row.   *)
LEMMA AssignedType ==
  ASSUME NEW row \in Row, NEW op \in Op
  PROVE  Assigned(row, op) \in Row
<1>1. CASE op \in StatusOp
  BY <1>1 DEF Assigned, Row, StatusOp, Status
<1>2. CASE op \in ContactOp
  <2>1. Assigned(row, op) = Touched(row)
    BY <1>2 DEF Assigned, ContactOp
  <2> DEFINE s == IF row.status \in Early THEN "contacted" ELSE row.status
  <2>2. s \in Status /\ row.attempts + 1 \in Nat
    BY DEF Row, Status
  <2>3. [row EXCEPT !.attempts = @ + 1, !.status = s] \in Row
    <3> HIDE DEF s
    <3> QED BY <2>2 DEF Row
  <2>4. QED
    BY <2>1, <2>3 DEF Touched
<1>3. CASE op \in PaymentOp
  <2>1. Credited(row, op.amount) \in Row
    <3> DEFINE left == Less(row.balance, op.amount)
               s == IF left = 0 THEN "resolved" ELSE "payment_pending"
    <3>1. left \in Nat /\ row.paid + op.amount \in Nat
      BY <1>3 DEF Less, Row, PaymentOp
    <3>2. s \in Status
      BY DEF Status
    <3>3. [row EXCEPT !.paid = @ + op.amount, !.balance = left, !.status = s] \in Row
      <4> HIDE DEF left, s
      <4> QED BY <3>1, <3>2 DEF Row
    <3>4. QED
      BY <3>3 DEF Credited
  <2>2. [row EXCEPT !.status = "payment_pending"] \in Row
    BY DEF Row, Status
  <2>3. QED
    BY <1>3, <2>1, <2>2 DEF Assigned, PaymentOp, PaymentResult
<1>4. QED
  BY <1>1, <1>2, <1>3 DEF Op

LEMMA InsertedType ==
  ASSUME NEW c \in Child, NEW op \in Op
  PROVE  Inserted(c, op) \in Child
<1>0. \A cond: One(cond) \in Nat
  BY DEF One
<1>1. CASE op \in StatusOp
  <2>1. Inserted(c, op) = [c EXCEPT !.events = @ + One(op.notes)]
    BY <1>1 DEF Inserted, StatusOp
  <2>2. c.events + One(op.notes) \in Nat
    BY <1>0 DEF Child
  <2>3. QED
    BY <2>1, <2>2 DEF Child
<1>2. CASE op \in ContactOp
  <2>1. Inserted(c, op) = [c EXCEPT !.contacts = @ + 1,
                                    !.events = @ + One(~op.compliant)]
    BY <1>2 DEF Inserted, ContactOp
  <2>2. c.contacts + 1 \in Nat /\ c.events + One(~op.compliant) \in Nat
    BY <1>0 DEF Child
  <2>3. QED
    BY <2>1, <2>2 DEF Child
<1>3. CASE op \in PaymentOp
  <2> DEFINE sum == IF op.result = "completed" THEN op.amount ELSE 0
  <2>1. Inserted(c, op) = [c EXCEPT !.completed = @ + sum]
    BY <1>3 DEF Inserted, PaymentOp
  <2>2. c.completed + sum \in Nat
    BY <1>3 DEF Child, PaymentOp
  <2>3. QED
    <3> HIDE DEF sum
    <3> QED BY <2>1, <2>2 DEF Child
<1>4. QED
  BY <1>1, <1>2, <1>3 DEF Op

(* Flushing one row over another, column by column, gives a row.           *)
LEMMA FlushedType ==
  ASSUME NEW row \in Row, NEW loaded \in Row, NEW assigned \in Row
  PROVE  Flushed(row, loaded, assigned) \in Row
BY DEF Flushed, Column, Row

(* What a handler assigns is covered after its insert if what it loaded    *)
(* was covered before.                                                     *)
LEMMA AssignedCovered ==
  ASSUME NEW a \in Accounts, NEW c \in Child, NEW b \in Row, NEW op \in Op,
         Covers(a, c, b)
  PROVE  Covers(a, Inserted(c, op), Assigned(b, op))
<1>0. Original[a] \in Nat
  BY RowAssumption
<1>1. CASE op \in StatusOp
  BY <1>0, <1>1 DEF Covers, Inserted, Assigned, StatusOp, Child, Row
<1>2. CASE op \in ContactOp
  BY <1>0, <1>2 DEF Covers, Inserted, Assigned, Touched, ContactOp, Child, Row
<1>3. CASE op \in PaymentOp
  <2>1. CASE op.result = "completed"
    BY <1>0, <1>3, <2>1
       DEF Covers, Inserted, Assigned, Credited, Less, PaymentOp, Child, Row
  <2>2. CASE op.result = "pending"
    BY <1>0, <1>3, <2>2 DEF Covers, Inserted, Assigned, PaymentOp, Child, Row
  <2>3. CASE op.result = "failed"
    BY <1>0, <1>3, <2>3 DEF Covers, Inserted, Assigned, PaymentOp, Child, Row
  <2>4. QED
    BY <1>3, <2>1, <2>2, <2>3 DEF PaymentOp, PaymentResult
<1>4. QED
  BY <1>1, <1>2, <1>3 DEF Op

(* Inserting child rows uncovers nothing.                                  *)
LEMMA InsertKeepsCover ==
  ASSUME NEW a \in Accounts, NEW c \in Child, NEW b \in Row, NEW op \in Op,
         Covers(a, c, b)
  PROVE  Covers(a, Inserted(c, op), b)
<1>0. Original[a] \in Nat
  BY RowAssumption
<1>1. /\ c.contacts <= Inserted(c, op).contacts
      /\ c.completed <= Inserted(c, op).completed
  BY DEF Inserted, Op, StatusOp, ContactOp, PaymentOp, Child
<1>2. Inserted(c, op) \in Child
  BY InsertedType
<1>3. QED
  BY <1>0, <1>1, <1>2 DEF Covers, Child, Row

LEMMA FlushCovered ==
  ASSUME NEW a \in Accounts, NEW c \in Child,
         NEW row \in Row, NEW loaded \in Row, NEW assigned \in Row,
         Covers(a, c, row), Covers(a, c, assigned)
  PROVE  Covers(a, c, Flushed(row, loaded, assigned))
BY RowAssumption DEF Covers, Flushed, Column, Row, Child
-------------------------------------------------------------------------------
(* The inductive invariant: the bounds on the committed row hold because   *)
(* they hold of every copy that will be written back over it.              *)
IInv == TypeOK /\ RollupsNeverExceedRows /\ LoadedCovered

LEMMA InitIInv == Init => IInv
<1> SUFFICES ASSUME Init PROVE IInv
  OBVIOUS
<1>1. \A a \in Accounts: NewRow(a) \in Row /\ Original[a] \in Nat
  BY RowAssumption DEF NewRow, Row, Status
<1>2. NoChild \in Child
  BY DEF NoChild, Child
<1>3. TypeOK
  BY <1>1, <1>2 DEF Init, TypeOK
<1>4. RollupsNeverExceedRows
  <2>1. ASSUME NEW a \in Accounts PROVE Covers(a, NoChild, NewRow(a))
    <3>1. Original[a] \in Nat
      BY <1>1
    <3>2. NewRow(a).attempts = 0 /\ NewRow(a).paid = 0 /\ NewRow(a).balance = Original[a]
      BY DEF NewRow
    <3>3. NoChild.contacts = 0 /\ NoChild.completed = 0
      BY DEF NoChild
    <3>4. QED
      BY <3>1, <3>2, <3>3 DEF Covers
  <2>2. QED
    BY <2>1 DEF Init, RollupsNeverExceedRows
<1>5. LoadedCovered
  BY DEF Init, LoadedCovered, IsWorking, Waiting
<1>6. QED
  BY <1>3, <1>4, <1>5 DEF IInv

(* What a request that is working holds.                                   *)
LEMMA WorkingType ==
  ASSUME TypeOK, NEW r \in Requests, IsWorking(r)
  PROVE  /\ req[r].account \in Accounts
         /\ req[r].op \in Ops
         /\ req[r].op \in Op
         /\ req[r].loaded \in Row
<1>1. req[r] \in Working
  BY DEF TypeOK, IsWorking, Waiting, Served
<1>2. QED
  BY <1>1, RowAssumption DEF Working

LEMMA GetAccountStep ==
  ASSUME IInv, NEW r \in Requests, NEW a \in Accounts, NEW op \in Ops,
         GetAccount(r, a, op)
  PROVE  IInv'
<1> DEFINE w == [phase |-> "working", account |-> a, op |-> op, loaded |-> acct[a]]
<1>1. w \in Working
  BY DEF IInv, TypeOK, Working
<1>2. TypeOK'
  <2> HIDE DEF w
  <2>1. req' = [req EXCEPT ![r] = w] /\ UNCHANGED dbVars
    BY DEF GetAccount, w
  <2>2. QED
    BY <1>1, <2>1 DEF IInv, TypeOK, dbVars
<1>3. RollupsNeverExceedRows'
  BY DEF GetAccount, dbVars, IInv, RollupsNeverExceedRows, Covers
<1>4. LoadedCovered'
  <2> SUFFICES ASSUME NEW s \in Requests, IsWorking(s)'
               PROVE  Covers(req'[s].account, child[req'[s].account], req'[s].loaded)
    BY DEF GetAccount, dbVars, LoadedCovered, Covers
  <2>1. CASE s = r
    BY <2>1 DEF GetAccount, IInv, TypeOK, RollupsNeverExceedRows
  <2>2. CASE s # r
    <3>1. req'[s] = req[s]
      BY <2>2 DEF GetAccount, IInv, TypeOK
    <3>2. QED
      BY <3>1 DEF IInv, LoadedCovered, IsWorking
  <2>3. QED
    BY <2>1, <2>2
<1>5. QED
  BY <1>2, <1>3, <1>4 DEF IInv

LEMMA CommitStep ==
  ASSUME IInv, NEW r \in Requests, IsWorking(r), Commit(r)
  PROVE  IInv'
<1> DEFINE a == req[r].account
           op == req[r].op
           loaded == req[r].loaded
           row == Flushed(acct[a], loaded, Assigned(loaded, op))
           rows == Inserted(child[a], op)
<1>1. /\ a \in Accounts /\ op \in Op /\ loaded \in Row
      /\ acct[a] \in Row /\ child[a] \in Child
      /\ Covers(a, child[a], acct[a]) /\ Covers(a, child[a], loaded)
  BY WorkingType DEF IInv, TypeOK, RollupsNeverExceedRows, LoadedCovered
<1>2. /\ acct' = [acct EXCEPT ![a] = row]
      /\ child' = [child EXCEPT ![a] = rows]
      /\ req' = [req EXCEPT ![r] = Served]
  BY DEF Commit
<1>3. /\ Assigned(loaded, op) \in Row
      /\ row \in Row
      /\ rows \in Child
  BY <1>1, AssignedType, FlushedType, InsertedType
<1>4. Covers(a, rows, row)
  <2>1. Covers(a, rows, acct[a]) /\ Covers(a, rows, Assigned(loaded, op))
    BY <1>1, InsertKeepsCover, AssignedCovered
  <2>2. QED
    BY <1>1, <1>3, <2>1, FlushCovered
<1>5. TypeOK'
  <2> HIDE DEF a, row, rows
  <2> QED BY <1>1, <1>2, <1>3 DEF IInv, TypeOK
<1>6. RollupsNeverExceedRows'
  <2> HIDE DEF a, row, rows
  <2> SUFFICES ASSUME NEW b \in Accounts
               PROVE  Covers(b, child'[b], acct'[b])
    BY DEF RollupsNeverExceedRows, Covers
  <2>1. CASE b = a
    BY <1>1, <1>2, <1>4, <2>1 DEF IInv, TypeOK
  <2>2. CASE b # a
    BY <1>2, <2>2 DEF IInv, TypeOK, RollupsNeverExceedRows
  <2>3. QED
    BY <2>1, <2>2
<1>7. LoadedCovered'
  <2> SUFFICES ASSUME NEW s \in Requests, IsWorking(s)'
               PROVE  Covers(req'[s].account, child'[req'[s].account], req'[s].loaded)
    BY DEF LoadedCovered, Covers
  <2>1. s # r /\ req'[s] = req[s] /\ IsWorking(s)
    BY <1>2 DEF IInv, TypeOK, IsWorking, Served
  <2>2. /\ req[s].account \in Accounts /\ req[s].loaded \in Row
        /\ Covers(req[s].account, child[req[s].account], req[s].loaded)
    BY <2>1, WorkingType DEF IInv, LoadedCovered
  <2>3. CASE req[s].account = a
    <3>1. Covers(a, rows, req[s].loaded)
      BY <1>1, <2>2, <2>3, InsertKeepsCover
    <3>2. child'[a] = rows
      <4> HIDE DEF a, rows
      <4> QED BY <1>1, <1>2 DEF IInv, TypeOK
    <3>3. QED
      BY <2>1, <2>3, <3>1, <3>2
  <2>4. CASE req[s].account # a
    <3>1. child'[req[s].account] = child[req[s].account]
      <4> HIDE DEF a, rows
      <4> QED BY <1>2, <2>2, <2>4 DEF IInv, TypeOK
    <3>2. QED
      BY <2>1, <2>2, <3>1
  <2>5. QED
    BY <2>3, <2>4
<1>8. QED
  BY <1>5, <1>6, <1>7 DEF IInv

LEMMA NextIInv == IInv /\ [Next]_vars => IInv'
<1> SUFFICES ASSUME IInv, [Next]_vars PROVE IInv'
  OBVIOUS
<1>1. ASSUME NEW r \in Requests, NEW a \in Accounts, NEW op \in Ops,
             GetAccount(r, a, op)
      PROVE  IInv'
  BY <1>1, GetAccountStep
<1>2. ASSUME NEW r \in Requests, UpdateAccountStatus(r) PROVE IInv'
  BY <1>2, CommitStep DEF UpdateAccountStatus
<1>3. ASSUME NEW r \in Requests, LogContactAttempt(r) PROVE IInv'
  BY <1>3, CommitStep DEF LogContactAttempt
<1>4. ASSUME NEW r \in Requests, RecordPayment(r) PROVE IInv'
  BY <1>4, CommitStep DEF RecordPayment
<1>5. CASE UNCHANGED vars
  BY <1>5 DEF vars, IInv, TypeOK, RollupsNeverExceedRows, LoadedCovered, Covers,
              IsWorking
<1>6. QED
  BY <1>1, <1>2, <1>3, <1>4, <1>5 DEF Next

(* Every reachable state is well typed.                                    *)
THEOREM TypeCorrect == Spec => []TypeOK
<1>1. IInv => TypeOK
  BY DEF IInv
<1>2. QED
  BY InitIInv, NextIInv, <1>1, PTL DEF Spec

(* However requests overlap, no rollup counts an attempt or a payment that *)
(* was not recorded, and no balance understates the open debt.             *)
THEOREM RollupsBounded == Spec => []RollupsNeverExceedRows
<1>1. IInv => RollupsNeverExceedRows
  BY DEF IInv
<1>2. QED
  BY InitIInv, NextIInv, <1>1, PTL DEF Spec

-------------------------------------------------------------------------------
(* A column is flushed only if the handler changed it, and only a completed *)
(* payment changes the money columns.                                      *)
LEMMA FlushMovesMoney ==
  ASSUME NEW row \in Row, NEW loaded \in Row, NEW c \in Child, NEW op \in Op,
         \/ Flushed(row, loaded, Assigned(loaded, op)).balance # row.balance
         \/ Flushed(row, loaded, Assigned(loaded, op)).paid # row.paid
  PROVE  Inserted(c, op).completed > c.completed
<1>1. \/ Assigned(loaded, op).balance # loaded.balance
      \/ Assigned(loaded, op).paid # loaded.paid
  BY DEF Flushed, Column
<1>2. CASE op \in StatusOp
  BY <1>1, <1>2 DEF Assigned, StatusOp, Row
<1>3. CASE op \in ContactOp
  BY <1>1, <1>3 DEF Assigned, Touched, ContactOp, Row
<1>4. CASE op \in PaymentOp
  <2>1. op.result = "completed"
    BY <1>1, <1>4 DEF Assigned, PaymentOp, PaymentResult, Row
  <2>2. QED
    BY <1>4, <2>1 DEF Inserted, PaymentOp, Child
<1>5. QED
  BY <1>2, <1>3, <1>4 DEF Op

LEMMA NextMovesMoney ==
  ASSUME IInv, Next, NEW a \in Accounts,
         acct'[a].balance # acct[a].balance \/ acct'[a].paid # acct[a].paid
  PROVE  child'[a].completed > child[a].completed
<1>1. ASSUME NEW r \in Requests, IsWorking(r), Commit(r)
      PROVE  child'[a].completed > child[a].completed
  <2>1. /\ acct \in [Accounts -> Row] /\ child \in [Accounts -> Child]
        /\ req[r].account \in Accounts /\ req[r].op \in Op /\ req[r].loaded \in Row
    BY <1>1, WorkingType DEF IInv, TypeOK
  <2>2. a = req[r].account
    BY <1>1, <2>1 DEF Commit
  <2>3. /\ acct'[a] = Flushed(acct[a], req[r].loaded, Assigned(req[r].loaded, req[r].op))
        /\ child'[a] = Inserted(child[a], req[r].op)
    BY <1>1, <2>1, <2>2 DEF Commit
  <2>4. acct[a] \in Row /\ child[a] \in Child
    BY <2>1
  <2>5. QED
    BY <2>1, <2>3, <2>4, FlushMovesMoney
<1>2. ASSUME NEW r \in Requests, NEW b \in Accounts, NEW op \in Ops, GetAccount(r, b, op)
      PROVE  FALSE
  BY <1>2 DEF GetAccount, dbVars
<1>3. QED
  BY <1>1, <1>2
     DEF Next, UpdateAccountStatus, LogContactAttempt, RecordPayment

(* Whatever overlaps it, no status change, contact, pending or failed      *)
(* payment moves the balance or the total paid of an account.              *)
THEOREM MoneyMoves == Spec => MoneyMovesOnlyWithPayments
<1>1. IInv /\ [Next]_vars =>
        [\A a \in Accounts:
           acct'[a].balance # acct[a].balance \/ acct'[a].paid # acct[a].paid
             => child'[a].completed > child[a].completed]_vars
  BY NextMovesMoney
<1>2. QED
  BY InitIInv, NextIInv, <1>1, PTL DEF Spec, MoneyMovesOnlyWithPayments

-------------------------------------------------------------------------------
(* Requests on one account that do not overlap: each works on the row as   *)
(* it is, and no two work on the same account.                             *)
Fresh == \A r \in Requests: IsWorking(r) => req[r].loaded = acct[req[r].account]
Alone == \A r, s \in Requests:
           IsWorking(r) /\ IsWorking(s) /\ r # s => req[r].account # req[s].account

LEMMA SerialInv ==
  ASSUME Overlap = FALSE, IInv, Fresh, Alone, [Next]_vars
  PROVE  Fresh' /\ Alone'
<1>1. ASSUME NEW r \in Requests, NEW a \in Accounts, NEW op \in Ops,
             GetAccount(r, a, op)
      PROVE  Fresh' /\ Alone'
  <2>1. /\ acct' = acct
        /\ req'[r] = [phase |-> "working", account |-> a, op |-> op, loaded |-> acct[a]]
        /\ \A s \in Requests \ {r}: req'[s] = req[s]
        /\ WorkingOn(a) = {}
    BY <1>1 DEF GetAccount, dbVars, IInv, TypeOK
  <2>2. QED
    BY <2>1 DEF Fresh, Alone, IsWorking, WorkingOn
<1>2. ASSUME NEW r \in Requests, IsWorking(r), Commit(r)
      PROVE  Fresh' /\ Alone'
  <2>1. \A s \in Requests: IsWorking(s)' => s # r /\ req'[s] = req[s] /\ IsWorking(s)
    BY <1>2 DEF Commit, IsWorking, Served, IInv, TypeOK
  <2>2. ASSUME NEW s \in Requests, s # r, IsWorking(s)
        PROVE  acct'[req[s].account] = acct[req[s].account]
    <3>1. req[s].account # req[r].account /\ req[s].account \in Accounts
      BY <1>2, <2>2, WorkingType DEF Alone, IInv
    <3>2. QED
      BY <1>2, <3>1 DEF Commit, IInv, TypeOK
  <2>3. Fresh'
    BY <2>1, <2>2 DEF Fresh
  <2>4. Alone'
    BY <2>1 DEF Alone
  <2>5. QED
    BY <2>3, <2>4
<1>3. CASE UNCHANGED vars
  BY <1>3 DEF vars, Fresh, Alone, IsWorking
<1>4. QED
  BY <1>1, <1>2, <1>3 DEF Next, UpdateAccountStatus, LogContactAttempt, RecordPayment

(* A handler that flushes over the row it loaded writes what it assigned.  *)
LEMMA FlushFresh ==
  ASSUME NEW row \in Row, NEW assigned \in Row
  PROVE  Flushed(row, row, assigned) = assigned
<1>1. /\ Column(row.status, row.status, assigned.status) = assigned.status
      /\ Column(row.attempts, row.attempts, assigned.attempts) = assigned.attempts
      /\ Column(row.paid, row.paid, assigned.paid) = assigned.paid
      /\ Column(row.balance, row.balance, assigned.balance) = assigned.balance
  BY DEF Column
<1>2. QED
  BY <1>1 DEF Flushed, Row

(* Without overlap the row and the child rows of an account move together: *)
(* what a handler assigns counts exactly what it inserts.                  *)
Exact(a, c, b) == /\ b.attempts = c.contacts
                  /\ b.paid = c.completed
                  /\ b.balance = Less(Original[a], c.completed)

LEMMA AssignedExact ==
  ASSUME NEW a \in Accounts, NEW c \in Child, NEW b \in Row, NEW op \in Op, Exact(a, c, b)
  PROVE  Exact(a, Inserted(c, op), Assigned(b, op))
<1>0. Original[a] \in Nat
  BY RowAssumption
<1>1. CASE op \in StatusOp
  BY <1>0, <1>1 DEF Exact, Inserted, Assigned, StatusOp, Child, Row
<1>2. CASE op \in ContactOp
  BY <1>0, <1>2 DEF Exact, Inserted, Assigned, Touched, ContactOp, Child, Row
<1>3. CASE op \in PaymentOp
  <2>1. CASE op.result = "completed"
    BY <1>0, <1>3, <2>1
       DEF Exact, Inserted, Assigned, Credited, Less, PaymentOp, Child, Row
  <2>2. CASE op.result = "pending"
    BY <1>0, <1>3, <2>2 DEF Exact, Inserted, Assigned, PaymentOp, Child, Row
  <2>3. CASE op.result = "failed"
    BY <1>0, <1>3, <2>3 DEF Exact, Inserted, Assigned, PaymentOp, Child, Row
  <2>4. QED
    BY <1>3, <2>1, <2>2, <2>3 DEF PaymentOp, PaymentResult
<1>4. QED
  BY <1>1, <1>2, <1>3 DEF Op

LEMMA InitSerial == Init => Fresh /\ Alone
<1>1. Init => \A r \in Requests: ~IsWorking(r)
  BY DEF Init, IsWorking, Waiting
<1>2. QED
  BY <1>1 DEF Fresh, Alone

LEMMA InitExact == Init => LedgerExact
<1> SUFFICES ASSUME Init, NEW a \in Accounts PROVE Exact(a, child[a], acct[a])
  BY DEF LedgerExact, Exact
<1>1. Original[a] \in Nat
  BY RowAssumption
<1>2. Exact(a, NoChild, NewRow(a))
  BY <1>1 DEF Exact, NewRow, NoChild, Less
<1>3. QED
  BY <1>2 DEF Init

LEMMA SerialExact ==
  ASSUME IInv, Fresh, LedgerExact, [Next]_vars
  PROVE  LedgerExact'
<1>1. ASSUME NEW r \in Requests, NEW b \in Accounts, NEW op \in Ops, GetAccount(r, b, op)
      PROVE  LedgerExact'
  BY <1>1 DEF GetAccount, dbVars, LedgerExact
<1>2. ASSUME NEW r \in Requests, IsWorking(r), Commit(r) PROVE LedgerExact'
  <2> DEFINE b == req[r].account
             op == req[r].op
             row == Assigned(acct[b], op)
             rows == Inserted(child[b], op)
  <2>1. /\ acct \in [Accounts -> Row] /\ child \in [Accounts -> Child]
        /\ b \in Accounts /\ op \in Op /\ req[r].loaded = acct[b]
    BY <1>2, WorkingType DEF IInv, TypeOK, Fresh
  <2>2. acct[b] \in Row /\ child[b] \in Child /\ row \in Row
    BY <2>1, AssignedType
  <2>3. acct' = [acct EXCEPT ![b] = row] /\ child' = [child EXCEPT ![b] = rows]
    BY <1>2, <2>1, <2>2, FlushFresh DEF Commit
  <2>4. Exact(b, rows, row)
    BY <2>1, <2>2, AssignedExact DEF LedgerExact, Exact
  <2> HIDE DEF b, op, row, rows
  <2>5. ASSUME NEW a \in Accounts PROVE Exact(a, child'[a], acct'[a])
    <3>1. CASE a = b
      BY <2>1, <2>3, <2>4, <3>1
    <3>2. CASE a # b
      BY <2>1, <2>3, <3>2 DEF LedgerExact, Exact
    <3>3. QED
      BY <3>1, <3>2
  <2>6. QED
    BY <2>5 DEF LedgerExact, Exact
<1>3. CASE UNCHANGED vars
  BY <1>3 DEF vars, LedgerExact
<1>4. QED
  BY <1>1, <1>2, <1>3 DEF Next, UpdateAccountStatus, LogContactAttempt, RecordPayment

(* Where no two requests on one account overlap, the ledger is exact: the  *)
(* counters are those of the child rows, and the balance is what the       *)
(* recorded payments leave open.                                           *)
THEOREM SerialLedgerIsExact ==
  ASSUME Overlap = FALSE
  PROVE  Spec => []LedgerExact
<1> DEFINE Inv == IInv /\ Fresh /\ Alone /\ LedgerExact
<1>1. Init => Inv
  BY InitIInv, InitSerial, InitExact
<1>2. Inv /\ [Next]_vars => Inv'
  BY NextIInv, SerialInv, SerialExact
<1>3. QED
  BY <1>1, <1>2, PTL DEF Spec
-------------------------------------------------------------------------------
(* The atomic ledger runs the same handlers.                               *)
LEMMA SameHandlers ==
  ASSUME NEW x, NEW op
  PROVE  Atomic!Assigned(x, op) = Assigned(x, op) /\ Atomic!Inserted(x, op) = Inserted(x, op)
BY DEF Assigned, Atomic!Assigned, Touched, Atomic!Touched, Credited, Atomic!Credited,
       Less, Atomic!Less, Early, Atomic!Early, Inserted, Atomic!Inserted,
       One, Atomic!One

(* Where no two requests on one account overlap, the handlers implement    *)
(* the atomic ledger: each takes effect at one instant.                    *)
THEOREM SerialRequestsAreAtomic ==
  ASSUME Overlap = FALSE
  PROVE  Spec => AtomicSpec
<1> DEFINE Inv == IInv /\ Fresh /\ Alone
<1>1. Init => Inv
  BY InitIInv, InitSerial
<1>2. Inv /\ [Next]_vars => Inv'
  BY NextIInv, SerialInv
<1>3. Init => Atomic!Init
  BY DEF Init, Atomic!Init, NewRow, Atomic!NewRow, NoChild, Atomic!NoChild
<1>4. ASSUME Inv, NEW r \in Requests, IsWorking(r), Commit(r)
      PROVE  Atomic!Next
  <2> DEFINE a == req[r].account
             op == req[r].op
  <2>1. a \in Accounts /\ op \in Ops /\ op \in Op /\ acct[a] \in Row
    BY <1>4, WorkingType DEF IInv, TypeOK
  <2>2. req[r].loaded = acct[a] /\ Assigned(acct[a], op) \in Row
    BY <1>4, <2>1, AssignedType DEF Fresh
  <2>3. /\ acct' = [acct EXCEPT ![a] = Assigned(acct[a], op)]
        /\ child' = [child EXCEPT ![a] = Inserted(child[a], op)]
    BY <1>4, <2>1, <2>2, FlushFresh DEF Commit
  <2>4. Atomic!Perform(a, op)
    BY <2>3, SameHandlers DEF Atomic!Perform
  <2>5. QED
    BY <2>1, <2>4 DEF Atomic!Next
<1>5. Inv /\ [Next]_vars => [Atomic!Next]_(Atomic!vars)
  <2> SUFFICES ASSUME Inv, [Next]_vars PROVE [Atomic!Next]_(Atomic!vars)
    OBVIOUS
  <2>1. ASSUME NEW r \in Requests, NEW a \in Accounts, NEW op \in Ops,
               GetAccount(r, a, op)
        PROVE  UNCHANGED Atomic!vars
    BY <2>1 DEF GetAccount, dbVars, Atomic!vars
  <2>2. CASE UNCHANGED vars
    BY <2>2 DEF vars, Atomic!vars
  <2> HIDE DEF Inv
  <2>3. QED
    BY <1>4, <2>1, <2>2
       DEF Next, UpdateAccountStatus, LogContactAttempt, RecordPayment
<1>6. QED
  <2> HIDE DEF Inv
  <2>1. Spec => Atomic!Spec
    BY <1>1, <1>2, <1>3, <1>5, PTL DEF Spec, Atomic!Spec
  <2>2. QED
    BY <2>1 DEF AtomicSpec
===============================================================================
