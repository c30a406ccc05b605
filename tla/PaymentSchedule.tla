----------------------------- MODULE PaymentSchedule -----------------------------
(***************************************************************************)
(* A payment plan of the account whose payments PaymentEngine models: how  *)
(* the schedule manager cuts a total into installments, and the daily job  *)
(* that pays those due through the engine and marks them.  The loop of the *)
(* job never yields to another coroutine, so nothing runs inside it.       *)
(***************************************************************************)
EXTENDS PaymentEngine

CONSTANTS Plans,        \* the <<total, payment>> a plan may be created with
          PlanMethod,   \* the method on file, once one is linked
          Every         \* days from one installment to the next

(* A key of the plan is a uuid in the code and a number here, so that it   *)
(* is no caller's.  The last installment may exceed the payment by half.   *)
ASSUME PlanAssumption ==
  /\ Plans \subseteq (Nat \ {0}) \X (Nat \ {0})
  /\ \A p \in Plans: 1..(2 * p[2]) \subseteq Amounts
  /\ PlanMethod \in Methods
  /\ Every \in Nat /\ DayLength # 0
  /\ Keys \cap Nat = {}

VARIABLES plan,       \* the installments, by payment_number
          books,      \* is_active, payments_completed, amount_paid, amount_remaining
          total,      \* total_amount
          onFile,     \* is a payment method linked to the account?
          due,        \* the payment_numbers the running job has yet to pay
          attempts    \* attempts[i]: the keys under which i was submitted

planVars == <<plan, books, total, onFile, due, attempts>>
allVars  == <<vars, planVars>>

Today == hour \div DayLength

(* Mutant: one payment more, for the rest that there may not be.           *)
NumPaymentsAndRest(sum, payment) == sum \div payment + 1

(* create_recurring_schedule: the number of payments is rounded half up,   *)
(* and the last one takes the remainder.                                   *)
NumPayments(sum, payment) == (2 * sum + payment) \div (2 * payment)
Installments(sum, payment) ==
  LET n == NumPayments(sum, payment)
  IN  [i \in 1..n |-> [date |-> Every * (i - 1), status |-> "scheduled",
                       amount |-> IF i = n THEN sum - payment * (n - 1) ELSE payment]]

Installment == [date: Nat, amount: Amounts, status: {"scheduled", "completed", "failed"}]

PlanTypeOK ==
  /\ TypeOK
  /\ plan \in Seq(Installment)
  /\ books \in [active: BOOLEAN, completed: Nat, paid: Nat, left: Nat]
  /\ due \subseteq DOMAIN plan
  /\ attempts \in [DOMAIN plan -> SUBSET Nat]

PlanInit ==
  /\ Init
  /\ \E p \in Plans: /\ total = p[1]
                     /\ plan = Installments(p[1], p[2])
  /\ books = [active |-> TRUE, completed |-> 0, paid |-> 0, left |-> total]
  /\ onFile = FALSE
  /\ due = {}
  /\ attempts = [i \in DOMAIN plan |-> {}]

(* A stored method is linked to the account: its metadata gets account_id. *)
(* No code in the repository does, so whoever embeds the engine must; until *)
(* then the job finds no method and fails what is due.                     *)
LinkPaymentMethod ==
  /\ due = {}
  /\ onFile' = TRUE
  /\ UNCHANGED <<vars, plan, books, total, due, attempts>>

(* get_due_payments: only what is due today, and only of an active plan.   *)
DueOn(day) == {i \in DOMAIN plan: plan[i].date = day /\ plan[i].status = "scheduled"}

StartJob ==
  /\ due = {}
  /\ books.active
  /\ due' = DueOn(Today)
  /\ UNCHANGED <<vars, plan, books, total, onFile, attempts>>

Marked(i, status) == [plan EXCEPT ![i].status = status]

(* mark_payment_complete closes the plan when nothing is scheduled.        *)
CompleteInstallment(i) ==
  /\ plan' = Marked(i, "completed")
  /\ books' = [active |-> \E j \in DOMAIN plan: Marked(i, "completed")[j].status = "scheduled",
               completed |-> books.completed + 1,
               paid |-> books.paid + plan[i].amount,
               left |-> books.left - plan[i].amount]

(* mark_payment_failed leaves the books alone.                             *)
FailInstallment(i) == /\ plan' = Marked(i, "failed")
                      /\ UNCHANGED books

(* Mutant: a payment refused as a duplicate passes for one made before.    *)
SucceededOrDuplicate(t) == t.status = "captured" \/ t.reason = "duplicate"
Succeeded(t) == t.status = "captured"

(* One turn of the job's loop, which goes through what is due in order: no *)
(* method on file, or a payment under a new idempotency key.               *)
PayInstallment(outcome) ==
  LET i == Min(due)
      key == <<Len(txns) + 1>>
  IN /\ due # {}
     /\ due' = due \ {i}
     /\ IF ~onFile
        THEN FailInstallment(i) /\ UNCHANGED <<vars, attempts>>
        ELSE /\ Process(txns, key, PlanMethod, plan[i].amount, outcome)
             /\ attempts' = [attempts EXCEPT ![i] = @ \union {key[1]}]
             /\ IF Succeeded(Attempt(key, PlanMethod, plan[i].amount, outcome))
                THEN CompleteInstallment(i) ELSE FailInstallment(i)
     /\ UNCHANGED <<total, onFile>>

(* Mutant: whatever its status, the payment is scheduled again.            *)
RescheduledAnyway(payment, day) == [payment EXCEPT !.date = day, !.status = "scheduled"]
Rescheduled(payment, day) ==
  [payment EXCEPT !.date = day,
                  !.status = IF @ = "failed" THEN "scheduled" ELSE @]

ReschedulePayment(i, day) ==
  /\ due = {}
  /\ plan' = [plan EXCEPT ![i] = Rescheduled(@, day)]
  /\ UNCHANGED <<vars, books, total, onFile, due, attempts>>

PlanNext ==
  \/ due = {} /\ Next /\ UNCHANGED planVars
  \/ LinkPaymentMethod
  \/ StartJob
  \/ \E outcome \in Outcome: PayInstallment(outcome)
  \/ \E i \in DOMAIN plan, day \in Today..(MaxHour \div DayLength):
       ReschedulePayment(i, day)

PlanSpec == PlanInit /\ [][PlanNext]_allVars

-------------------------------------------------------------------------------
AmountIn(S) == SumFunctionOnSet([i \in DOMAIN plan |-> plan[i].amount], S)

(* What the plan's books say was paid is what its completed installments   *)
(* are worth, however often they failed and were rescheduled before; and   *)
(* the installments of a plan that has any add up to its total.            *)
PlanBooks ==
  LET done == {i \in DOMAIN plan: plan[i].status = "completed"}
  IN /\ books.paid = AmountIn(done) /\ books.completed = Cardinality(done)
     /\ books.paid + books.left = total
     /\ plan # <<>> => AmountIn(DOMAIN plan) = total

(* The debtor pays an installment at most once, although a lost answer     *)
(* makes it fail, it may then be rescheduled, and its transaction may be   *)
(* retried outside the plan.                                               *)
InstallmentChargedOnce ==
  \A i \in DOMAIN plan:
    Cardinality({n \in DOMAIN txns: txns[n].charged /\ txns[n].key[1] \in attempts[i]}) <= 1

(* An installment is completed only if the engine took its money.          *)
CompletedIsCharged ==
  \A i \in DOMAIN plan: plan[i].status = "completed" =>
    \E n \in DOMAIN txns: /\ txns[n].charged /\ txns[n].key = <<n>>
                          /\ n \in attempts[i] /\ txns[n].amount = plan[i].amount
===============================================================================
