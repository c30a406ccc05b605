----------------------------- MODULE PaymentEngine -----------------------------
(***************************************************************************)
(* The payments of one account in payments/payment_engine.py.  The adapters *)
(* call the processors' SDKs synchronously, so a call of the engine is one  *)
(* step; what is hard is the order of the calls, and that a processor may   *)
(* take the money and its answer still be lost.                            *)
(***************************************************************************)
EXTENDS Integers, Sequences, FiniteSetsExt

CONSTANTS PayKeys,       \* the callers' idempotency keys of process_payment
          AuthKeys,      \* and of authorize_payment ("pay_..." and "auth_...")
          Methods,       \* payment_method_tokens
          Expired,       \* those that are unknown or have expired
          Amounts, Fee,  \* amounts, and the fee the processor keeps
          HourlyLimit, DailyLimit, DailyAmount,    \* check_velocity's limits
          DayLength,     \* the hours of a day
          MaxRetries,    \* max_retries of a transaction
          PrintLimit,    \* how many fingerprints of the account are kept
          MaxTxns,       \* bound: transactions
          MaxDebt,       \* bound: how far chargebacks overdraw the trust account
          MaxHour        \* bound: hours

ASSUME EngineAssumption ==
  /\ Amounts \subseteq Nat \ {0} /\ Fee \in Nat /\ Expired \subseteq Methods
  /\ {HourlyLimit, DailyLimit, DailyAmount, DayLength} \subseteq Nat
  /\ {MaxRetries, PrintLimit, MaxTxns, MaxDebt, MaxHour} \subseteq Nat
  /\ PayKeys \cap AuthKeys = {}

VARIABLES txns,     \* the transactions, in the order they were created
          cache,    \* the keys in _idempotency_cache
          prints,   \* _payment_hashes: <<amount, method>> of the payments seen
          trust,    \* the balance of the trust account
          hour      \* the hour of the clock

vars == <<txns, cache, prints, trust, hour>>

Keys == PayKeys \union AuthKeys
Status == {"authorized", "captured", "settled", "reconciled", "failed",
           "refunded", "chargeback", "cancelled"}
Reason == {"none", "method", "velocity", "duplicate", "declined", "fraud"}
(* How the processor answers: "lost" is a charge it made although its      *)
(* answer, or the exception raised in its place, says it failed.           *)
Outcome == {"captured", "declined", "fraud", "lost"}

(* A key is the caller's, followed by the number of each retry.            *)
Txn == [key: Seq(Keys \union Nat), method: Methods, amount: Amounts, status: Status,
        reason: Reason, retries: 0..MaxRetries, refunded: Nat, at: Nat,
        via: {"process", "authorize"}, recorded: BOOLEAN, charged: BOOLEAN]

TypeOK == /\ txns \in Seq(Txn)
          /\ cache \subseteq Seq(Keys \union Nat)
          /\ prints \subseteq Amounts \X Methods
          /\ trust \in Int
          /\ hour \in 0..MaxHour

Init == /\ txns = <<>>
        /\ cache = {}
        /\ prints = {}
        /\ trust = 0
        /\ hour = 0

AmountOf(S) == SumFunctionOnSet([n \in DOMAIN txns |-> txns[n].amount], S)

(* check_velocity over the transactions recorded in the last hour and day. *)
RecordedSince(h) == {n \in DOMAIN txns: txns[n].recorded /\ txns[n].at >= h}

(* Mutants of VelocityPasses, IsDuplicate, CanRetry and Refundable stand   *)
(* before each: this one forgets the payment it is asked about.            *)
VelocityPassesBlind(amount) ==
  /\ Cardinality(RecordedSince(hour - 1)) < HourlyLimit
  /\ Cardinality(RecordedSince(hour - DayLength)) < DailyLimit
  /\ AmountOf(RecordedSince(hour - DayLength)) < DailyAmount
VelocityPasses(amount) ==
  /\ Cardinality(RecordedSince(hour - 1)) < HourlyLimit
  /\ Cardinality(RecordedSince(hour - DayLength)) < DailyLimit
  /\ AmountOf(RecordedSince(hour - DayLength)) + amount <= DailyAmount

(* Mutant: only a payment that succeeded has a duplicate.                  *)
IsDuplicateOfCaptured(method, amount) ==
  \E n \in DOMAIN txns: /\ txns[n].recorded /\ txns[n].status # "failed"
                        /\ txns[n].method = method /\ txns[n].amount = amount

(* check_duplicate.  A fingerprint does not age.                           *)
IsDuplicate(method, amount) == <<amount, method>> \in prints

(* The fingerprints that may be kept with a new one.  Beyond the limit the *)
(* "oldest half" goes, but of a set, which has no order: it is any half.   *)
Remembered(all) ==
  IF Cardinality(all) <= PrintLimit THEN {all}
  ELSE kSubset(Cardinality(all) - PrintLimit \div 2, all)

Failed(key, method, amount, reason) ==
  [key |-> key, method |-> method, amount |-> amount, status |-> "failed",
   reason |-> reason, retries |-> 0, refunded |-> 0, at |-> hour,
   via |-> "process", recorded |-> FALSE, charged |-> FALSE]

(* What process_payment makes of a payment the processor answers thus.     *)
Attempt(key, method, amount, outcome) ==
  CASE method \in Expired          -> Failed(key, method, amount, "method")
    [] method \notin Expired /\ ~VelocityPasses(amount)
                                   -> Failed(key, method, amount, "velocity")
    [] method \notin Expired /\ VelocityPasses(amount) /\ IsDuplicate(method, amount)
                                   -> Failed(key, method, amount, "duplicate")
    [] OTHER ->
         [Failed(key, method, amount,
                 CASE outcome = "captured" -> "none"
                   [] outcome = "fraud"    -> "fraud"
                   [] OTHER                -> "declined")
            EXCEPT !.status = IF outcome = "captured" THEN "captured" ELSE "failed",
                   !.recorded = TRUE,
                   !.charged = outcome \in {"captured", "lost"}]

(* process_payment beyond the idempotency check, onto the transactions ts. *)
Process(ts, key, method, amount, outcome) ==
  /\ Len(ts) < MaxTxns
  /\ txns' = Append(ts, Attempt(key, method, amount, outcome))
  /\ cache' = cache \union {key}
  /\ prints' \in IF method \notin Expired /\ VelocityPasses(amount)
                 THEN Remembered(prints \union {<<amount, method>>}) ELSE {prints}
  /\ UNCHANGED <<trust, hour>>

(* A key that is in the cache returns its transaction and changes nothing. *)
ProcessPayment(k, method, amount, outcome) ==
  /\ <<k>> \notin cache
  /\ Process(txns, <<k>>, method, amount, outcome)

(* Mutant: one retry too many.                                             *)
CanRetryLate(t) == /\ t.status = "failed"
                   /\ t.retries <= MaxRetries
                   /\ t.reason \notin {"fraud", "duplicate"}

CanRetry(t) == /\ t.status = "failed"
               /\ t.retries < MaxRetries
               /\ t.reason \notin {"fraud", "duplicate"}

RetryFailedPayment(n, outcome) ==
  LET t == txns[n]
      again == [t EXCEPT !.retries = @ + 1]
  IN /\ CanRetry(t)
     /\ Process([txns EXCEPT ![n] = again], Append(t.key, again.retries),
                t.method, t.amount, outcome)

(* authorize_payment consults neither the idempotency cache nor a control, *)
(* and is not recorded for them.                                           *)
AuthorizePayment(k, method, amount, ok) ==
  /\ Len(txns) < MaxTxns
  /\ method \notin Expired
  /\ txns' = Append(txns, [Failed(<<k>>, method, amount, IF ok THEN "none" ELSE "declined")
                             EXCEPT !.status = IF ok THEN "authorized" ELSE "failed",
                                    !.via = "authorize"])
  /\ UNCHANGED <<cache, prints, trust, hour>>

CapturePayment(n, outcome) ==
  /\ txns[n].status = "authorized"
  /\ txns' = [txns EXCEPT ![n].status = IF outcome = "captured" THEN "captured" ELSE "failed",
                          ![n].charged = outcome \in {"captured", "lost"}]
  /\ UNCHANGED <<cache, prints, trust, hour>>

VoidAuthorization(n) ==
  /\ txns[n].status = "authorized"
  /\ txns' = [txns EXCEPT ![n].status = "cancelled"]
  /\ UNCHANGED <<cache, prints, trust, hour>>

(* Mutant: what was refunded before is not deducted.                       *)
RefundableAnew(t) == t.amount
Refundable(t) == t.amount - t.refunded

(* A refund names the processor's transaction id, which only               *)
(* process_payment stores, so the refund of a captured authorization fails. *)
RefundPayment(n, amount) ==
  /\ txns[n].status \in {"captured", "settled"}
  /\ txns[n].via = "process"
  /\ amount <= Refundable(txns[n])
  /\ LET refunded == txns[n].refunded + amount
     IN  txns' = [txns EXCEPT ![n].refunded = refunded,
                              ![n].status = IF refunded >= txns[n].amount
                                            THEN "refunded" ELSE @]
  /\ UNCHANGED <<cache, prints, trust, hour>>

SettleTransaction(n) ==
  /\ txns[n].status = "captured"
  /\ txns' = [txns EXCEPT ![n].status = "settled"]
  /\ trust' = trust + txns[n].amount - Fee
  /\ UNCHANGED <<cache, prints, hour>>

ReconcileTransaction(n) ==
  /\ txns[n].status = "settled"
  /\ txns' = [txns EXCEPT ![n].status = "reconciled"]
  /\ UNCHANGED <<cache, prints, trust, hour>>

(* The processor takes back a charge it made, and may say so twice: the    *)
(* handler looks neither at the status nor at an earlier chargeback.       *)
HandleChargeback(n) ==
  /\ txns[n].charged
  /\ trust - txns[n].amount >= -MaxDebt
  /\ txns' = [txns EXCEPT ![n].status = "chargeback"]
  /\ trust' = trust - txns[n].amount
  /\ UNCHANGED <<cache, prints, hour>>

HourPasses == /\ hour < MaxHour
              /\ hour' = hour + 1
              /\ UNCHANGED <<txns, cache, prints, trust>>

Next ==
  \/ \E k \in PayKeys, m \in Methods, a \in Amounts, o \in Outcome: ProcessPayment(k, m, a, o)
  \/ \E k \in AuthKeys, m \in Methods, a \in Amounts, ok \in BOOLEAN: AuthorizePayment(k, m, a, ok)
  \/ \E n \in DOMAIN txns:
       \/ \E o \in Outcome: RetryFailedPayment(n, o)
       \/ \E o \in Outcome: CapturePayment(n, o)
       \/ \E a \in Amounts: RefundPayment(n, a)
       \/ VoidAuthorization(n)
       \/ SettleTransaction(n)
       \/ ReconcileTransaction(n)
       \/ HandleChargeback(n)
  \/ HourPasses

Spec == Init /\ [][Next]_vars

-------------------------------------------------------------------------------
(* A key of process_payment, its retries' included, is charged at most     *)
(* once, even when the answer of the processor is lost and the caller or a *)
(* retry tries again: the caller's key is in the cache, and the retry,     *)
(* which has a key of its own, is stopped by the fingerprint, as long as   *)
(* that is kept: PrintLimit fingerprints have not been exceeded.  (Not so  *)
(* for an authorization: its capture leaves no fingerprint.)               *)
OneChargePerKey ==
  \A m, n \in DOMAIN txns:
    /\ m # n
    /\ txns[m].key[1] \in PayKeys
    /\ txns[m].charged /\ txns[n].charged
    => txns[m].key[1] # txns[n].key[1]

(* No sequence of refunds gives back more than was paid, and a transaction *)
(* is refunded only in full (refund_payment 2338-2371).                    *)
RefundsWithinPayment ==
  \A n \in DOMAIN txns:
    /\ txns[n].refunded <= txns[n].amount
    /\ txns[n].refunded > 0 => txns[n].charged
    /\ txns[n].status = "refunded" => txns[n].refunded = txns[n].amount

(* In any hour and any day ending now the processors were asked no more    *)
(* often, and for no more money, than check_velocity allows, retries       *)
(* included.  (Authorizations are not counted by the code.)                *)
VelocityLimited ==
  /\ Cardinality(RecordedSince(hour - 1)) <= HourlyLimit
  /\ Cardinality(RecordedSince(hour - DayLength)) <= DailyLimit
  /\ AmountOf(RecordedSince(hour - DayLength)) <= DailyAmount
===============================================================================
