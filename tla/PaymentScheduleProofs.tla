------------------------- MODULE PaymentScheduleProofs -------------------------
(***************************************************************************)
(* What PaymentEngine guarantees for every set of keys, methods and        *)
(* amounts, every limit and every number of transactions and hours, and    *)
(* PaymentSchedule for every plan that is paid through it.                 *)
(***************************************************************************)
EXTENDS PaymentSchedule, Sums, SequenceTheorems, FiniteSetTheorems, TLAPS

(* What is true of each transaction by itself: the bounds on its refunds,  *)
(* and what they rest on.                                                  *)
Sound(t) == /\ t.refunded <= t.amount
            /\ t.refunded > 0 => t.charged
            /\ t.status = "refunded" => t.refunded = t.amount
            /\ t.status \in {"captured", "settled"} => t.charged
            /\ t.status = "authorized" => t.refunded = 0 /\ t.key[1] \in AuthKeys
            /\ t.key # <<>>

(* What relates the transactions ts to the keys c and the fingerprints p:  *)
(* a caller's key is used for one payment only, its retries included, and  *)
(* a charge has left its fingerprint.                                      *)
Fingerprint(t) == <<t.amount, t.method>>
KeysOK(ts, c, p) ==
  \A n \in 1..Len(ts):
    ts[n].key[1] \in PayKeys =>
      /\ <<ts[n].key[1]>> \in c
      /\ ts[n].charged => Fingerprint(ts[n]) \in p
      /\ \A m \in 1..Len(ts):
           ts[m].key[1] = ts[n].key[1] =>
             /\ Fingerprint(ts[m]) = Fingerprint(ts[n])
             /\ m # n => ~(ts[m].charged /\ ts[n].charged)

(* Transactions that are each sound.                                       *)
Sounds(ts) == ts \in Seq(Txn) /\ \A n \in 1..Len(ts): Sound(ts[n])

LEMMA UpdateSounds ==
  ASSUME NEW ts, Sounds(ts), NEW n \in 1..Len(ts), NEW x \in Txn, Sound(x)
  PROVE  Sounds([ts EXCEPT ![n] = x])
BY ExceptSeq DEF Sounds

LEMMA AppendSounds ==
  ASSUME NEW ts, Sounds(ts), NEW x \in Txn, Sound(x)
  PROVE  Sounds(Append(ts, x))
<1>1. /\ Append(ts, x) \in Seq(Txn)
      /\ Len(Append(ts, x)) = Len(ts) + 1
      /\ Len(ts) \in Nat
      /\ \A i \in 1..Len(ts): Append(ts, x)[i] = ts[i]
      /\ Append(ts, x)[Len(ts) + 1] = x
  BY AppendProperties, LenProperties DEF Sounds
<1>2. ASSUME NEW n \in 1..(Len(ts) + 1) PROVE Sound(Append(ts, x)[n])
  BY <1>1, <1>2 DEF Sounds
<1>3. QED
  BY <1>1, <1>2 DEF Sounds

(* A new transaction, under a key of its own or as a retry.                *)
LEMMA AppendKeys ==
  ASSUME NEW ts \in Seq(Txn), NEW c, NEW p, KeysOK(ts, c, p),
         NEW x \in Txn, NEW d, NEW q, c \subseteq d, p \subseteq q,
         x.key[1] \in PayKeys =>
           /\ <<x.key[1]>> \in d
           /\ x.charged => Fingerprint(x) \in q /\ Fingerprint(x) \notin p
           /\ \A m \in 1..Len(ts): ts[m].key[1] = x.key[1] => Fingerprint(ts[m]) = Fingerprint(x)
  PROVE  KeysOK(Append(ts, x), d, q)
<1> DEFINE us == Append(ts, x)
<1>1. /\ Len(ts) \in Nat
      /\ Len(us) = Len(ts) + 1
      /\ \A i \in 1..Len(ts): us[i] = ts[i]
      /\ us[Len(ts) + 1] = x
  BY AppendProperties, LenProperties
<1> HIDE DEF us
<1>2. ASSUME NEW n \in 1..Len(us), us[n].key[1] \in PayKeys
      PROVE  /\ <<us[n].key[1]>> \in d
             /\ us[n].charged => Fingerprint(us[n]) \in q
  <2>1. CASE n \in 1..Len(ts)
    BY <1>1, <1>2, <2>1 DEF KeysOK
  <2>2. CASE n = Len(ts) + 1
    BY <1>1, <1>2, <2>2
  <2>3. QED
    BY <1>1, <2>1, <2>2
<1>3. ASSUME NEW n \in 1..Len(us), us[n].key[1] \in PayKeys,
             NEW m \in 1..Len(us), us[m].key[1] = us[n].key[1]
      PROVE  /\ Fingerprint(us[m]) = Fingerprint(us[n])
             /\ m # n => ~(us[m].charged /\ us[n].charged)
  <2>1. CASE n \in 1..Len(ts) /\ m \in 1..Len(ts)
    BY <1>1, <1>3, <2>1 DEF KeysOK
  <2>2. CASE n = Len(ts) + 1 /\ m \in 1..Len(ts)
    BY <1>1, <1>3, <2>2 DEF KeysOK
  <2>3. CASE n \in 1..Len(ts) /\ m = Len(ts) + 1
    BY <1>1, <1>3, <2>3 DEF KeysOK
  <2>4. CASE n = Len(ts) + 1 /\ m = Len(ts) + 1
    BY <2>4
  <2>5. QED
    BY <1>1, <2>1, <2>2, <2>3, <2>4
<1>4. QED
  BY <1>2, <1>3 DEF KeysOK, us
-------------------------------------------------------------------------------
(* What no step takes from the transactions ts when it makes them us, and  *)
(* what one it adds to them is.                                            *)
Keeps(us, ts) ==
  /\ Len(us) = Len(ts)
  /\ \A n \in 1..Len(ts):
       /\ us[n].key = ts[n].key /\ Fingerprint(us[n]) = Fingerprint(ts[n])
       /\ us[n].recorded = ts[n].recorded /\ us[n].at = ts[n].at
       /\ us[n].charged # ts[n].charged => ts[n].key[1] \in AuthKeys

LEMMA KeepsOne ==
  ASSUME NEW ts \in Seq(Txn), NEW n \in 1..Len(ts), NEW x \in Txn, x.key = ts[n].key,
         Fingerprint(x) = Fingerprint(ts[n]), x.recorded = ts[n].recorded,
         x.at = ts[n].at, x.charged # ts[n].charged => ts[n].key[1] \in AuthKeys
  PROVE  Keeps([ts EXCEPT ![n] = x], ts)
<1> DEFINE us == [ts EXCEPT ![n] = x]
<1>1. Len(us) = Len(ts) /\ \A j \in 1..Len(ts): us[j] = IF j = n THEN x ELSE ts[j]
  BY ExceptSeq
<1> HIDE DEF us
<1>2. Keeps(us, ts)
  BY <1>1 DEF Keeps
<1>3. QED
  BY <1>2 DEF us

LEMMA KeepsKeys ==
  ASSUME NEW ts, NEW us, Keeps(us, ts), NEW c, NEW p, KeysOK(ts, c, p)
  PROVE  KeysOK(us, c, p)
<1>1. \A j \in 1..Len(us):
        /\ us[j].key = ts[j].key /\ Fingerprint(us[j]) = Fingerprint(ts[j])
        /\ us[j].charged /\ us[j].key[1] \in PayKeys => ts[j].charged
  BY EngineAssumption DEF Keeps
<1>2. Len(us) = Len(ts)
  BY DEF Keeps
<1>3. QED
  BY <1>1, <1>2 DEF KeysOK

EInv == TypeOK /\ Sounds(txns)

(* With it, no more fingerprints than transactions.                        *)
FewPrints(ts, p) == IsFiniteSet(p) /\ Cardinality(p) <= Len(ts)
Books(ts, c, p) == KeysOK(ts, c, p) /\ FewPrints(ts, p)

(* So few transactions that no fingerprint is thrown away.                 *)
FewTxns == MaxTxns <= PrintLimit

LEMMA KeepsBooks ==
  ASSUME NEW ts, NEW us, Keeps(us, ts), NEW c, NEW p, Books(ts, c, p)
  PROVE  Books(us, c, p)
BY KeepsKeys DEF Books, FewPrints, Keeps

(* The new transaction x is a caller's, a retry of another, or the plan's; *)
(* if the processor was asked, the controls had let it pass.               *)
Adds(ts, x) ==
  /\ Keeps(ts, txns) /\ txns' = Append(ts, x)
  /\ hour' = hour /\ x.at = hour
  /\ x.recorded => VelocityPasses(x.amount)
  /\ x.charged => Fingerprint(x) \notin prints
  /\ FewTxns /\ Books(txns, cache, prints) =>
       prints \subseteq prints' /\ (x.charged => Fingerprint(x) \in prints')
  /\ \/ x.key[1] \in Keys
     \/ x.key = <<Len(txns) + 1>>
     \/ \E n \in 1..Len(txns): /\ x.key[1] = txns[n].key[1]
                               /\ Fingerprint(x) = Fingerprint(txns[n])

EngineStep ==
  \/ Keeps(txns', txns) /\ prints' = prints /\ hour' \in {hour, hour + 1}
  \/ \E ts \in Seq(Txn), x \in Txn: Adds(ts, x)

LEMMA OneMorePrint ==
  ASSUME NEW p, IsFiniteSet(p), NEW y
  PROVE  /\ IsFiniteSet(p \union {y})
         /\ Cardinality(p) \in Nat /\ Cardinality(p \union {y}) \in Nat
         /\ Cardinality(p \union {y}) <= Cardinality(p) + 1
<1>1. /\ IsFiniteSet(p \union {y})
      /\ Cardinality(p \union {y}) = IF y \in p THEN Cardinality(p) ELSE Cardinality(p) + 1
  BY FS_AddElement
<1>2. Cardinality(p) \in Nat
  BY FS_CardinalityType
<1>3. QED
  BY <1>1, <1>2

LEMMA FailedType ==
  ASSUME TypeOK, NEW key \in Seq(Keys \union Nat), NEW method \in Methods,
         NEW amount \in Amounts, NEW reason \in Reason
  PROVE  Failed(key, method, amount, reason) \in Txn
<1>1. hour \in Nat /\ 0 \in 0..MaxRetries
  BY EngineAssumption DEF TypeOK
<1>2. QED
  BY <1>1 DEF Failed, Txn, Status

(* What process_payment makes of a payment is sound, and is charged only   *)
(* if the controls let it pass and it is no duplicate.                     *)
Controlled(x, key, method, amount) ==
  /\ x \in Txn /\ Sound(x) /\ x.key = key /\ x.at = hour
  /\ Fingerprint(x) = <<amount, method>>
  /\ x.recorded => VelocityPasses(amount)
  /\ x.charged => /\ method \notin Expired /\ VelocityPasses(amount)
                  /\ <<amount, method>> \notin prints

LEMMA AttemptProperties ==
  ASSUME TypeOK, NEW key \in Seq(Keys \union Nat), key # <<>>, NEW method \in Methods,
         NEW amount \in Amounts, NEW outcome \in Outcome
  PROVE  Controlled(Attempt(key, method, amount, outcome), key, method, amount)
<1>0. amount \in Nat
  BY EngineAssumption
<1>1. ASSUME NEW reason \in Reason
      PROVE  Controlled(Failed(key, method, amount, reason), key, method, amount)
  <2>1. Failed(key, method, amount, reason) \in Txn
    BY FailedType
  <2>2. QED
    BY <1>0, <2>1 DEF Failed, Sound, Fingerprint, Controlled
<1>2. CASE method \in Expired \/ ~VelocityPasses(amount) \/ IsDuplicate(method, amount)
  <2>1. \E reason \in Reason:
          Attempt(key, method, amount, outcome) = Failed(key, method, amount, reason)
    BY <1>2 DEF Attempt, Reason
  <2>2. QED
    BY <1>1, <2>1
<1>3. CASE method \notin Expired /\ VelocityPasses(amount) /\ ~IsDuplicate(method, amount)
  <2> DEFINE r == CASE outcome = "captured" -> "none"
                    [] outcome = "fraud"    -> "fraud"
                    [] OTHER                -> "declined"
             st == IF outcome = "captured" THEN "captured" ELSE "failed"
             ch == outcome \in {"captured", "lost"}
             f == Failed(key, method, amount, r)
             x == [f EXCEPT !.status = st, !.recorded = TRUE, !.charged = ch]
  <2>1. Attempt(key, method, amount, outcome) = x
    BY <1>3 DEF Attempt
  <2>2. r \in Reason /\ st \in Status /\ ch \in BOOLEAN
    BY DEF Reason, Status, Outcome
  <2>3. /\ f \in Txn /\ f.key = key /\ f.amount = amount /\ f.method = method
        /\ f.refunded = 0 /\ f.at = hour
    BY <2>2, FailedType DEF Failed
  <2>4. st \in {"captured", "failed"} /\ (st = "captured" => ch)
    OBVIOUS
  <2> HIDE DEF r, st, ch, f
  <2>5. x \in Txn /\ x.key = key /\ x.amount = amount /\ x.method = method
    BY <2>2, <2>3 DEF Txn
  <2>6. x.refunded = 0 /\ x.status = st /\ x.charged = ch /\ x.at = hour
    BY <2>3 DEF Txn
  <2> HIDE DEF x
  <2>7. Sound(x)
    BY <1>0, <2>4, <2>5, <2>6 DEF Sound
  <2>8. QED
    BY <1>3, <2>1, <2>5, <2>6, <2>7 DEF Fingerprint, IsDuplicate, Controlled
<1>4. QED
  BY <1>2, <1>3

(* The inductive invariants: EInv for the refunds, KInv for the keys; and  *)
(* what a step does with them.                                             *)
KInv == EInv /\ Books(txns, cache, prints)
Holds == /\ EInv' /\ EngineStep
         /\ FewTxns /\ Books(txns, cache, prints) => Books(txns', cache', prints')

LEMMA ProcessStep ==
  ASSUME EInv, NEW ts, Sounds(ts), Keeps(ts, txns),
         NEW key \in Seq(Keys \union Nat), key # <<>>,
         NEW method \in Methods, NEW amount \in Amounts, NEW outcome \in Outcome,
         Process(ts, key, method, amount, outcome),
         \/ key[1] \in Keys
         \/ key = <<Len(txns) + 1>>
         \/ \E n \in 1..Len(txns): /\ key[1] = txns[n].key[1]
                                   /\ <<amount, method>> = Fingerprint(txns[n]),
         Books(txns, cache, prints) /\ key[1] \in PayKeys =>
           /\ <<key[1]>> \in cache'
           /\ \A m \in 1..Len(txns): txns[m].key[1] = key[1]
                                       => Fingerprint(txns[m]) = <<amount, method>>
  PROVE  /\ Holds
         /\ Adds(ts, Attempt(key, method, amount, outcome))
         /\ Controlled(Attempt(key, method, amount, outcome), key, method, amount)
<1> DEFINE x == Attempt(key, method, amount, outcome)
           all == prints \union {<<amount, method>>}
<1>1. TypeOK
  BY DEF EInv
<1>2. Controlled(x, key, method, amount)
  BY <1>1, AttemptProperties
<1>3. /\ Len(ts) < MaxTxns
      /\ txns' = Append(ts, x) /\ cache' = cache \union {key}
      /\ prints' \in IF method \notin Expired /\ VelocityPasses(amount)
                     THEN Remembered(all) ELSE {prints}
      /\ trust' = trust /\ hour' = hour
  BY DEF Process
<1> HIDE DEF x
<1>4. /\ x \in Txn /\ Sound(x) /\ x.key = key /\ x.at = hour
      /\ Fingerprint(x) = <<amount, method>>
      /\ x.recorded => VelocityPasses(amount)
      /\ x.charged => /\ method \notin Expired /\ VelocityPasses(amount)
                      /\ <<amount, method>> \notin prints
  BY <1>2 DEF Controlled
<1>5. all \in SUBSET (Amounts \X Methods) /\ prints \in SUBSET (Amounts \X Methods)
  BY DEF EInv, TypeOK
<1>6. prints' \in SUBSET (Amounts \X Methods)
  BY <1>3, <1>5 DEF Remembered, kSubset
<1>7. Sounds(txns')
  BY <1>4, <1>3, AppendSounds
<1>8. EInv'
  BY <1>3, <1>6, <1>7 DEF EInv, TypeOK, Sounds
<1>9. ASSUME FewTxns, Books(txns, cache, prints)
      PROVE  /\ Books(txns', cache', prints')
             /\ prints \subseteq prints' /\ (x.charged => Fingerprint(x) \in prints')
  <2>0. Books(ts, cache, prints)
    BY <1>9, KeepsBooks
  <2>1. /\ IsFiniteSet(prints) /\ Cardinality(prints) \in Nat
        /\ Cardinality(prints) <= Len(ts) /\ Len(ts) \in Nat
        /\ ts \in Seq(Txn) /\ cache \subseteq cache'
    BY <1>3, <2>0, OneMorePrint, LenProperties DEF Books, FewPrints, Sounds
  <2>2. /\ IsFiniteSet(all) /\ Cardinality(all) \in Nat
        /\ Cardinality(all) <= Cardinality(prints) + 1
    BY <2>1, OneMorePrint
  <2>3. Remembered(all) = {all}
    <3>1. Cardinality(all) <= PrintLimit
      BY ONLY <1>3, <1>9, <2>1, <2>2, EngineAssumption DEF FewTxns
    <3>2. QED
      BY ONLY <3>1 DEF Remembered
  <2>4. /\ prints' \in {prints, all}
        /\ x.charged => Fingerprint(x) \in prints' /\ Fingerprint(x) \notin prints
    BY <1>4, <1>3, <2>3
  <2>5. Len(txns') = Len(ts) + 1
    BY <1>4, <1>3, <2>1, AppendProperties
  <2>6. FewPrints(txns', prints')
    <3>1. FewPrints(txns', prints)
      BY <2>1, <2>5 DEF FewPrints
    <3>2. FewPrints(txns', all)
      BY <2>1, <2>2, <2>5 DEF FewPrints
    <3> HIDE DEF all
    <3>3. QED
      BY <2>4, <3>1, <3>2
  <2>7. prints \subseteq prints' /\ KeysOK(ts, cache, prints)
    BY <2>0, <2>4 DEF Books
  <2> HIDE DEF all
  <2>8. key[1] \in PayKeys =>
          /\ <<key[1]>> \in cache'
          /\ \A m \in 1..Len(ts): ts[m].key[1] = key[1]
                                    => Fingerprint(ts[m]) = <<amount, method>>
    BY <1>9 DEF Keeps
  <2>9. KeysOK(Append(ts, x), cache', prints')
    BY <1>4, <2>1, <2>4, <2>7, <2>8, AppendKeys
  <2>10. QED
    BY <1>3, <2>4, <2>6, <2>7, <2>9 DEF Books
<1>10. x.amount = amount /\ ts \in Seq(Txn)
  BY <1>4 DEF Fingerprint, Sounds
<1>11. Adds(ts, x)
  BY <1>4, <1>3, <1>9, <1>10 DEF Adds
<1>12. EngineStep
  BY <1>4, <1>10, <1>11 DEF EngineStep
<1>13. Holds
  BY <1>8, <1>9, <1>12 DEF Holds
<1>14. QED
  BY <1>2, <1>11, <1>13 DEF x
-------------------------------------------------------------------------------
LEMMA UpdateStep ==
  ASSUME EInv, NEW n \in 1..Len(txns), NEW x \in Txn, Sound(x),
         x.key = txns[n].key, Fingerprint(x) = Fingerprint(txns[n]),
         x.recorded = txns[n].recorded, x.at = txns[n].at,
         x.charged # txns[n].charged => txns[n].key[1] \in AuthKeys,
         txns' = [txns EXCEPT ![n] = x],
         cache' = cache, prints' = prints, hour' = hour, trust' \in Int
  PROVE  Holds
<1>1. Sounds(txns')
  BY UpdateSounds DEF EInv
<1>2. EInv'
  BY <1>1 DEF EInv, TypeOK, Sounds
<1>3. Keeps(txns', txns)
  BY KeepsOne DEF EInv, Sounds
<1>4. Books(txns, cache, prints) => Books(txns', cache', prints')
  BY <1>3, KeepsBooks
<1>5. QED
  BY <1>2, <1>3, <1>4 DEF Holds, EngineStep

(* What a transaction is, and the values it is computed with.              *)
LEMMA TxnAt ==
  ASSUME EInv, NEW n \in DOMAIN txns
  PROVE  /\ n \in 1..Len(txns) /\ txns[n] \in Txn /\ Sound(txns[n])
         /\ txns[n].amount \in Nat /\ txns[n].refunded \in Nat
         /\ txns[n].key \in Seq(Keys \union Nat)
         /\ txns[n].method \in Methods /\ txns[n].amount \in Amounts
         /\ txns \in Seq(Txn) /\ txns = [txns EXCEPT ![n] = txns[n]]
<1>1. txns \in Seq(Txn) /\ n \in 1..Len(txns)
  BY LenProperties DEF EInv, TypeOK
<1>2. txns[n] \in Txn /\ Sound(txns[n])
  BY <1>1, ElementOfSeq DEF EInv, Sounds
<1>3. QED
  BY <1>1, <1>2, EngineAssumption DEF Txn

LEMMA ProcessPaymentStep ==
  ASSUME EInv, NEW k \in PayKeys, NEW m \in Methods, NEW a \in Amounts,
         NEW o \in Outcome, ProcessPayment(k, m, a, o)
  PROVE  Holds
<1>1. <<k>> \in Seq(Keys \union Nat) /\ <<k>> # <<>> /\ <<k>>[1] = k
  BY DEF Keys
<1>2. Process(txns, <<k>>, m, a, o) /\ <<k>> \notin cache /\ <<k>> \in cache'
  BY DEF ProcessPayment, Process
<1>3. Books(txns, cache, prints) => \A i \in 1..Len(txns): txns[i].key[1] # k
  BY <1>2 DEF Books, KeysOK
<1>4. Keeps(txns, txns) /\ <<k>>[1] \in Keys
  BY <1>1 DEF Keeps, Keys
<1>5. QED
  BY <1>1, <1>2, <1>3, <1>4, ProcessStep DEF EInv

LEMMA RetryStep ==
  ASSUME EInv, NEW n \in DOMAIN txns, NEW o \in Outcome, RetryFailedPayment(n, o)
  PROVE  Holds
<1> DEFINE t == txns[n]
           again == [t EXCEPT !.retries = @ + 1]
           ts == [txns EXCEPT ![n] = again]
           key == Append(t.key, again.retries)
<1>1. /\ n \in 1..Len(txns) /\ t \in Txn /\ Sound(t) /\ txns \in Seq(Txn)
      /\ t.key \in Seq(Keys \union Nat) /\ t.method \in Methods /\ t.amount \in Amounts
  BY TxnAt
<1>2. CanRetry(t) /\ Process(ts, key, t.method, t.amount, o)
  BY DEF RetryFailedPayment
<1>3. again \in Txn /\ again.retries \in Nat
  <2>1. t.retries \in 0..MaxRetries /\ MaxRetries \in Nat /\ t.retries < MaxRetries
    BY <1>1, <1>2, EngineAssumption DEF CanRetry, Txn
  <2>2. t.retries + 1 \in 0..MaxRetries
    BY <2>1
  <2> HIDE DEF t
  <2>3. again \in Txn /\ again.retries = t.retries + 1
    BY <1>1, <2>2 DEF Txn
  <2> HIDE DEF again
  <2>4. QED
    BY <2>1, <2>2, <2>3
<1>4. /\ again.key = t.key /\ again.amount = t.amount /\ again.method = t.method
      /\ again.charged = t.charged /\ again.status = t.status
      /\ again.recorded = t.recorded /\ again.at = t.at
      /\ again.refunded = t.refunded
  <2> HIDE DEF t
  <2> QED BY <1>1 DEF Txn
<1> HIDE DEF again
<1>5. Sound(again) /\ Fingerprint(again) = Fingerprint(t)
  BY <1>1, <1>4 DEF Sound, Fingerprint
<1>6. Sounds(ts)
  BY <1>1, <1>3, <1>5, UpdateSounds DEF EInv
<1>7. /\ key \in Seq(Keys \union Nat) /\ key # <<>> /\ key[1] = t.key[1]
  <2>1. t.key # <<>> /\ Len(t.key) \in Nat \ {0}
    BY <1>1, EmptySeq DEF Sound
  <2>2. again.retries \in Keys \union Nat
    BY <1>3
  <2> HIDE DEF t
  <2>3. QED
    BY <1>1, <2>1, <2>2, AppendProperties
<1>8. Keeps(ts, txns)
  BY <1>1, <1>3, <1>4, <1>5, KeepsOne
<1>9. key[1] = txns[n].key[1] /\ <<t.amount, t.method>> = Fingerprint(txns[n])
  BY <1>7 DEF Fingerprint
<1>10. ASSUME Books(txns, cache, prints), key[1] \in PayKeys
       PROVE  /\ <<key[1]>> \in cache'
              /\ \A m \in 1..Len(txns): txns[m].key[1] = key[1]
                                          => Fingerprint(txns[m]) = <<t.amount, t.method>>
  <2>1. cache \subseteq cache'
    BY <1>2 DEF Process
  <2> HIDE DEF ts, key, t
  <2>2. QED
    BY <1>1, <1>9, <1>10, <2>1 DEF Books, KeysOK
<1> HIDE DEF ts, key, t
<1>11. QED
  BY <1>1, <1>2, <1>6, <1>7, <1>8, <1>9, <1>10, ProcessStep

LEMMA AuthorizeStep ==
  ASSUME EInv, NEW k \in AuthKeys, NEW m \in Methods, NEW a \in Amounts,
         NEW ok \in BOOLEAN, AuthorizePayment(k, m, a, ok)
  PROVE  Holds
<1> DEFINE r == IF ok THEN "none" ELSE "declined"
           st == IF ok THEN "authorized" ELSE "failed"
           f == Failed(<<k>>, m, a, r)
           x == [f EXCEPT !.status = st, !.via = "authorize"]
<1>1. /\ txns' = Append(txns, x)
      /\ cache' = cache /\ prints' = prints /\ trust' = trust /\ hour' = hour
  BY DEF AuthorizePayment
<1>2. /\ <<k>> \in Seq(Keys \union Nat) /\ <<k>> # <<>> /\ <<k>>[1] = k
      /\ r \in Reason /\ st \in {"authorized", "failed"} /\ a \in Nat
  BY EngineAssumption DEF Keys, Reason
<1>3. /\ f \in Txn /\ f.key = <<k>> /\ f.refunded = 0 /\ ~f.charged /\ f.amount = a
      /\ ~f.recorded /\ f.at = hour
  BY <1>2, FailedType DEF Failed, EInv
<1> HIDE DEF r, f
<1>4. st \in Status
  BY DEF Status
<1> HIDE DEF st
<1>5. /\ x \in Txn /\ x.key = <<k>> /\ x.refunded = 0 /\ ~x.charged /\ x.amount = a
      /\ x.status = st /\ ~x.recorded /\ x.at = hour
  BY <1>3, <1>4 DEF Txn
<1> HIDE DEF x
<1>6. Sound(x)
  BY <1>2, <1>5 DEF Sound
<1>7. Sounds(txns')
  BY <1>1, <1>5, <1>6, AppendSounds DEF EInv
<1>8. EInv'
  BY <1>1, <1>7 DEF EInv, TypeOK, Sounds
<1>9. x.key[1] \in AuthKeys /\ x.key[1] \notin PayKeys /\ x.key[1] \in Keys
  BY <1>2, <1>5, EngineAssumption DEF Keys
<1>10. Books(txns, cache, prints) => Books(txns', cache', prints')
  <2>1. /\ txns \in Seq(Txn) /\ Len(txns) \in Nat
        /\ Len(Append(txns, x)) = Len(txns) + 1
    BY <1>5, AppendProperties, LenProperties DEF EInv, TypeOK
  <2>2. KeysOK(txns, cache, prints) => KeysOK(Append(txns, x), cache, prints)
    BY <1>5, <1>9, <2>1, AppendKeys
  <2>3. FewPrints(txns, prints) => FewPrints(Append(txns, x), prints)
    <3>1. IsFiniteSet(prints) => Cardinality(prints) \in Nat
      BY FS_CardinalityType
    <3>2. QED
      BY <2>1, <3>1 DEF FewPrints
  <2>4. QED
    BY <1>1, <2>2, <2>3 DEF Books
<1>11. EngineStep
  <2>1. Keeps(txns, txns) /\ txns \in Seq(Txn)
    BY DEF Keeps, EInv, Sounds
  <2>2. Adds(txns, x)
    BY <1>1, <1>5, <1>9, <2>1 DEF Adds
  <2>3. QED
    BY <1>5, <2>1, <2>2 DEF EngineStep
<1>12. QED
  BY <1>8, <1>10, <1>11 DEF Holds

LEMMA CaptureStep ==
  ASSUME EInv, NEW n \in DOMAIN txns, NEW o \in Outcome, CapturePayment(n, o)
  PROVE  Holds
<1> DEFINE t == txns[n]
           st == IF o = "captured" THEN "captured" ELSE "failed"
           ch == o \in {"captured", "lost"}
           x == [t EXCEPT !.status = st, !.charged = ch]
<1>1. /\ n \in 1..Len(txns) /\ t \in Txn /\ Sound(t) /\ txns \in Seq(Txn)
      /\ t.refunded \in Nat /\ t.amount \in Nat
  BY TxnAt
<1>2. t.status = "authorized" /\ txns' = [txns EXCEPT ![n] = x]
      /\ cache' = cache /\ prints' = prints /\ hour' = hour /\ trust' = trust
  BY DEF CapturePayment
<1>3. st \in Status /\ ch \in BOOLEAN /\ st \in {"captured", "failed"}
      /\ (st = "captured" => ch)
  BY DEF Status
<1> HIDE DEF t, st, ch
<1>4. /\ x \in Txn /\ x.key = t.key /\ x.amount = t.amount /\ x.method = t.method
      /\ x.refunded = t.refunded /\ x.status = st /\ x.charged = ch
      /\ x.recorded = t.recorded /\ x.at = t.at
  BY <1>1, <1>3 DEF Txn
<1> HIDE DEF x
<1>5. Sound(x) /\ t.key[1] \in AuthKeys /\ Fingerprint(x) = Fingerprint(t)
  BY <1>1, <1>2, <1>3, <1>4, EngineAssumption DEF Sound, Fingerprint
<1>6. QED
  BY <1>1, <1>2, <1>4, <1>5, UpdateStep DEF t, EInv, TypeOK

(* A step that changes no more than a transaction's status, to one that    *)
(* demands nothing.                                                        *)
LEMMA StatusStep ==
  ASSUME EInv, NEW n \in DOMAIN txns,
         NEW st \in {"cancelled", "settled", "reconciled", "chargeback"},
         st = "settled" => txns[n].charged,
         txns' = [txns EXCEPT ![n].status = st],
         cache' = cache, prints' = prints, hour' = hour, trust' \in Int
  PROVE  Holds
<1> DEFINE t == txns[n]
           x == [t EXCEPT !.status = st]
<1>1. /\ n \in 1..Len(txns) /\ t \in Txn /\ Sound(t) /\ txns \in Seq(Txn)
  BY TxnAt
<1>2. txns' = [txns EXCEPT ![n] = x] /\ st \in Status
  BY DEF Status
<1>3. st = "settled" => t.charged
  OBVIOUS
<1> HIDE DEF t
<1>4. /\ x \in Txn /\ x.key = t.key /\ x.amount = t.amount /\ x.method = t.method
      /\ x.refunded = t.refunded /\ x.status = st /\ x.charged = t.charged
      /\ x.recorded = t.recorded /\ x.at = t.at
  BY <1>1, <1>2 DEF Txn
<1> HIDE DEF x
<1>5. Sound(x) /\ Fingerprint(x) = Fingerprint(t)
  BY <1>1, <1>3, <1>4 DEF Sound, Fingerprint
<1>6. QED
  BY <1>1, <1>2, <1>4, <1>5, UpdateStep DEF t

LEMMA RefundStep ==
  ASSUME EInv, NEW n \in DOMAIN txns, NEW a \in Amounts, RefundPayment(n, a)
  PROVE  Holds
<1> DEFINE t == txns[n]
           back == t.refunded + a
           st == IF back >= t.amount THEN "refunded" ELSE t.status
           x == [t EXCEPT !.refunded = back, !.status = st]
<1>1. /\ n \in 1..Len(txns) /\ t \in Txn /\ Sound(t) /\ txns \in Seq(Txn)
      /\ t.refunded \in Nat /\ t.amount \in Nat /\ a \in Nat
  BY TxnAt, EngineAssumption
<1>2. /\ t.status \in {"captured", "settled"} /\ a <= t.amount - t.refunded
      /\ txns' = [txns EXCEPT ![n] = x]
      /\ cache' = cache /\ prints' = prints /\ hour' = hour /\ trust' = trust
  BY DEF RefundPayment, Refundable
<1>3. /\ back \in Nat /\ back <= t.amount /\ st \in Status
      /\ st = "refunded" => back = t.amount
      /\ st \in {"refunded", "captured", "settled"}
  BY <1>1, <1>2 DEF Status
<1> HIDE DEF t, back, st
<1>4. /\ x \in Txn /\ x.key = t.key /\ x.amount = t.amount /\ x.method = t.method
      /\ x.refunded = back /\ x.status = st /\ x.charged = t.charged
      /\ x.recorded = t.recorded /\ x.at = t.at
  BY <1>1, <1>3 DEF Txn
<1> HIDE DEF x
<1>5. Sound(x) /\ Fingerprint(x) = Fingerprint(t)
  BY <1>1, <1>2, <1>3, <1>4 DEF Sound, Fingerprint
<1>6. QED
  BY <1>1, <1>2, <1>4, <1>5, UpdateStep DEF t, EInv, TypeOK

LEMMA NextHolds == EInv /\ [Next]_vars => Holds
<1> SUFFICES ASSUME EInv, [Next]_vars PROVE Holds
  OBVIOUS
<1>0. ASSUME NEW n \in DOMAIN txns
      PROVE  /\ txns[n].status \in {"captured", "settled"} => txns[n].charged
             /\ trust \in Int /\ Fee \in Int /\ txns[n].amount \in Int
  <2>1. Sound(txns[n]) /\ txns[n].amount \in Nat
    BY TxnAt
  <2>2. txns[n].status \in {"captured", "settled"} => txns[n].charged
    BY <2>1 DEF Sound
  <2>3. trust \in Int /\ Fee \in Int
    BY EngineAssumption DEF EInv, TypeOK
  <2>4. QED
    BY <2>1, <2>2, <2>3
<1>1. ASSUME NEW n \in DOMAIN txns, VoidAuthorization(n) PROVE Holds
  BY <1>0, <1>1, StatusStep DEF VoidAuthorization
<1>2. ASSUME NEW n \in DOMAIN txns, SettleTransaction(n) PROVE Holds
  <2>1. trust' \in Int
    BY <1>0, <1>2 DEF SettleTransaction
  <2>2. QED
    BY <1>0, <1>2, <2>1, StatusStep DEF SettleTransaction
<1>3. ASSUME NEW n \in DOMAIN txns, ReconcileTransaction(n) PROVE Holds
  BY <1>0, <1>3, StatusStep DEF ReconcileTransaction
<1>4. ASSUME NEW n \in DOMAIN txns, HandleChargeback(n) PROVE Holds
  <2>1. trust' \in Int
    BY <1>0, <1>4 DEF HandleChargeback
  <2>2. QED
    BY <1>0, <1>4, <2>1, StatusStep DEF HandleChargeback
<1>5. ASSUME txns' = txns, cache' = cache, prints' = prints, trust' = trust,
             hour' \in 0..MaxHour, hour' \in {hour, hour + 1}
      PROVE  Holds
  <2>1. EngineStep
    BY <1>5 DEF EngineStep, Keeps
  <2>2. QED
    BY <1>5, <2>1 DEF Holds, EInv, TypeOK
<1>6. CASE HourPasses
  <2>1. hour' \in 0..MaxHour /\ hour' = hour + 1
    BY <1>6, EngineAssumption DEF HourPasses, EInv, TypeOK
  <2>2. QED
    BY <1>5, <1>6, <2>1 DEF HourPasses
<1>7. CASE UNCHANGED vars
  BY <1>5, <1>7 DEF vars, EInv, TypeOK
<1>8. QED
  BY <1>1, <1>2, <1>3, <1>4, <1>6, <1>7, ProcessPaymentStep, RetryStep, AuthorizeStep,
     CaptureStep, RefundStep
     DEF Next

LEMMA InitKInv == Init => KInv
<1> SUFFICES ASSUME Init PROVE KInv
  OBVIOUS
<1>1. txns = <<>> /\ <<>> \in Seq(Txn) /\ Len(<<>>) = 0
  BY EmptySeq DEF Init
<1>2. 0 \in 0..MaxHour
  BY EngineAssumption
<1>3. QED
  BY <1>1, <1>2, FS_EmptySet DEF Init, KInv, EInv, TypeOK, Sounds, Books, FewPrints, KeysOK

(* Every reachable state is well typed.                                    *)
THEOREM EngineTypeCorrect == Spec => []TypeOK
<1>1. Init => EInv
  BY InitKInv DEF KInv
<1>2. EInv /\ [Next]_vars => EInv'
  BY NextHolds DEF Holds
<1>3. EInv => TypeOK
  BY DEF EInv
<1>4. QED
  BY <1>1, <1>2, <1>3, PTL DEF Spec

(* However partial refunds, settlements, captures and chargebacks follow   *)
(* each other, no payment is refunded beyond its amount, or before it was  *)
(* charged.                                                                *)
THEOREM RefundsBounded == Spec => []RefundsWithinPayment
<1>1. Init => EInv
  BY InitKInv DEF KInv
<1>2. EInv /\ [Next]_vars => EInv'
  BY NextHolds DEF Holds
<1>3. EInv => RefundsWithinPayment
  BY TxnAt DEF RefundsWithinPayment, Sound
<1>4. QED
  BY <1>1, <1>2, <1>3, PTL DEF Spec

-------------------------------------------------------------------------------
(* For an account with no more transactions than fingerprints are kept of, *)
(* a caller's key is charged at most once, whatever answers are lost and   *)
(* however often it is retried.                                            *)
THEOREM KeysChargedOnce ==
  ASSUME FewTxns
  PROVE  Spec => []OneChargePerKey
<1>1. KInv /\ [Next]_vars => KInv'
  BY NextHolds DEF Holds, KInv
<1>2. KInv => OneChargePerKey
  BY TxnAt DEF KInv, Books, KeysOK, OneChargePerKey
<1>3. QED
  BY InitKInv, <1>1, <1>2, PTL DEF Spec
-------------------------------------------------------------------------------
(* The controls.  What check_velocity counts in the transactions ts.       *)
Recorded(ts, h) == {n \in 1..Len(ts): ts[n].recorded /\ ts[n].at >= h}
AmountsOf(ts) == [n \in 1..Len(ts) |-> ts[n].amount]
Within(ts, h) ==
  /\ Cardinality(Recorded(ts, h - 1)) <= HourlyLimit
  /\ Cardinality(Recorded(ts, h - DayLength)) <= DailyLimit
  /\ SumFunctionOnSet(AmountsOf(ts), Recorded(ts, h - DayLength)) <= DailyAmount

LEMMA TheLimits ==
  HourlyLimit \in Nat /\ DailyLimit \in Nat /\ DailyAmount \in Nat /\ DayLength \in Nat
BY EngineAssumption

LEMMA TxnNumbers ==
  ASSUME NEW ts \in Seq(Txn), NEW n \in 1..Len(ts)
  PROVE  ts[n] \in Txn /\ ts[n].amount \in Nat /\ ts[n].at \in Nat
<1>1. ts[n] \in Txn
  BY ElementOfSeq
<1>2. QED
  BY <1>1, EngineAssumption DEF Txn

LEMMA RecordedIsFinite ==
  ASSUME NEW ts \in Seq(Txn), NEW h
  PROVE  /\ IsFiniteSet(Recorded(ts, h)) /\ Cardinality(Recorded(ts, h)) \in Nat
         /\ \A n \in Recorded(ts, h): AmountsOf(ts)[n] \in Nat
<1>1. Len(ts) \in Nat /\ IsFiniteSet(1..Len(ts)) /\ Recorded(ts, h) \subseteq 1..Len(ts)
  BY LenProperties, FS_Interval DEF Recorded
<1>2. IsFiniteSet(Recorded(ts, h)) /\ Cardinality(Recorded(ts, h)) \in Nat
  BY <1>1, FS_Subset, FS_CardinalityType
<1>3. \A n \in Recorded(ts, h): AmountsOf(ts)[n] \in Nat
  BY <1>1, TxnNumbers DEF AmountsOf
<1>4. QED
  BY <1>2, <1>3

LEMMA VelocityOfTxns ==
  ASSUME txns \in Seq(Txn)
  PROVE  /\ VelocityLimited <=> Within(txns, hour)
         /\ \A amount: VelocityPasses(amount) <=>
              /\ Cardinality(Recorded(txns, hour - 1)) < HourlyLimit
              /\ Cardinality(Recorded(txns, hour - DayLength)) < DailyLimit
              /\ SumFunctionOnSet(AmountsOf(txns), Recorded(txns, hour - DayLength)) + amount
                   <= DailyAmount
<1>1. DOMAIN txns = 1..Len(txns)
  BY LenProperties
<1>2. \A h: RecordedSince(h) = Recorded(txns, h)
  BY <1>1 DEF RecordedSince, Recorded
<1>3. [n \in DOMAIN txns |-> txns[n].amount] = AmountsOf(txns)
  BY <1>1 DEF AmountsOf
<1>4. \A S: AmountOf(S) = SumFunctionOnSet(AmountsOf(txns), S)
  BY <1>3 DEF AmountOf
<1>5. QED
  BY <1>2, <1>4 DEF VelocityLimited, VelocityPasses, Within

LEMMA LimitedIsWithin == txns \in Seq(Txn) => (VelocityLimited <=> Within(txns, hour))
BY VelocityOfTxns

LEMMA KeepsRecorded ==
  ASSUME NEW ts, NEW us, Keeps(us, ts)
  PROVE  AmountsOf(us) = AmountsOf(ts) /\ \A h: Recorded(us, h) = Recorded(ts, h)
<1>1. Len(us) = Len(ts)
  BY DEF Keeps
<1>2. \A n \in 1..Len(ts): us[n].amount = ts[n].amount
  BY DEF Keeps, Fingerprint
<1>3. \A n \in 1..Len(ts): us[n].recorded = ts[n].recorded /\ us[n].at = ts[n].at
  BY DEF Keeps
<1>4. AmountsOf(us) = AmountsOf(ts)
  BY <1>1, <1>2 DEF AmountsOf
<1>5. \A h: Recorded(us, h) = Recorded(ts, h)
  BY <1>1, <1>3 DEF Recorded
<1>6. QED
  BY <1>4, <1>5

(* As time passes, fewer of them count.                                    *)
LEMMA LaterRecorded ==
  ASSUME NEW ts \in Seq(Txn), NEW h \in Int, NEW k \in Int, h <= k, Within(ts, h)
  PROVE  Within(ts, k)
<1>1. ASSUME NEW i \in Int, NEW j \in Int, i <= j
      PROVE  /\ Recorded(ts, j) \subseteq Recorded(ts, i)
             /\ Cardinality(Recorded(ts, i)) \in Nat /\ Cardinality(Recorded(ts, j)) \in Nat
             /\ Cardinality(Recorded(ts, j)) <= Cardinality(Recorded(ts, i))
  <2>1. \A n \in 1..Len(ts): ts[n].at \in Nat
    BY TxnNumbers
  <2>2. Recorded(ts, j) \subseteq Recorded(ts, i)
    BY <1>1, <2>1 DEF Recorded
  <2>3. QED
    BY <2>2, RecordedIsFinite, FS_Subset
<1>2. /\ h - 1 \in Int /\ k - 1 \in Int /\ h - 1 <= k - 1
      /\ h - DayLength \in Int /\ k - DayLength \in Int /\ h - DayLength <= k - DayLength
  BY TheLimits
<1>3. SumFunctionOnSet(AmountsOf(ts), Recorded(ts, k - DayLength))
        <= SumFunctionOnSet(AmountsOf(ts), Recorded(ts, h - DayLength))
  BY <1>1, <1>2, RecordedIsFinite, SumOfPart
<1>4. /\ SumFunctionOnSet(AmountsOf(ts), Recorded(ts, k - DayLength)) \in Nat
      /\ SumFunctionOnSet(AmountsOf(ts), Recorded(ts, h - DayLength)) \in Nat
  BY RecordedIsFinite, SumIsNat
<1>5. Cardinality(Recorded(ts, k - 1)) <= HourlyLimit
  BY ONLY <1>1, <1>2, TheLimits, Within(ts, h) DEF Within
<1>6. Cardinality(Recorded(ts, k - DayLength)) <= DailyLimit
  BY ONLY <1>1, <1>2, TheLimits, Within(ts, h) DEF Within
<1>7. SumFunctionOnSet(AmountsOf(ts), Recorded(ts, k - DayLength)) <= DailyAmount
  BY ONLY <1>3, <1>4, TheLimits, Within(ts, h) DEF Within
<1>8. QED
  BY <1>5, <1>6, <1>7 DEF Within

(* One more, which counts only if check_velocity let it pass.              *)
LEMMA OneMoreRecorded ==
  ASSUME NEW ts \in Seq(Txn), NEW x \in Txn, NEW h \in Int, Within(ts, h), x.at = h,
         x.recorded =>
           /\ Cardinality(Recorded(ts, h - 1)) < HourlyLimit
           /\ Cardinality(Recorded(ts, h - DayLength)) < DailyLimit
           /\ SumFunctionOnSet(AmountsOf(ts), Recorded(ts, h - DayLength)) + x.amount
                <= DailyAmount
  PROVE  Within(Append(ts, x), h)
<1> DEFINE us == Append(ts, x)
           z == Len(ts) + 1
<1>1. /\ us \in Seq(Txn) /\ Len(ts) \in Nat /\ Len(us) = z
      /\ \A n \in 1..Len(ts): us[n] = ts[n]
      /\ us[z] = x
  BY AppendProperties, LenProperties
<1> HIDE DEF us
<1>2. z \notin 1..Len(ts) /\ 1..z = (1..Len(ts)) \union {z}
  BY <1>1
<1>3. \A n \in 1..Len(ts): AmountsOf(us)[n] = AmountsOf(ts)[n]
  BY <1>1, <1>2 DEF AmountsOf
<1>4. AmountsOf(us)[z] = x.amount /\ x.amount \in Nat
  BY <1>1, <1>2, TxnNumbers DEF AmountsOf
<1>5. ASSUME NEW k \in Int, k <= h
      PROVE  Recorded(us, k) = IF x.recorded THEN Recorded(ts, k) \union {z}
                                             ELSE Recorded(ts, k)
  <2>1. \A n \in 1..Len(us): n \in Recorded(us, k) <=> us[n].recorded /\ us[n].at >= k
    BY DEF Recorded
  <2>2. \A n \in 1..Len(ts): n \in Recorded(us, k) <=> n \in Recorded(ts, k)
    BY <1>1, <1>2, <2>1 DEF Recorded
  <2>3. z \in Recorded(us, k) <=> x.recorded
    BY <1>1, <1>2, <1>5, <2>1
  <2>4. Recorded(us, k) \subseteq 1..z /\ Recorded(ts, k) \subseteq 1..Len(ts)
    BY <1>1 DEF Recorded
  <2> HIDE DEF z
  <2>5. QED
    BY ONLY <1>2, <2>2, <2>3, <2>4
<1>6. \A k: /\ IsFiniteSet(Recorded(ts, k)) /\ z \notin Recorded(ts, k)
            /\ Cardinality(Recorded(ts, k)) \in Nat
  BY <1>2, RecordedIsFinite DEF Recorded
<1>7. \A k: Cardinality(Recorded(ts, k) \union {z}) = Cardinality(Recorded(ts, k)) + 1
  BY <1>6, FS_AddElement
<1>8. ASSUME NEW k
      PROVE  /\ SumFunctionOnSet(AmountsOf(us), Recorded(ts, k))
                  = SumFunctionOnSet(AmountsOf(ts), Recorded(ts, k))
             /\ SumFunctionOnSet(AmountsOf(us), Recorded(ts, k) \union {z})
                  = SumFunctionOnSet(AmountsOf(ts), Recorded(ts, k)) + x.amount
  <2> DEFINE R == Recorded(ts, k)
             f == AmountsOf(ts)
             g == AmountsOf(us)
  <2>1. IsFiniteSet(R) /\ z \notin R /\ R \subseteq 1..Len(ts)
    BY <1>6 DEF Recorded
  <2>2. \A n \in R: f[n] \in Int /\ g[n] = f[n]
    BY <1>3, <2>1, RecordedIsFinite
  <2>3. g[z] = x.amount /\ g[z] \in Int
    BY <1>4
  <2> HIDE DEF R, f, g, z
  <2>4. SumFunctionOnSet(g, R) = SumFunctionOnSet(f, R)
    BY <2>1, <2>2, SumSame
  <2>5. IsFiniteSet(R \union {z}) /\ (\A n \in R \union {z}: g[n] \in Int)
        /\ (R \union {z}) \ {z} = R /\ z \in R \union {z}
    BY <2>1, <2>2, <2>3, FS_AddElement
  <2> DEFINE T == R \union {z}
  <2>6. SumFunctionOnSet(g, T) = g[z] + SumFunctionOnSet(g, R)
        /\ SumFunctionOnSet(g, R) \in Int
    <3>1. IsFiniteSet(T) /\ T \ {z} = R /\ z \in T
      BY <2>5
    <3>2. \A n \in T: g[n] \in Int
      BY <2>5
    <3> HIDE DEF T
    <3>3. SumFunctionOnSet(g, T) = g[z] + SumFunctionOnSet(g, T \ {z})
          /\ SumFunctionOnSet(g, T \ {z}) \in Int
      BY ONLY <3>1, <3>2, SumTakeOut
    <3>4. QED
      BY <3>1, <3>3
  <2>7. QED
    BY <2>3, <2>4, <2>6 DEF R, f, g
<1>9. h - 1 \in Int /\ h - 1 <= h /\ h - DayLength \in Int /\ h - DayLength <= h
  BY TheLimits
<1>10. CASE x.recorded
  <2>1. /\ Recorded(us, h - 1) = Recorded(ts, h - 1) \union {z}
        /\ Recorded(us, h - DayLength) = Recorded(ts, h - DayLength) \union {z}
    BY <1>5, <1>9, <1>10
  <2>2. /\ Cardinality(Recorded(us, h - 1)) <= HourlyLimit
        /\ Cardinality(Recorded(us, h - DayLength)) <= DailyLimit
    BY <1>6, <1>7, <1>10, <2>1, TheLimits
  <2>3. SumFunctionOnSet(AmountsOf(us), Recorded(us, h - DayLength)) <= DailyAmount
    BY <1>8, <1>10, <2>1
  <2>4. QED
    BY <2>2, <2>3 DEF Within, us
<1>11. CASE ~x.recorded
  <2>1. /\ Recorded(us, h - 1) = Recorded(ts, h - 1)
        /\ Recorded(us, h - DayLength) = Recorded(ts, h - DayLength)
    BY <1>5, <1>9, <1>11
  <2>2. QED
    BY <1>8, <2>1 DEF Within, us
<1>12. QED
  BY <1>10, <1>11

LEMMA VelocityStep == EInv /\ Holds /\ VelocityLimited => VelocityLimited'
<1> SUFFICES ASSUME EInv, Holds, VelocityLimited PROVE VelocityLimited'
  OBVIOUS
<1>1. txns \in Seq(Txn) /\ txns' \in Seq(Txn) /\ hour \in Int /\ hour' \in Int
  BY EngineAssumption DEF EInv, Holds, TypeOK
<1>2. Within(txns, hour)
  BY <1>1, VelocityOfTxns
<1>3. (txns \in Seq(Txn) => (VelocityLimited <=> Within(txns, hour)))'
  BY LimitedIsWithin, PTL
<1>4. VelocityLimited' <=> Within(txns', hour')
  BY <1>1, <1>3
<1>5. CASE Keeps(txns', txns) /\ hour' \in {hour, hour + 1}
  <2>1. Within(txns', hour)
    BY <1>2, <1>5, KeepsRecorded DEF Within
  <2>2. Within(txns', hour')
    BY <1>1, <1>5, <2>1, LaterRecorded
  <2>3. QED
    BY <1>4, <2>2
<1>6. ASSUME NEW ts \in Seq(Txn), NEW x \in Txn, Adds(ts, x) PROVE VelocityLimited'
  <2>1. /\ Keeps(ts, txns) /\ txns' = Append(ts, x) /\ hour' = hour /\ x.at = hour
        /\ x.recorded => VelocityPasses(x.amount)
    BY <1>6 DEF Adds
  <2>2. AmountsOf(ts) = AmountsOf(txns) /\ \A h: Recorded(ts, h) = Recorded(txns, h)
    BY <2>1, KeepsRecorded
  <2>3. Within(ts, hour)
    BY <1>2, <2>2 DEF Within
  <2>4. x.recorded =>
           /\ Cardinality(Recorded(ts, hour - 1)) < HourlyLimit
           /\ Cardinality(Recorded(ts, hour - DayLength)) < DailyLimit
           /\ SumFunctionOnSet(AmountsOf(ts), Recorded(ts, hour - DayLength)) + x.amount
                <= DailyAmount
    BY <1>1, <2>1, <2>2, VelocityOfTxns
  <2>5. Within(Append(ts, x), hour)
    BY <1>1, <2>1, <2>3, <2>4, OneMoreRecorded
  <2>6. QED
    BY <1>4, <2>1, <2>5
<1>7. QED
  BY <1>5, <1>6 DEF Holds, EngineStep

LEMMA VelocityInit == Init => VelocityLimited
<1> SUFFICES ASSUME Init PROVE VelocityLimited
  OBVIOUS
<1>1. txns = <<>> /\ txns \in Seq(Txn) /\ Len(txns) = 0
  BY EmptySeq DEF Init
<1>2. \A h: Recorded(txns, h) = {}
  BY <1>1 DEF Recorded
<1>3. Cardinality({}) = 0 /\ SumFunctionOnSet(AmountsOf(txns), {}) = 0
  BY FS_EmptySet, SumOfNone
<1>4. Within(txns, hour)
  BY <1>2, <1>3, TheLimits DEF Within
<1>5. QED
  BY <1>1, <1>4, VelocityOfTxns

(* In no hour and no day do the processors get more requests, or requests  *)
(* for more money, than check_velocity allows, however payments and their  *)
(* retries follow each other.                                              *)
THEOREM VelocityHolds == Spec => []VelocityLimited
<1> DEFINE V == EInv /\ VelocityLimited
<1>1. Init => V
  BY InitKInv, VelocityInit DEF KInv
<1>2. V /\ [Next]_vars => V'
  BY NextHolds, VelocityStep DEF Holds
<1>3. QED
  BY <1>1, <1>2, PTL DEF Spec
-------------------------------------------------------------------------------
(* The plan.  A finite set of numbers has a least one.                     *)
LEMMA MinIsIn ==
  ASSUME NEW S, IsFiniteSet(S), S # {}, \A x \in S: x \in Int
  PROVE  Min(S) \in S
<1> DEFINE G == {T \in SUBSET S: T # {} => \E x \in T: \A y \in T: x <= y}
<1>1. {} \in G
  OBVIOUS
<1>2. ASSUME NEW T \in SUBSET S, NEW z \in T, T \ {z} \in G PROVE T \in G
  <2>1. CASE T \ {z} = {}
    <3>1. \A y \in T: z <= y
      BY <2>1
    <3>2. QED
      BY <3>1
  <2>2. ASSUME NEW m \in T \ {z}, \A y \in T \ {z}: m <= y PROVE T \in G
    <3>1. CASE z <= m
      BY <2>2, <3>1
    <3>2. CASE m <= z
      BY <2>2, <3>2
    <3>3. QED
      BY <3>1, <3>2
  <2>3. QED
    BY <1>2, <2>1, <2>2
<1>3. \A T \in SUBSET S: \A z \in T: T \ {z} \in G => T \in G
  BY <1>2
<1>4. \A T \in SUBSET S: T \in G
  <2> HIDE DEF G
  <2>1. QED
    BY ONLY <1>1, <1>3, SubsetInduction, IsFiniteSet(S)
<1>5. PICK x \in S: \A y \in S: x <= y
  BY <1>4
<1>6. QED
  BY <1>5 DEF Min

(* What the installments pl are worth, and those of them that are done.    *)
Worth(pl) == [i \in 1..Len(pl) |-> pl[i].amount]
Done(pl) == {i \in 1..Len(pl): pl[i].status = "completed"}

(* The rounding of the number of payments leaves a last installment of at  *)
(* least half a payment, and of less than one and a half.                  *)
LEMMA LastInstallment ==
  ASSUME NEW sum \in Nat \ {0}, NEW payment \in Nat \ {0}
  PROVE  /\ NumPayments(sum, payment) \in Nat
         /\ sum - payment * (NumPayments(sum, payment) - 1) \in 1..(2 * payment)
<1> DEFINE d == 2 * payment
           a == 2 * sum + payment
           n == NumPayments(sum, payment)
           q == payment * n
<1>1. a \in Nat /\ d \in Nat \ {0}
  OBVIOUS
<1>2. n = a \div d
  BY DEF NumPayments
<1>3. n \in Nat /\ d * n <= a /\ a < d * n + d
  <2> HIDE DEF a, d, n
  <2>1. QED
    BY <1>1, <1>2
<1> HIDE DEF n
<1>4. d * n = 2 * q /\ payment * (n - 1) = q - payment /\ q \in Int
  BY <1>3
<1> HIDE DEF q
<1>5. QED
  BY <1>3, <1>4 DEF n

(* They add up to the total.                                               *)
LEMMA InstallmentsFit ==
  ASSUME NEW p \in Plans, NEW pl, pl = Installments(p[1], p[2])
  PROVE  /\ pl \in Seq(Installment) /\ Len(pl) \in Nat
         /\ \A i \in 1..Len(pl): pl[i].status = "scheduled"
         /\ pl # <<>> => SumFunctionOnSet(Worth(pl), 1..Len(pl)) = p[1]
<1> DEFINE n == NumPayments(p[1], p[2])
           last == p[1] - p[2] * (n - 1)
<1>1. p[1] \in Nat \ {0} /\ p[2] \in Nat \ {0} /\ 1..(2 * p[2]) \subseteq Amounts /\ Every \in Nat
  BY PlanAssumption
<1>2. n \in Nat /\ last \in 1..(2 * p[2])
  BY <1>1, LastInstallment
<1>3. p[2] \in Amounts /\ last \in Amounts /\ last \in Int /\ p[2] \in Int
  BY <1>1, <1>2
<1>4. pl = [i \in 1..n |-> [date |-> Every * (i - 1), status |-> "scheduled",
                            amount |-> IF i = n THEN last ELSE p[2]]]
  BY DEF Installments
<1> HIDE DEF last, n
<1>5. \A i \in 1..n: Every * (i - 1) \in Nat
  BY <1>1, <1>2
<1>6. pl \in [1..n -> Installment]
  BY <1>3, <1>4, <1>5 DEF Installment
<1>7. pl \in Seq(Installment) /\ Len(pl) = n
  BY <1>2, <1>6, LenProperties, SeqDef
<1>8. ASSUME NEW i \in 1..Len(pl)
      PROVE  pl[i].status = "scheduled" /\ pl[i].amount = IF i = n THEN last ELSE p[2]
  <2>1. pl[i] = [date |-> Every * (i - 1), status |-> "scheduled",
                 amount |-> IF i = n THEN last ELSE p[2]]
    BY <1>4, <1>7
  <2>2. QED
    BY <2>1
<1>9. ASSUME pl # <<>> PROVE SumFunctionOnSet(Worth(pl), 1..Len(pl)) = p[1]
  <2> DEFINE f == Worth(pl)
             S == 1..n
  <2>1. n # 0
    BY <1>7, <1>9, EmptySeq
  <2>2. IsFiniteSet(S) /\ n \in S /\ S \ {n} = 1..(n - 1)
    <3>1. IsFiniteSet(S)
      BY <1>2, FS_Interval
    <3>2. QED
      BY <1>2, <2>1, <3>1
  <2>3. \A i \in S: f[i] = IF i = n THEN last ELSE p[2]
    BY <1>7, <1>8 DEF Worth
  <2>4. \A i \in S: f[i] \in Int
    BY <1>3, <2>3
  <2> HIDE DEF f, S
  <2>5. SumFunctionOnSet(f, S) = f[n] + SumFunctionOnSet(f, S \ {n})
    BY ONLY <2>2, <2>4, SumTakeOut
  <2>6. IsFiniteSet(S \ {n}) /\ Cardinality(S \ {n}) = n - 1
    <3>1. n - 1 \in Nat /\ 1 \in Int
      BY <1>2, <2>1
    <3>2. IsFiniteSet(1..(n - 1)) /\ Cardinality(1..(n - 1)) = n - 1
      BY <3>1, FS_Interval
    <3>3. QED
      BY <2>2, <3>2
  <2>7. \A i \in S \ {n}: f[i] = p[2]
    BY <2>3
  <2>8. SumFunctionOnSet(f, S \ {n}) = p[2] * (n - 1)
    BY <1>3, <2>6, <2>7, SumConst
  <2>9. f[n] = last
    BY <2>2, <2>3
  <2>10. p[2] * (n - 1) \in Int /\ p[1] \in Int
    BY <1>1, <1>2
  <2>11. QED
    BY <1>7, <2>5, <2>8, <2>9, <2>10 DEF f, S, last
<1>10. QED
  BY <1>2, <1>7, <1>8, <1>9

(* One installment changed, but not in its amount.                         *)
Changed(q, pl, i, y) ==
  /\ q \in Seq(Installment) /\ Len(q) = Len(pl) /\ Worth(q) = Worth(pl)
  /\ Done(q) = IF y.status = "completed" THEN Done(pl) \union {i} ELSE Done(pl) \ {i}
  /\ \A j \in 1..Len(pl): q[j] = IF j = i THEN y ELSE pl[j]

LEMMA OneInstallment ==
  ASSUME NEW pl \in Seq(Installment), NEW i \in 1..Len(pl), NEW y \in Installment,
         y.amount = pl[i].amount
  PROVE  Changed([pl EXCEPT ![i] = y], pl, i, y)
<1> DEFINE q == [pl EXCEPT ![i] = y]
<1>1. /\ q \in Seq(Installment) /\ Len(q) = Len(pl)
      /\ \A j \in 1..Len(pl): q[j] = IF j = i THEN y ELSE pl[j]
  BY ExceptSeq
<1> HIDE DEF q
<1>2. Worth(q) = Worth(pl)
  BY <1>1 DEF Worth
<1>3. Done(q) = IF y.status = "completed" THEN Done(pl) \union {i} ELSE Done(pl) \ {i}
  BY <1>1 DEF Done
<1>4. Changed(q, pl, i, y)
  BY <1>1, <1>2, <1>3 DEF Changed
<1>5. QED
  BY <1>4 DEF q
-------------------------------------------------------------------------------
(* The inductive invariant of the plan: what is due is scheduled; the keys *)
(* of an installment are numbers of transactions there are, and so are     *)
(* the keys that are no caller's; the books are right; and what is done    *)
(* has been charged.                                                       *)
Scheduled(pl) == {i \in 1..Len(pl): pl[i].status = "scheduled"}
PlanFits ==
  /\ EInv
  /\ plan \in Seq(Installment) /\ Len(plan) \in Nat
  /\ due \subseteq Scheduled(plan)
  /\ attempts \in [1..Len(plan) -> SUBSET (1..Len(txns))]
  /\ \A n \in 1..Len(txns): txns[n].key[1] \in Keys \/ txns[n].key[1] \in 1..Len(txns)
  /\ total \in Nat

BooksFit ==
  /\ books \in [active: BOOLEAN, completed: Nat, paid: Nat, left: Int]
  /\ books.paid = SumFunctionOnSet(Worth(plan), Done(plan))
  /\ books.completed = Cardinality(Done(plan))
  /\ books.paid + books.left = total
  /\ plan # <<>> => SumFunctionOnSet(Worth(plan), 1..Len(plan)) = total

ChargedUnder(n, keys, amount) == /\ n \in 1..Len(txns) /\ n \in keys
                                 /\ txns[n].charged /\ txns[n].key = <<n>>
                                 /\ txns[n].amount = amount
DoneIsCharged ==
  \A i \in Done(plan): \E n: ChargedUnder(n, attempts[i], Worth(plan)[i])

(* The engine's steps keep its transactions.                               *)
Grown ==
  /\ Len(txns) \in Nat /\ Len(txns') \in Nat /\ Len(txns) <= Len(txns')
  /\ \A n \in 1..Len(txns):
       /\ txns'[n].key = txns[n].key /\ txns'[n].amount = txns[n].amount
       /\ txns[n].key[1] \notin AuthKeys => txns'[n].charged = txns[n].charged

LEMMA GrownStep ==
  ASSUME EInv, Holds
  PROVE  /\ Grown
         /\ (\A n \in 1..Len(txns): txns[n].key[1] \in Keys \/ txns[n].key[1] \in 1..Len(txns))
              => \A n \in 1..Len(txns'):
                   txns'[n].key[1] \in Keys \/ txns'[n].key[1] \in 1..Len(txns')
<1>1. txns \in Seq(Txn) /\ Len(txns) \in Nat
  BY LenProperties DEF EInv, TypeOK
<1>2. ASSUME NEW ts, Keeps(ts, txns)
      PROVE  /\ Len(ts) = Len(txns)
             /\ \A n \in 1..Len(txns):
                  /\ ts[n].key = txns[n].key /\ ts[n].amount = txns[n].amount
                  /\ txns[n].key[1] \notin AuthKeys => ts[n].charged = txns[n].charged
  <2>1. Len(ts) = Len(txns)
    BY <1>2 DEF Keeps
  <2>2. \A n \in 1..Len(txns): ts[n].key = txns[n].key /\ ts[n].amount = txns[n].amount
    BY <1>2 DEF Keeps, Fingerprint
  <2>3. \A n \in 1..Len(txns):
          txns[n].key[1] \notin AuthKeys => ts[n].charged = txns[n].charged
    BY <1>2 DEF Keeps
  <2>4. QED
    BY <2>1, <2>2, <2>3
<1>3. CASE Keeps(txns', txns)
  BY <1>1, <1>2, <1>3 DEF Grown
<1>4. ASSUME NEW ts \in Seq(Txn), NEW x \in Txn, Adds(ts, x)
      PROVE  /\ Grown
             /\ (\A n \in 1..Len(txns): txns[n].key[1] \in Keys \/ txns[n].key[1] \in 1..Len(txns))
                  => \A n \in 1..Len(txns'):
                       txns'[n].key[1] \in Keys \/ txns'[n].key[1] \in 1..Len(txns')
  <2>1. Keeps(ts, txns) /\ txns' = Append(ts, x)
    BY <1>4 DEF Adds
  <2>2. /\ Len(ts) = Len(txns) /\ Len(txns') = Len(txns) + 1
        /\ \A n \in 1..Len(txns): txns'[n] = ts[n]
        /\ txns'[Len(txns) + 1] = x
    BY <1>2, <2>1, AppendProperties
  <2>3. Grown
    BY <1>1, <1>2, <2>1, <2>2 DEF Grown
  <2>4. ASSUME \A n \in 1..Len(txns): txns[n].key[1] \in Keys \/ txns[n].key[1] \in 1..Len(txns)
        PROVE  \A n \in 1..Len(txns'):
                 txns'[n].key[1] \in Keys \/ txns'[n].key[1] \in 1..Len(txns')
    <3>1. x.key[1] \in Keys \/ x.key[1] \in 1..(Len(txns) + 1)
      <4>1. \/ x.key[1] \in Keys
            \/ x.key = <<Len(txns) + 1>>
            \/ \E n \in 1..Len(txns): x.key[1] = txns[n].key[1]
        BY <1>4 DEF Adds
      <4>2. QED
        BY <1>1, <2>4, <4>1
    <3>2. \A n \in 1..Len(txns): txns'[n].key = txns[n].key
      BY <2>3 DEF Grown
    <3>3. QED
      BY <1>1, <2>2, <2>4, <3>1, <3>2
  <2>5. QED
    BY <2>3, <2>4
<1>5. QED
  <2>1. \/ Keeps(txns', txns)
        \/ \E ts \in Seq(Txn), x \in Txn: Adds(ts, x)
    BY DEF Holds, EngineStep
  <2>2. CASE Keeps(txns', txns)
    <3>1. \A n \in 1..Len(txns): txns'[n].key = txns[n].key
      BY <1>2, <2>2
    <3>2. Len(txns') = Len(txns)
      BY <1>2, <2>2
    <3>3. QED
      BY <1>3, <2>2, <3>1, <3>2
  <2>3. QED
    BY <1>4, <2>1, <2>2

(* What a step of the plan keeps, by the parts of the invariant.           *)
LEMMA FitsStep ==
  ASSUME PlanFits, Holds, plan' \in Seq(Installment), Len(plan') = Len(plan),
         due' \subseteq Scheduled(plan'), total' = total,
         attempts' \in [1..Len(plan) -> SUBSET (1..Len(txns'))]
  PROVE  PlanFits'
<1>1. EInv' /\ \A n \in 1..Len(txns'):
                 txns'[n].key[1] \in Keys \/ txns'[n].key[1] \in 1..Len(txns')
  BY GrownStep DEF PlanFits, Holds
<1>2. QED
  BY <1>1 DEF PlanFits

LEMMA AttemptsStep ==
  ASSUME PlanFits, Holds
  PROVE  attempts \in [1..Len(plan) -> SUBSET (1..Len(txns'))]
<1>1. 1..Len(txns) \subseteq 1..Len(txns')
  BY GrownStep DEF PlanFits, Grown
<1>2. QED
  BY <1>1 DEF PlanFits

LEMMA ChargedStep ==
  ASSUME PlanFits, DoneIsCharged, Holds, Worth(plan') = Worth(plan),
         \A j \in 1..Len(plan): attempts[j] \subseteq attempts'[j],
         \A i \in Done(plan') \ Done(plan): \E n: ChargedUnder(n, attempts[i], Worth(plan)[i])'
  PROVE  DoneIsCharged'
<1>1. Grown
  BY GrownStep DEF PlanFits
<1>2. ASSUME NEW i \in Done(plan)
      PROVE  \E n: ChargedUnder(n, attempts[i], Worth(plan)[i])'
  <2>1. PICK n: ChargedUnder(n, attempts[i], Worth(plan)[i])
    BY DEF DoneIsCharged
  <2>2. n \in 1..Len(txns) /\ txns[n].key = <<n>> /\ n \in 1..Len(txns') /\ n \in Nat
    BY <1>1, <2>1 DEF ChargedUnder, Grown
  <2>3. n \notin AuthKeys /\ <<n>>[1] = n
    BY <2>2, PlanAssumption DEF Keys
  <2>4. /\ txns'[n].key = <<n>> /\ txns'[n].amount = txns[n].amount
        /\ txns'[n].charged = txns[n].charged
    BY <1>1, <2>2, <2>3 DEF Grown
  <2>5. n \in attempts'[i]
    BY <2>1 DEF ChargedUnder, Done
  <2>6. QED
    BY <2>1, <2>2, <2>4, <2>5 DEF ChargedUnder
<1>3. QED
  BY <1>2 DEF DoneIsCharged

PInv == PlanFits /\ BooksFit /\ DoneIsCharged

(* A step that completes nothing.                                          *)
LEMMA QuietStep ==
  ASSUME PInv, Holds, plan' \in Seq(Installment), Len(plan') = Len(plan),
         Worth(plan') = Worth(plan), Done(plan') = Done(plan),
         books' = books, total' = total, due' \subseteq Scheduled(plan'),
         attempts' \in [1..Len(plan) -> SUBSET (1..Len(txns'))],
         \A j \in 1..Len(plan): attempts[j] \subseteq attempts'[j]
  PROVE  PInv'
<1>1. PlanFits'
  BY FitsStep DEF PInv
<1>2. DoneIsCharged'
  BY ChargedStep DEF PInv
<1>3. plan' # <<>> => plan # <<>>
  BY EmptySeq DEF PInv, PlanFits
<1>4. BooksFit'
  BY <1>3 DEF PInv, BooksFit
<1>5. QED
  BY <1>1, <1>2, <1>4 DEF PInv

(* A step that completes the installment i.                                *)
LEMMA CompleteStep ==
  ASSUME PInv, Holds, NEW i \in Scheduled(plan), CompleteInstallment(i),
         total' = total, due' = due \ {i},
         attempts' \in [1..Len(plan) -> SUBSET (1..Len(txns'))],
         \A j \in 1..Len(plan): attempts[j] \subseteq attempts'[j],
         \E n: ChargedUnder(n, attempts[i], Worth(plan)[i])'
  PROVE  PInv'
<1> DEFINE y == [plan[i] EXCEPT !.status = "completed"]
           f == Worth(plan)
           D == Done(plan)
<1>1. /\ plan \in Seq(Installment) /\ Len(plan) \in Nat /\ i \in 1..Len(plan)
      /\ plan[i] \in Installment /\ plan[i].status = "scheduled" /\ total \in Nat
  BY ElementOfSeq DEF PInv, PlanFits, Scheduled
<1>2. y \in Installment /\ y.amount = plan[i].amount /\ y.status = "completed"
  BY <1>1 DEF Installment
<1>3. plan' = [plan EXCEPT ![i] = y]
  BY DEF CompleteInstallment, Marked
<1> HIDE DEF y
<1>4. Changed(plan', plan, i, y)
  BY <1>1, <1>2, <1>3, OneInstallment
<1>5. /\ plan' \in Seq(Installment) /\ Len(plan') = Len(plan) /\ Worth(plan') = f
      /\ Done(plan') = D \union {i}
      /\ \A j \in 1..Len(plan): plan'[j] = IF j = i THEN y ELSE plan[j]
  BY <1>2, <1>4 DEF Changed
<1>6. due' \subseteq Scheduled(plan')
  BY <1>5 DEF PInv, PlanFits, Scheduled
<1>7. PlanFits'
  BY <1>5, <1>6, FitsStep DEF PInv
<1>8. DoneIsCharged'
  <2>1. \A j \in Done(plan') \ Done(plan): j = i
    BY <1>5
  <2>2. QED
    BY <1>5, <2>1, ChargedStep DEF PInv
<1>9. BooksFit'
  <2>1. i \notin D /\ D \subseteq 1..Len(plan)
    BY <1>1 DEF Done
  <2>2. IsFiniteSet(D) /\ Cardinality(D) \in Nat
    <3>1. IsFiniteSet(1..Len(plan))
      BY <1>1, FS_Interval
    <3>2. QED
      BY <2>1, <3>1, FS_Subset, FS_CardinalityType
  <2>3. \A j \in 1..Len(plan): f[j] = plan[j].amount /\ f[j] \in Nat
    <3>1. \A j \in 1..Len(plan): plan[j] \in Installment
      BY <1>1, ElementOfSeq
    <3>2. QED
      BY <3>1, EngineAssumption DEF Worth, Installment
  <2> HIDE DEF f, D
  <2>4. IsFiniteSet(D \union {i}) /\ Cardinality(D \union {i}) = Cardinality(D) + 1
    BY <2>1, <2>2, FS_AddElement
  <2>5. SumFunctionOnSet(f, D \union {i}) = f[i] + SumFunctionOnSet(f, D)
        /\ SumFunctionOnSet(f, D) \in Nat
    <3> DEFINE T == D \union {i}
    <3>1. i \in T /\ T \ {i} = D
      BY <2>1
    <3>2. \A j \in T: f[j] \in Int
      BY <1>1, <2>1, <2>3
    <3>3. \A j \in D: f[j] \in Nat
      BY <2>1, <2>3
    <3>4. IsFiniteSet(T)
      BY <2>4
    <3> HIDE DEF T
    <3>5. SumFunctionOnSet(f, T) = f[i] + SumFunctionOnSet(f, T \ {i})
      BY ONLY <3>1, <3>2, <3>4, SumTakeOut
    <3>6. SumFunctionOnSet(f, D) \in Nat
      BY <2>2, <3>3, SumIsNat
    <3>7. QED
      BY <3>1, <3>5, <3>6 DEF T
  <2>6. /\ books' = [active |-> books'.active, completed |-> books.completed + 1,
                     paid |-> books.paid + f[i], left |-> books.left - f[i]]
        /\ books'.active \in BOOLEAN
    BY <1>1, <2>3 DEF CompleteInstallment
  <2>7. /\ books.completed = Cardinality(D) /\ books.paid = SumFunctionOnSet(f, D)
        /\ books.left \in Int /\ books.paid + books.left = total
        /\ f[i] \in Nat
    BY <1>1, <2>3 DEF PInv, BooksFit, f, D
  <2>8. plan' # <<>> => SumFunctionOnSet(Worth(plan'), 1..Len(plan')) = total'
    <3>1. plan # <<>>
      BY <1>1, EmptySeq
    <3>2. QED
      BY <1>5, <3>1 DEF PInv, BooksFit, f
  <2>9. /\ books'.paid = SumFunctionOnSet(Worth(plan'), Done(plan'))
        /\ books'.completed = Cardinality(Done(plan'))
        /\ books'.paid + books'.left = total'
    <3>1. /\ books'.completed = books.completed + 1
          /\ books'.paid = books.paid + f[i] /\ books'.left = books.left - f[i]
      BY <2>6
    <3>2. QED
      BY <1>1, <1>5, <2>4, <2>5, <2>7, <3>1
  <2>10. books' \in [active: BOOLEAN, completed: Nat, paid: Nat, left: Int]
    BY <2>2, <2>5, <2>6, <2>7
  <2>11. QED
    BY <2>8, <2>9, <2>10 DEF BooksFit
<1>10. QED
  BY <1>7, <1>8, <1>9 DEF PInv
-------------------------------------------------------------------------------
(* The transactions under the keys A of one installment: they have its     *)
(* fingerprint, which a charge has left, and no two are charged.           *)
OnceFor(ts, p, A, print) ==
  \A n \in 1..Len(ts): ts[n].key[1] \in A =>
    /\ Fingerprint(ts[n]) = print
    /\ ts[n].charged => print \in p
    /\ \A m \in 1..Len(ts): ts[m].key[1] \in A /\ m # n => ~(ts[m].charged /\ ts[n].charged)

PrintOf(pl, i) == <<Worth(pl)[i], PlanMethod>>
OnceEach ==
  \A i \in 1..Len(plan): OnceFor(txns, prints, attempts[i], PrintOf(plan, i))

LEMMA OnceKept ==
  ASSUME NEW ts, NEW us, Keeps(us, ts), NEW p, NEW A \in SUBSET Nat, NEW print,
         OnceFor(ts, p, A, print)
  PROVE  OnceFor(us, p, A, print)
<1>1. ASSUME NEW n \in 1..Len(us), us[n].key[1] \in A
      PROVE  /\ ts[n].key[1] \in A /\ ts[n].charged = us[n].charged
             /\ Fingerprint(us[n]) = Fingerprint(ts[n])
  <2>1. n \in 1..Len(ts) /\ us[n].key = ts[n].key /\ Fingerprint(us[n]) = Fingerprint(ts[n])
    BY DEF Keeps
  <2>2. ts[n].key[1] \in Nat /\ ts[n].key[1] \notin AuthKeys
    BY <1>1, <2>1, PlanAssumption DEF Keys
  <2>3. ts[n].charged = us[n].charged
    BY <2>1, <2>2 DEF Keeps
  <2>4. QED
    BY <1>1, <2>1, <2>3
<1>2. Len(us) = Len(ts)
  BY DEF Keeps
<1>3. QED
  BY <1>1, <1>2 DEF OnceFor

LEMMA OnceAppended ==
  ASSUME NEW ts \in Seq(Txn), NEW x \in Txn, NEW p, NEW q, p \subseteq q, NEW A, NEW B,
         NEW print, OnceFor(ts, p, A, print),
         \A n \in 1..Len(ts): ts[n].key[1] \in B => ts[n].key[1] \in A,
         x.key[1] \in B =>
           /\ Fingerprint(x) = print
           /\ x.charged => Fingerprint(x) \notin p /\ Fingerprint(x) \in q
  PROVE  OnceFor(Append(ts, x), q, B, print)
<1> DEFINE us == Append(ts, x)
<1>1. /\ Len(ts) \in Nat /\ Len(us) = Len(ts) + 1
      /\ \A n \in 1..Len(ts): us[n] = ts[n]
      /\ us[Len(ts) + 1] = x
  BY AppendProperties, LenProperties
<1> HIDE DEF us
<1>2. ASSUME NEW n \in 1..Len(us), us[n].key[1] \in B
      PROVE  /\ Fingerprint(us[n]) = print
             /\ us[n].charged => print \in q
  <2>1. CASE n \in 1..Len(ts)
    BY <1>1, <1>2, <2>1 DEF OnceFor
  <2>2. CASE n = Len(ts) + 1
    BY <1>1, <1>2, <2>2
  <2>3. QED
    BY <1>1, <2>1, <2>2
<1>3. ASSUME NEW n \in 1..Len(us), us[n].key[1] \in B,
             NEW m \in 1..Len(us), us[m].key[1] \in B, m # n
      PROVE  ~(us[m].charged /\ us[n].charged)
  <2>1. CASE n \in 1..Len(ts) /\ m \in 1..Len(ts)
    BY <1>1, <1>3, <2>1 DEF OnceFor
  <2>2. CASE n = Len(ts) + 1 /\ m \in 1..Len(ts)
    BY <1>1, <1>3, <2>2 DEF OnceFor
  <2>3. CASE n \in 1..Len(ts) /\ m = Len(ts) + 1
    BY <1>1, <1>3, <2>3 DEF OnceFor
  <2>4. QED
    BY <1>1, <1>3, <2>1, <2>2, <2>3
<1>4. OnceFor(us, q, B, print)
  BY <1>2, <1>3 DEF OnceFor
<1>5. QED
  BY <1>4 DEF us

(* The engine's own steps do not charge an installment again: a retry has  *)
(* the fingerprint of what it retries.                                     *)
LEMMA OnceOfEngine ==
  ASSUME PlanFits, Holds, FewTxns, Books(txns, cache, prints),
         NEW A \in SUBSET (1..Len(txns)), NEW print, OnceFor(txns, prints, A, print)
  PROVE  OnceFor(txns', prints', A, print)
<1>1. txns \in Seq(Txn) /\ Len(txns) \in Nat /\ A \in SUBSET Nat
  BY LenProperties DEF PlanFits, EInv, TypeOK
<1>2. CASE Keeps(txns', txns) /\ prints' = prints
  BY <1>1, <1>2, OnceKept
<1>3. ASSUME NEW ts \in Seq(Txn), NEW x \in Txn, Adds(ts, x)
      PROVE  OnceFor(txns', prints', A, print)
  <2>1. /\ Keeps(ts, txns) /\ txns' = Append(ts, x)
        /\ prints \subseteq prints'
        /\ x.charged => Fingerprint(x) \notin prints /\ Fingerprint(x) \in prints'
    BY <1>3 DEF Adds
  <2>2. OnceFor(ts, prints, A, print)
    BY <1>1, <2>1, OnceKept
  <2>3. x.key[1] \in A => Fingerprint(x) = print
    <3>1. \/ x.key[1] \in Keys
          \/ x.key = <<Len(txns) + 1>>
          \/ \E n \in 1..Len(txns): /\ x.key[1] = txns[n].key[1]
                                    /\ Fingerprint(x) = Fingerprint(txns[n])
      BY <1>3 DEF Adds
    <3>2. x.key[1] \in Keys => x.key[1] \notin A
      BY <1>1, PlanAssumption
    <3>3. x.key = <<Len(txns) + 1>> => x.key[1] \notin A
      BY <1>1
    <3>4. ASSUME NEW n \in 1..Len(txns), x.key[1] = txns[n].key[1],
                 Fingerprint(x) = Fingerprint(txns[n])
          PROVE  x.key[1] \in A => Fingerprint(x) = print
      BY <3>4 DEF OnceFor
    <3>5. QED
      BY <3>1, <3>2, <3>3, <3>4
  <2>4. OnceFor(Append(ts, x), prints', A, print)
    BY <2>1, <2>2, <2>3, OnceAppended
  <2>5. QED
    BY <2>1, <2>4
<1>4. QED
  BY <1>2, <1>3 DEF Holds, EngineStep

LEMMA OnceQuiet ==
  ASSUME PlanFits, Holds, FewTxns, Books(txns, cache, prints), OnceEach,
         Len(plan') = Len(plan), Worth(plan') = Worth(plan), attempts' = attempts
  PROVE  OnceEach'
<1>1. ASSUME NEW i \in 1..Len(plan)
      PROVE  OnceFor(txns', prints', attempts[i], PrintOf(plan, i))
  <2>1. attempts[i] \in SUBSET (1..Len(txns))
    BY DEF PlanFits
  <2>2. OnceFor(txns, prints, attempts[i], PrintOf(plan, i))
    BY DEF OnceEach
  <2>3. QED
    BY <2>1, <2>2, OnceOfEngine
<1>2. \A i: PrintOf(plan', i) = PrintOf(plan, i)
  BY DEF PrintOf
<1>3. QED
  BY <1>1, <1>2 DEF OnceEach

(* A new key of the installment i: a new transaction, with its fingerprint. *)
LEMMA OncePaid ==
  ASSUME PlanFits, Holds, FewTxns, Books(txns, cache, prints), OnceEach,
         Len(plan') = Len(plan), Worth(plan') = Worth(plan), NEW i \in 1..Len(plan),
         attempts' = [attempts EXCEPT ![i] = @ \union {Len(txns) + 1}],
         NEW x, Adds(txns, x), x \in Txn, Fingerprint(x) = PrintOf(plan, i)
  PROVE  OnceEach'
<1>1. txns \in Seq(Txn) /\ Len(txns) \in Nat
  BY LenProperties DEF PlanFits, EInv, TypeOK
<1>2. ASSUME NEW j \in 1..Len(plan)
      PROVE  OnceFor(txns', prints', attempts'[j], PrintOf(plan, j))
  <2>1. attempts[j] \in SUBSET (1..Len(txns)) /\ attempts \in [1..Len(plan) -> SUBSET (1..Len(txns))]
    BY DEF PlanFits
  <2>2. OnceFor(txns, prints, attempts[j], PrintOf(plan, j))
    BY DEF OnceEach
  <2>3. CASE j = i
    <3>1. attempts'[j] = attempts[j] \union {Len(txns) + 1}
      BY <2>1, <2>3
    <3>2. \A n \in 1..Len(txns): txns[n].key[1] # Len(txns) + 1
      <4>1. \A n \in 1..Len(txns): txns[n].key[1] \in Keys \/ txns[n].key[1] \in 1..Len(txns)
        BY DEF PlanFits
      <4>2. Len(txns) + 1 \notin Keys /\ Len(txns) + 1 \notin 1..Len(txns)
        BY <1>1, PlanAssumption
      <4>3. QED
        BY <4>1, <4>2
    <3>3. /\ txns' = Append(txns, x) /\ prints \subseteq prints'
          /\ x.charged => Fingerprint(x) \notin prints /\ Fingerprint(x) \in prints'
      BY DEF Adds
    <3>4. \A n \in 1..Len(txns): txns[n].key[1] \in attempts'[j] => txns[n].key[1] \in attempts[j]
      BY <3>1, <3>2
    <3>5. OnceFor(Append(txns, x), prints', attempts'[j], PrintOf(plan, j))
      BY <1>1, <2>2, <2>3, <3>3, <3>4, OnceAppended
    <3>6. QED
      BY <3>3, <3>5
  <2>4. CASE j # i
    <3>1. attempts'[j] = attempts[j]
      BY <2>1, <2>4
    <3>2. OnceFor(txns', prints', attempts[j], PrintOf(plan, j))
      BY <2>1, <2>2, OnceOfEngine
    <3>3. QED
      BY <3>1, <3>2
  <2>5. QED
    BY <2>3, <2>4
<1>3. \A j: PrintOf(plan', j) = PrintOf(plan, j)
  BY DEF PrintOf
<1>4. QED
  BY <1>2, <1>3 DEF OnceEach
-------------------------------------------------------------------------------
(* The steps of the plan.                                                  *)
PHolds == /\ PInv'
          /\ FewTxns /\ Books(txns, cache, prints) /\ OnceEach => OnceEach'

LEMMA SamePlan ==
  ASSUME PInv, Holds, plan' = plan, books' = books, total' = total,
         attempts' = attempts, due' \subseteq Scheduled(plan)
  PROVE  PHolds
<1>1. attempts' \in [1..Len(plan) -> SUBSET (1..Len(txns'))]
  BY AttemptsStep DEF PInv
<1>2. plan' \in Seq(Installment)
  BY DEF PInv, PlanFits
<1>3. PInv'
  BY <1>1, <1>2, QuietStep
<1>4. FewTxns /\ Books(txns, cache, prints) /\ OnceEach => OnceEach'
  BY OnceQuiet DEF PInv
<1>5. QED
  BY <1>3, <1>4 DEF PHolds

(* An installment gets a date or a status, but is not completed.           *)
LEMMA RemarkedPlan ==
  ASSUME PInv, Holds, NEW i \in 1..Len(plan), NEW y \in Installment,
         y.amount = plan[i].amount, plan' = [plan EXCEPT ![i] = y],
         y.status = "completed" <=> plan[i].status = "completed",
         books' = books, total' = total,
         due' \subseteq due, i \in due' => y.status = "scheduled",
         attempts' \in [1..Len(plan) -> SUBSET (1..Len(txns'))],
         \A j \in 1..Len(plan): attempts[j] \subseteq attempts'[j]
  PROVE  PInv' /\ Len(plan') = Len(plan) /\ Worth(plan') = Worth(plan)
<1>1. plan \in Seq(Installment)
  BY DEF PInv, PlanFits
<1>2. Changed(plan', plan, i, y)
  BY <1>1, OneInstallment
<1>3. /\ plan' \in Seq(Installment) /\ Len(plan') = Len(plan) /\ Worth(plan') = Worth(plan)
      /\ \A j \in 1..Len(plan): plan'[j] = IF j = i THEN y ELSE plan[j]
  BY <1>2 DEF Changed
<1>4. Done(plan') = Done(plan)
  <2>1. i \in Done(plan) <=> y.status = "completed"
    BY DEF Done
  <2>2. QED
    BY <1>2, <2>1 DEF Changed
<1>5. due' \subseteq Scheduled(plan')
  <2>1. due \subseteq Scheduled(plan)
    BY DEF PInv, PlanFits
  <2>2. QED
    BY <1>3, <2>1 DEF Scheduled
<1>6. PInv'
  BY <1>3, <1>4, <1>5, QuietStep
<1>7. QED
  BY <1>3, <1>6

LEMMA DueIsScheduled ==
  ASSUME PInv, due # {}
  PROVE  /\ Min(due) \in due /\ Min(due) \in 1..Len(plan)
         /\ plan[Min(due)] \in Installment /\ plan[Min(due)].status = "scheduled"
         /\ Worth(plan)[Min(due)] = plan[Min(due)].amount
<1>1. plan \in Seq(Installment) /\ Len(plan) \in Nat /\ due \subseteq Scheduled(plan)
  BY DEF PInv, PlanFits
<1>2. due \subseteq 1..Len(plan) /\ \A j \in due: plan[j].status = "scheduled" /\ j \in Int
  BY <1>1 DEF Scheduled
<1>3. IsFiniteSet(1..Len(plan))
  BY <1>1, FS_Interval
<1>4. IsFiniteSet(due)
  BY <1>2, <1>3, FS_Subset
<1>5. Min(due) \in due
  BY <1>2, <1>4, MinIsIn
<1>6. Min(due) \in 1..Len(plan)
  BY <1>2, <1>5
<1>7. plan[Min(due)] \in Installment
  BY <1>1, <1>6, ElementOfSeq
<1>8. QED
  BY <1>2, <1>5, <1>6, <1>7 DEF Worth

(* An installment is paid: its transaction, and what becomes of it.        *)
LEMMA PayStep ==
  ASSUME PInv, NEW outcome \in Outcome, PayInstallment(outcome)
  PROVE  Holds /\ PHolds
<1>0. PICK i: i = Min(due)
  OBVIOUS
<1> DEFINE key == <<Len(txns) + 1>>
           x == Attempt(key, PlanMethod, plan[i].amount, outcome)
           failed == [plan[i] EXCEPT !.status = "failed"]
<1>1. due # {} /\ due' = due \ {i} /\ total' = total
  BY <1>0 DEF PayInstallment
<1>2. /\ i \in due /\ i \in 1..Len(plan) /\ plan[i] \in Installment
      /\ plan[i].status = "scheduled" /\ i \in Scheduled(plan)
      /\ Worth(plan)[i] = plan[i].amount
  BY <1>0, <1>1, DueIsScheduled DEF Scheduled
<1>3. /\ failed \in Installment /\ failed.amount = plan[i].amount /\ failed.status = "failed"
      /\ plan[i].amount \in Amounts
  BY <1>2 DEF Installment
<1>4. EInv /\ PlanFits /\ txns \in Seq(Txn) /\ Len(txns) \in Nat
      /\ attempts \in [1..Len(plan) -> SUBSET (1..Len(txns))]
  BY LenProperties DEF PInv, PlanFits, EInv, TypeOK
<1>5. CASE ~onFile
  <2>1. /\ FailInstallment(i) /\ attempts' = attempts /\ UNCHANGED vars
    BY <1>0, <1>5 DEF PayInstallment
  <2>2. Holds
    BY <1>4, <2>1, NextHolds
  <2>3. plan' = [plan EXCEPT ![i] = failed] /\ books' = books
    BY <2>1 DEF FailInstallment, Marked
  <2>4. attempts' \in [1..Len(plan) -> SUBSET (1..Len(txns'))]
    BY <1>4, <2>1, <2>2, AttemptsStep
  <2>5. due' \subseteq due /\ i \notin due'
    BY <1>1
  <2> HIDE DEF failed
  <2>6. PInv' /\ Len(plan') = Len(plan) /\ Worth(plan') = Worth(plan)
    BY <1>1, <1>2, <1>3, <2>1, <2>2, <2>3, <2>4, <2>5, RemarkedPlan
  <2>7. FewTxns /\ Books(txns, cache, prints) /\ OnceEach => OnceEach'
    BY <1>4, <2>1, <2>2, <2>6, OnceQuiet
  <2>8. QED
    BY <2>2, <2>6, <2>7 DEF PHolds
<1>6. CASE onFile
  <2>1. /\ Process(txns, key, PlanMethod, plan[i].amount, outcome)
        /\ attempts' = [attempts EXCEPT ![i] = @ \union {key[1]}]
        /\ IF Succeeded(x) THEN CompleteInstallment(i) ELSE FailInstallment(i)
    BY <1>0, <1>6 DEF PayInstallment
  <2>2. /\ key \in Seq(Keys \union Nat) /\ key # <<>> /\ key[1] = Len(txns) + 1
        /\ key[1] \notin PayKeys /\ PlanMethod \in Methods
    BY <1>4, PlanAssumption DEF Keys
  <2>3. Sounds(txns) /\ Keeps(txns, txns)
    BY <1>4 DEF EInv, Keeps
  <2>4. Holds /\ Adds(txns, x) /\ Controlled(x, key, PlanMethod, plan[i].amount)
    BY <1>3, <1>4, <2>1, <2>2, <2>3, ProcessStep
  <2>5. /\ x \in Txn /\ x.key = key /\ Fingerprint(x) = <<plan[i].amount, PlanMethod>>
        /\ x.amount = plan[i].amount /\ Sound(x)
    BY <2>4 DEF Controlled, Fingerprint
  <2> HIDE DEF x, failed
  <2>6. Len(txns') = Len(txns) + 1 /\ txns'[Len(txns) + 1] = x
    BY <1>4, <2>4, <2>5, AppendProperties DEF Adds
  <2>7. attempts' = [attempts EXCEPT ![i] = @ \union {Len(txns) + 1}]
    BY <2>1, <2>2
  <2>8. /\ attempts' \in [1..Len(plan) -> SUBSET (1..Len(txns'))]
        /\ \A j \in 1..Len(plan): attempts[j] \subseteq attempts'[j]
        /\ Len(txns) + 1 \in attempts'[i]
    <3>1. 1..Len(txns) \subseteq 1..Len(txns') /\ Len(txns) + 1 \in 1..Len(txns')
      BY <1>4, <2>6
    <3>2. QED
      BY <1>2, <1>4, <2>7, <3>1
  <2>9. CASE Succeeded(x)
    <3>1. CompleteInstallment(i)
      BY <2>1, <2>9
    <3>2. x.charged
      BY <2>5, <2>9 DEF Succeeded, Sound
    <3>3. \E n: ChargedUnder(n, attempts[i], Worth(plan)[i])'
      <4>0. PICK n: n = Len(txns) + 1
        OBVIOUS
      <4>1. Worth(plan')[i] = plan[i].amount
        <5>1. plan' = [plan EXCEPT ![i] = [plan[i] EXCEPT !.status = "completed"]]
          BY <3>1 DEF CompleteInstallment, Marked
        <5>2. [plan[i] EXCEPT !.status = "completed"] \in Installment
              /\ [plan[i] EXCEPT !.status = "completed"].amount = plan[i].amount
          BY <1>2 DEF Installment
        <5>3. Changed(plan', plan, i, [plan[i] EXCEPT !.status = "completed"])
          BY <1>2, <5>1, <5>2, OneInstallment DEF PInv, PlanFits
        <5>4. QED
          BY <1>2, <5>3 DEF Changed
      <4>2. /\ n \in 1..Len(txns') /\ n \in attempts'[i]
            /\ txns'[n].charged /\ txns'[n].key = <<n>> /\ txns'[n].amount = plan[i].amount
        BY <1>4, <2>5, <2>6, <2>8, <3>2, <4>0
      <4>3. QED
        BY <4>1, <4>2 DEF ChargedUnder
    <3>4. PInv'
      BY <1>1, <1>2, <2>4, <2>8, <3>1, <3>3, CompleteStep
    <3>5. Len(plan') = Len(plan) /\ Worth(plan') = Worth(plan)
      <4>1. plan' = [plan EXCEPT ![i] = [plan[i] EXCEPT !.status = "completed"]]
        BY <3>1 DEF CompleteInstallment, Marked
      <4>2. [plan[i] EXCEPT !.status = "completed"] \in Installment
            /\ [plan[i] EXCEPT !.status = "completed"].amount = plan[i].amount
        BY <1>2 DEF Installment
      <4>3. Changed(plan', plan, i, [plan[i] EXCEPT !.status = "completed"])
        BY <1>2, <4>1, <4>2, OneInstallment DEF PInv, PlanFits
      <4>4. QED
        BY <4>3 DEF Changed
    <3>6. FewTxns /\ Books(txns, cache, prints) /\ OnceEach => OnceEach'
      BY <1>2, <1>4, <2>4, <2>5, <2>7, <3>5, OncePaid DEF PrintOf
    <3>7. QED
      BY <2>4, <3>4, <3>6 DEF PHolds
  <2>10. CASE ~Succeeded(x)
    <3>1. plan' = [plan EXCEPT ![i] = failed] /\ books' = books
      BY <2>1, <2>10 DEF FailInstallment, Marked, failed
    <3>2. due' \subseteq due /\ i \notin due'
      BY <1>1
    <3>3. PInv' /\ Len(plan') = Len(plan) /\ Worth(plan') = Worth(plan)
      BY <1>1, <1>2, <1>3, <2>4, <2>8, <3>1, <3>2, RemarkedPlan
    <3>4. FewTxns /\ Books(txns, cache, prints) /\ OnceEach => OnceEach'
      BY <1>2, <1>4, <2>4, <2>5, <2>7, <3>3, OncePaid DEF PrintOf
    <3>5. QED
      BY <2>4, <3>3, <3>4 DEF PHolds
  <2>11. QED
    BY <2>9, <2>10
<1>7. QED
  BY <1>5, <1>6

LEMMA RescheduleStep ==
  ASSUME PInv, NEW i \in DOMAIN plan, NEW day \in Today..(MaxHour \div DayLength),
         ReschedulePayment(i, day)
  PROVE  Holds /\ PHolds
<1> DEFINE y == Rescheduled(plan[i], day)
<1>1. /\ EInv /\ PlanFits /\ plan \in Seq(Installment)
      /\ plan[i] \in Installment /\ i \in 1..Len(plan)
  BY ElementOfSeq, LenProperties DEF PInv, PlanFits
<1>2. /\ due = {} /\ plan' = [plan EXCEPT ![i] = y] /\ UNCHANGED vars
      /\ books' = books /\ total' = total /\ due' = due /\ attempts' = attempts
  BY DEF ReschedulePayment
<1>3. day \in Nat
  <2>1. hour \in Nat /\ DayLength \in Nat \ {0} /\ MaxHour \in Nat
    BY <1>1, EngineAssumption, PlanAssumption DEF EInv, TypeOK
  <2>2. hour \div DayLength \in Nat
    BY <2>1
  <2>3. QED
    BY <2>1, <2>2 DEF Today
<1>4. /\ y \in Installment /\ y.amount = plan[i].amount
      /\ y.status = "completed" <=> plan[i].status = "completed"
  BY <1>1, <1>3 DEF Rescheduled, Installment
<1>5. Holds
  BY <1>1, <1>2, NextHolds
<1>6. attempts' \in [1..Len(plan) -> SUBSET (1..Len(txns'))]
  BY <1>1, <1>2, <1>5, AttemptsStep
<1> HIDE DEF y
<1>7. PInv' /\ Len(plan') = Len(plan) /\ Worth(plan') = Worth(plan)
  BY <1>1, <1>2, <1>4, <1>5, <1>6, RemarkedPlan
<1>8. FewTxns /\ Books(txns, cache, prints) /\ OnceEach => OnceEach'
  BY <1>1, <1>2, <1>5, <1>7, OnceQuiet
<1>9. QED
  BY <1>5, <1>7, <1>8 DEF PHolds

LEMMA PlanNextHolds == PInv /\ [PlanNext]_allVars => Holds /\ PHolds
<1> SUFFICES ASSUME PInv, [PlanNext]_allVars PROVE Holds /\ PHolds
  OBVIOUS
<1>0. EInv /\ due \subseteq Scheduled(plan) /\ {} \subseteq Scheduled(plan)
  BY DEF PInv, PlanFits
<1>1. CASE due = {} /\ Next /\ UNCHANGED planVars
  BY <1>0, <1>1, NextHolds, SamePlan DEF planVars
<1>2. CASE LinkPaymentMethod
  BY <1>0, <1>2, NextHolds, SamePlan DEF LinkPaymentMethod
<1>3. CASE StartJob
  <2>1. DueOn(Today) \subseteq Scheduled(plan)
    BY LenProperties DEF PInv, PlanFits, DueOn, Scheduled
  <2>2. QED
    BY <1>0, <1>3, <2>1, NextHolds, SamePlan DEF StartJob
<1>4. CASE UNCHANGED allVars
  BY <1>0, <1>4, NextHolds, SamePlan DEF allVars, planVars
<1>5. QED
  BY <1>1, <1>2, <1>3, <1>4, PayStep, RescheduleStep DEF PlanNext

LEMMA PlanInitHolds ==
  PlanInit => PInv /\ OnceEach /\ KInv
<1> SUFFICES ASSUME PlanInit PROVE PInv /\ OnceEach /\ KInv
  OBVIOUS
<1>1. /\ Init /\ KInv /\ EInv /\ txns = <<>> /\ Len(txns) = 0
      /\ due = {} /\ attempts = [i \in DOMAIN plan |-> {}]
      /\ books = [active |-> TRUE, completed |-> 0, paid |-> 0, left |-> total]
  BY InitKInv, EmptySeq DEF PlanInit, KInv, Init
<1>2. PICK p \in Plans: total = p[1] /\ plan = Installments(p[1], p[2])
  BY DEF PlanInit
<1>3. /\ plan \in Seq(Installment) /\ Len(plan) \in Nat
      /\ \A i \in 1..Len(plan): plan[i].status = "scheduled"
      /\ plan # <<>> => SumFunctionOnSet(Worth(plan), 1..Len(plan)) = total
      /\ total \in Nat
  BY <1>2, InstallmentsFit, PlanAssumption
<1>4. DOMAIN plan = 1..Len(plan)
  BY <1>3, LenProperties
<1>5. Done(plan) = {}
  BY <1>3 DEF Done
<1>6. PlanFits
  BY <1>1, <1>3, <1>4 DEF PlanFits
<1>7. BooksFit
  <2>1. Cardinality({}) = 0 /\ SumFunctionOnSet(Worth(plan), {}) = 0
    BY FS_EmptySet, SumOfNone
  <2>2. QED
    BY <1>1, <1>3, <1>5, <2>1 DEF BooksFit
<1>8. DoneIsCharged
  BY <1>5 DEF DoneIsCharged
<1>9. OnceEach
  BY <1>1 DEF OnceEach, OnceFor
<1>10. QED
  BY <1>1, <1>6, <1>7, <1>8, <1>9 DEF PInv

(* What the invariant says.                                                *)
LEMMA PInvImplies == PInv => PlanTypeOK /\ PlanBooks /\ CompletedIsCharged
<1> SUFFICES ASSUME PInv PROVE PlanTypeOK /\ PlanBooks /\ CompletedIsCharged
  OBVIOUS
<1>1. /\ EInv /\ plan \in Seq(Installment) /\ Len(plan) \in Nat /\ DOMAIN plan = 1..Len(plan)
      /\ total \in Nat
  BY LenProperties DEF PInv, PlanFits
<1>2. [i \in DOMAIN plan |-> plan[i].amount] = Worth(plan)
      /\ {i \in DOMAIN plan: plan[i].status = "completed"} = Done(plan)
  BY <1>1 DEF Worth, Done
<1>3. PlanBooks
  BY <1>1, <1>2 DEF PInv, BooksFit, PlanBooks, AmountIn
<1>4. books.left \in Nat
  <2>1. \A i \in 1..Len(plan): Worth(plan)[i] \in Nat
    <3>1. \A i \in 1..Len(plan): plan[i] \in Installment
      BY <1>1, ElementOfSeq
    <3>2. QED
      BY <3>1, EngineAssumption DEF Worth, Installment
  <2>2. IsFiniteSet(1..Len(plan)) /\ Done(plan) \subseteq 1..Len(plan)
    BY <1>1, FS_Interval DEF Done
  <2>3. SumFunctionOnSet(Worth(plan), Done(plan)) <= SumFunctionOnSet(Worth(plan), 1..Len(plan))
    BY <2>1, <2>2, SumOfPart
  <2>4. plan = <<>> => SumFunctionOnSet(Worth(plan), Done(plan)) = 0
    <3>1. plan = <<>> => Done(plan) = {}
      BY EmptySeq DEF Done
    <3>2. QED
      BY <3>1, SumOfNone
  <2>5. books.left \in Int /\ books.paid \in Nat
    BY DEF PInv, BooksFit
  <2>6. QED
    BY <1>1, <2>3, <2>4, <2>5 DEF PInv, BooksFit
<1>5. PlanTypeOK
  <2>1. books \in [active: BOOLEAN, completed: Nat, paid: Nat, left: Nat]
    BY <1>4 DEF PInv, BooksFit
  <2>2. due \subseteq DOMAIN plan /\ attempts \in [DOMAIN plan -> SUBSET Nat]
    BY <1>1 DEF PInv, PlanFits, Scheduled
  <2>3. QED
    BY <1>1, <2>1, <2>2 DEF PlanTypeOK, EInv
<1>6. CompletedIsCharged
  <2>1. DOMAIN txns = 1..Len(txns)
    BY <1>1, LenProperties DEF EInv, TypeOK
  <2>2. ASSUME NEW i \in DOMAIN plan, plan[i].status = "completed"
        PROVE  \E n \in DOMAIN txns: /\ txns[n].charged /\ txns[n].key = <<n>>
                                     /\ n \in attempts[i] /\ txns[n].amount = plan[i].amount
    <3>1. i \in Done(plan) /\ Worth(plan)[i] = plan[i].amount
      BY <1>1, <2>2 DEF Done, Worth
    <3>2. PICK n: ChargedUnder(n, attempts[i], Worth(plan)[i])
      BY <3>1 DEF PInv, DoneIsCharged
    <3>3. QED
      BY <2>1, <3>1, <3>2 DEF ChargedUnder
  <2>3. QED
    BY <2>2 DEF CompletedIsCharged
<1>7. QED
  BY <1>3, <1>5, <1>6

(* Every state of a plan is well typed: nothing is left owing below zero.  *)
THEOREM PlanTypeCorrect == PlanSpec => []PlanTypeOK
<1>1. PInv /\ [PlanNext]_allVars => PInv'
  BY PlanNextHolds DEF PHolds
<1>2. QED
  BY PlanInitHolds, <1>1, PInvImplies, PTL DEF PlanSpec

(* However installments fail and are rescheduled, the books of the plan    *)
(* count each completed one once, and what is paid and left is the total.  *)
THEOREM PlanBooksBalance == PlanSpec => []PlanBooks
<1>1. PInv /\ [PlanNext]_allVars => PInv'
  BY PlanNextHolds DEF PHolds
<1>2. QED
  BY PlanInitHolds, <1>1, PInvImplies, PTL DEF PlanSpec

(* An installment is completed only if the engine took its money.          *)
THEOREM CompletedWasCharged == PlanSpec => []CompletedIsCharged
<1>1. PInv /\ [PlanNext]_allVars => PInv'
  BY PlanNextHolds DEF PHolds
<1>2. QED
  BY PlanInitHolds, <1>1, PInvImplies, PTL DEF PlanSpec

(* The engine's promises hold for an account whose plan is paid through it *)
(* as they do for one without: none of the job's payments escapes the      *)
(* controls.                                                               *)
THEOREM PlanKeepsControls == PlanSpec => [](VelocityLimited /\ RefundsWithinPayment)
<1> DEFINE V == PInv /\ VelocityLimited
<1>1. PlanInit => V
  <2>1. PlanInit => PInv /\ Init
    BY PlanInitHolds DEF PlanInit
  <2>2. Init => VelocityLimited
    BY VelocityInit
  <2>3. QED
    BY <2>1, <2>2
<1>2. V /\ [PlanNext]_allVars => V'
  BY PlanNextHolds, VelocityStep DEF PHolds, PInv, PlanFits
<1>3. V => VelocityLimited /\ RefundsWithinPayment
  BY TxnAt DEF PInv, PlanFits, RefundsWithinPayment, Sound
<1>4. QED
  BY <1>1, <1>2, <1>3, PTL DEF PlanSpec

(* For an account with no more transactions than fingerprints are kept of, *)
(* the debtor pays an installment at most once, although it fails when an  *)
(* answer is lost, is rescheduled, and its transactions are retried.       *)
THEOREM InstallmentsChargedOnce ==
  ASSUME FewTxns
  PROVE  PlanSpec => []InstallmentChargedOnce
<1> DEFINE O == PInv /\ OnceEach /\ Books(txns, cache, prints)
<1>1. PlanInit => O
  BY PlanInitHolds DEF KInv
<1>2. O /\ [PlanNext]_allVars => O'
  BY PlanNextHolds DEF PHolds, Holds
<1>3. O => InstallmentChargedOnce
  <2> SUFFICES ASSUME O, NEW i \in DOMAIN plan
               PROVE  Cardinality({n \in DOMAIN txns:
                        txns[n].charged /\ txns[n].key[1] \in attempts[i]}) <= 1
    BY DEF InstallmentChargedOnce
  <2> DEFINE C == {n \in DOMAIN txns: txns[n].charged /\ txns[n].key[1] \in attempts[i]}
  <2>1. DOMAIN txns = 1..Len(txns) /\ i \in 1..Len(plan)
    BY LenProperties DEF PInv, PlanFits, EInv, TypeOK
  <2>2. OnceFor(txns, prints, attempts[i], PrintOf(plan, i))
    BY <2>1 DEF OnceEach
  <2>3. \A m, n \in C: m = n
    BY <2>1, <2>2 DEF OnceFor
  <2>4. C = {} \/ \E n: C = {n}
    <3> HIDE DEF C
    <3>1. QED
      BY <2>3
  <2> HIDE DEF C
  <2>5. Cardinality(C) <= 1
    <3>1. C = {} => Cardinality(C) = 0
      BY FS_EmptySet
    <3>2. ASSUME NEW n, C = {n} PROVE Cardinality(C) = 1
      BY <3>2, FS_Singleton
    <3>3. Cardinality(C) = 0 \/ Cardinality(C) = 1
      BY <2>4, <3>1, <3>2
    <3>4. QED
      BY ONLY <3>3
  <2>6. QED
    BY <2>5 DEF C
<1>4. QED
  BY <1>1, <1>2, <1>3, PTL DEF PlanSpec
===============================================================================
