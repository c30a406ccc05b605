-------------------------------- MODULE AuditLog --------------------------------
(***************************************************************************)
(* What an audit log promises: entries are taken once, may wait, and are   *)
(* then kept for good, in the order they were taken.  Those that wait may  *)
(* be lost, all together, when a write fails or the process dies.          *)
(***************************************************************************)
EXTENDS Sequences

CONSTANT Ids

VARIABLES stored,    \* the entries kept, in order
          pending    \* the entries taken and not yet kept

In(n, s) == \E i \in DOMAIN s: s[i] = n

Init == stored = <<>> /\ pending = <<>>

Fresh(n) == ~In(n, stored) /\ ~In(n, pending)

Take(n)  == Fresh(n) /\ pending' = Append(pending, n) /\ UNCHANGED stored
Store(n) == Fresh(n) /\ stored' = Append(stored, n) /\ UNCHANGED pending
Persist  == pending # <<>> /\ stored' = stored \o pending /\ pending' = <<>>
Lose     == pending # <<>> /\ pending' = <<>> /\ UNCHANGED stored

(* Taking one entry may bring those that wait, and itself, to the store.   *)
TakeAndPersist(n) == Fresh(n) /\ stored' = stored \o Append(pending, n) /\ pending' = <<>>
PersistAndTake(n) == Fresh(n) /\ stored' = stored \o pending /\ pending' = <<n>>
LoseAndTake(n)    == Fresh(n) /\ UNCHANGED stored /\ pending' = <<n>>

Next == \/ Persist \/ Lose
        \/ \E n \in Ids: \/ Take(n) \/ Store(n)
                         \/ TakeAndPersist(n) \/ PersistAndTake(n) \/ LoseAndTake(n)

Spec == Init /\ [][Next]_<<stored, pending>>
=================================================================================
