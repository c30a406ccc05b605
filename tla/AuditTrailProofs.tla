---------------------------- MODULE AuditTrailProofs ----------------------------
(***************************************************************************)
(* What AuditTrail guarantees for any threads, configurations, sizes of    *)
(* files, and any number of decisions and seconds: that it implements      *)
(* AuditLog, that only a failed write or a crash loses an entry, and what  *)
(* it leaves in the files: with calls one at a time a chain of entries     *)
(* that link each to the one before, signatures that verify, and with no   *)
(* failed batch an index that leads to the entry that is asked for.        *)
(***************************************************************************)
EXTENDS AuditTrail, SequenceTheorems, FiniteSetTheorems, TLAPS

(* TypeOK in parts: the entries, the signer, the threads and the files.    *)
EntriesOK ==
  /\ entries \in Seq(Entry) /\ Len(entries) <= MaxEntries
  /\ last \in {Genesis} \cup 1..Len(entries)
SignerOK ==
  /\ key \in Keys /\ keyId \in KeyIds /\ rotating \in Seconds \cup {-1}
  /\ DOMAIN history \subseteq KeyIds /\ history \in [DOMAIN history -> Keys]
ThreadsOK ==
  /\ pc \in [Threads -> {"idle", "chained", "linked", "keyed", "signed"}]
  /\ mine \in [Threads -> {0} \cup 1..Len(entries)]
BufferOK ==
  /\ mode \in Modes
  /\ buffer \in Seq(1..Len(entries))
  /\ Len(buffer) < mode.batch_size /\ Len(buffer) <= mode.max_buffer_size
RunOK ==
  /\ running \in BOOLEAN /\ clean \in BOOLEAN /\ failed \in BOOLEAN
  /\ second \in Seconds /\ run \in Nat \ {0}

LEMMA TypeParts == TypeOK <=> EntriesOK /\ SignerOK /\ ThreadsOK /\ BufferOK /\ RunOK /\ DiskOK(disk)
BY DEF TypeOK, EntriesOK, SignerOK, ThreadsOK, BufferOK, RunOK

(* A thread has an entry from its creation until it is delivered, and an   *)
(* entry is in one place: with one thread, in the buffer or in a file.     *)
Fields      == {"lines", "index", "current", "offset"}
Recorded(d) == d = [f \in Fields |-> d[f]]
OnePlace ==
  /\ \A t \in Threads: pc[t] = "idle" <=> mine[t] = 0
  /\ \A t, u \in Threads: mine[t] # 0 /\ mine[t] = mine[u] => t = u
  /\ \A t \in Threads: mine[t] # 0 => ~In(mine[t], Stored) /\ ~In(mine[t], buffer)
  /\ Stored \in Seq(1..Len(entries))
PastRuns == \A n \in DOMAIN entries: entries[n].run <= run
Inv == TypeOK /\ Recorded(disk) /\ OnePlace /\ PastRuns /\ NothingDropped

-----------------------------------------------------------------------------
(* The files *)

IdsOf(d)   == [i \in DOMAIN d.lines |-> d.lines[i].id]
DiskInv(d) == DiskOK(d) /\ Recorded(d)

LEMMA OpenedOK ==
  ASSUME DiskInv(disk), second \in Seconds
  PROVE  /\ DiskInv(Opened(disk)) /\ Opened(disk).lines = disk.lines
         /\ Opened(disk).current \in Seconds
<1>1. CASE ShouldRotate(disk)
  <2>1. LET d == Opened(disk)
        IN  Recorded(d) /\ d.lines = disk.lines /\ d.index = disk.index /\ d.current = second /\ d.offset = 0
    BY <1>1 DEF Opened, DiskInv, Recorded, Fields
  <2>2. QED
    BY <2>1 DEF DiskInv, DiskOK
<1>2. CASE ~ShouldRotate(disk)
  BY <1>2 DEF Opened, DiskInv, DiskOK, ShouldRotate
<1>3. QED
  BY <1>1, <1>2

LEMMA IndexedOK ==
  ASSUME NEW d, DiskInv(d), d.current \in Seconds, NEW ns \in Seq(Ids)
  PROVE  /\ DiskInv(Indexed(d, ns)) /\ Indexed(d, ns).lines = d.lines
         /\ Indexed(d, ns).current = d.current
<1> DEFINE At(n) == [file |-> d.current, pos |-> d.offset + (CHOOSE i \in DOMAIN ns: ns[i] = n) - 1]
           dom   == DOMAIN d.index \cup {ns[i]: i \in DOMAIN ns}
           index == [n \in dom |-> IF In(n, ns) THEN At(n) ELSE d.index[n]]
<1>1. Len(ns) \in Nat /\ DOMAIN ns = 1..Len(ns) /\ \A i \in DOMAIN ns: ns[i] \in Ids
  BY LenProperties, ElementOfSeq
<1>2. \A n: In(n, ns) => At(n) \in Location
  <2>1. SUFFICES ASSUME NEW n, In(n, ns) PROVE At(n) \in Location
    OBVIOUS
  <2>2. (CHOOSE i \in DOMAIN ns: ns[i] = n) \in 1..Len(ns)
    BY <1>1, <2>1 DEF In
  <2>3. d.offset + (CHOOSE i \in DOMAIN ns: ns[i] = n) - 1 \in Nat
    <3> DEFINE c == CHOOSE i \in DOMAIN ns: ns[i] = n
    <3>1. c \in 1..Len(ns) /\ d.offset \in Nat
      BY <2>2 DEF DiskInv, DiskOK
    <3> HIDE DEF c
    <3>2. d.offset + c - 1 \in Nat
      BY <1>1, <3>1
    <3>3. QED
      BY <3>2 DEF c
  <2>4. QED
    BY <2>3 DEF Location
<1>3. dom \subseteq Ids /\ DOMAIN index = dom /\ index \in [dom -> Location]
  <2>1. dom \subseteq Ids
    BY <1>1 DEF DiskInv, DiskOK
  <2>2. ASSUME NEW n \in dom PROVE (IF In(n, ns) THEN At(n) ELSE d.index[n]) \in Location
    <3>1. CASE In(n, ns)
      BY <1>2, <3>1
    <3>2. CASE ~In(n, ns)
      <4>1. n \in DOMAIN d.index
        BY <3>2 DEF In
      <4>2. QED
        BY <3>2, <4>1 DEF DiskInv, DiskOK
    <3>3. QED
      BY <3>1, <3>2
  <2>3. QED
    BY <2>1, <2>2
<1>4. LET x == Indexed(d, ns)
      IN  Recorded(x) /\ x.lines = d.lines /\ x.index = index /\ x.current = d.current
            /\ x.offset = d.offset + Len(ns)
  <2>1. Indexed(d, ns) = [d EXCEPT !.offset = d.offset + Len(ns), !.index = index]
    BY DEF Indexed
  <2> HIDE DEF index, dom
  <2>2. QED
    BY <2>1 DEF DiskInv, Recorded, Fields
<1> HIDE DEF index, dom
<1>5. QED
  BY <1>1, <1>3, <1>4 DEF DiskInv, DiskOK

LEMMA LinedOK ==
  ASSUME NEW d, DiskInv(d), d.current \in Seconds, NEW ns \in Seq(Ids)
  PROVE  DiskInv(Lined(d, ns)) /\ IdsOf(Lined(d, ns)) = IdsOf(d) \o ns
<1> DEFINE Line == [id: Ids, file: Seconds]
           new  == [i \in DOMAIN ns |-> [id |-> ns[i], file |-> d.current]]
<1>1. Len(ns) \in Nat /\ DOMAIN ns = 1..Len(ns) /\ \A i \in DOMAIN ns: ns[i] \in Ids
  BY LenProperties, ElementOfSeq
<1>2. new \in Seq(Line) /\ Len(new) = Len(ns) /\ \A i \in 1..Len(ns): new[i].id = ns[i]
  BY <1>1
<1>3. d.lines \in Seq(Line) /\ Len(d.lines) \in Nat /\ DOMAIN d.lines = 1..Len(d.lines)
  BY LenProperties DEF DiskInv, DiskOK
<1>4. LET x == Lined(d, ns)
      IN  Recorded(x) /\ x.lines = d.lines \o new /\ x.index = d.index /\ x.current = d.current
            /\ x.offset = d.offset
  <2>1. Lined(d, ns) = [d EXCEPT !.lines = d.lines \o new]
    BY DEF Lined
  <2> HIDE DEF new
  <2>2. QED
    BY <2>1 DEF DiskInv, Recorded, Fields
<1> HIDE DEF new, Line
<1>5. /\ d.lines \o new \in Seq(Line) /\ Len(d.lines \o new) = Len(d.lines) + Len(ns)
      /\ \A i \in 1..Len(d.lines) + Len(ns):
           (d.lines \o new)[i] = IF i <= Len(d.lines) THEN d.lines[i] ELSE new[i - Len(d.lines)]
  <2>1. new \in Seq(Line) /\ d.lines \in Seq(Line)
    BY <1>2, <1>3
  <2>2. /\ d.lines \o new \in Seq(Line) /\ Len(d.lines \o new) = Len(d.lines) + Len(new)
        /\ \A i \in 1..Len(d.lines) + Len(new):
             (d.lines \o new)[i] = IF i <= Len(d.lines) THEN d.lines[i] ELSE new[i - Len(d.lines)]
    BY <2>1, ConcatProperties
  <2>3. QED
    BY <1>2, <2>2
<1>6. DOMAIN (d.lines \o new) = 1..Len(d.lines) + Len(ns)
  BY <1>5, LenProperties
<1>7. IdsOf(d) \in Seq(Ids) /\ Len(IdsOf(d)) = Len(d.lines)
      /\ \A i \in 1..Len(d.lines): IdsOf(d)[i] = d.lines[i].id
  <2>1. \A i \in 1..Len(d.lines): d.lines[i] \in Line
    BY <1>3, ElementOfSeq
  <2>2. \A i \in 1..Len(d.lines): d.lines[i].id \in Ids
    BY <2>1 DEF Line
  <2>3. IdsOf(d) = [i \in 1..Len(d.lines) |-> d.lines[i].id]
    BY <1>3 DEF IdsOf
  <2>4. QED
    BY <1>3, <2>2, <2>3
<1> DEFINE both == IdsOf(d) \o ns
           all  == IdsOf(Lined(d, ns))
<1>8. /\ both \in Seq(Ids) /\ Len(both) = Len(d.lines) + Len(ns)
      /\ \A i \in 1..Len(d.lines) + Len(ns):
           both[i] = IF i <= Len(d.lines) THEN IdsOf(d)[i] ELSE ns[i - Len(d.lines)]
  <2>1. /\ both \in Seq(Ids) /\ Len(both) = Len(IdsOf(d)) + Len(ns)
        /\ \A i \in 1..Len(IdsOf(d)) + Len(ns):
             both[i] = IF i <= Len(IdsOf(d)) THEN IdsOf(d)[i] ELSE ns[i - Len(IdsOf(d))]
    BY <1>7, ConcatProperties
  <2>2. QED
    BY <1>7, <2>1
<1>9. /\ DOMAIN all = 1..Len(d.lines) + Len(ns)
      /\ \A i \in 1..Len(d.lines) + Len(ns): all[i] = (d.lines \o new)[i].id
  BY <1>4, <1>6 DEF IdsOf
<1> HIDE DEF both
<1>10. ASSUME NEW i \in 1..Len(d.lines) + Len(ns) PROVE all[i] = both[i]
  <2>1. CASE i <= Len(d.lines)
    BY <1>3, <1>5, <1>7, <1>8, <1>9, <2>1
  <2>2. CASE ~(i <= Len(d.lines))
    <3>1. i - Len(d.lines) \in 1..Len(ns)
      BY <1>1, <1>3, <2>2
    <3>2. QED
      BY <1>2, <1>5, <1>8, <1>9, <2>2, <3>1
  <2>3. QED
    BY <2>1, <2>2
<1>11. all = both
  <2>1. all \in [1..Len(d.lines) + Len(ns) -> Ids] /\ both \in [1..Len(d.lines) + Len(ns) -> Ids]
    <3>1. both \in [1..Len(d.lines) + Len(ns) -> Ids]
      BY <1>8, LenProperties
    <3>2. all = [i \in DOMAIN all |-> all[i]]
      BY DEF IdsOf
    <3> HIDE DEF all
    <3>3. QED
      BY <1>9, <1>10, <3>1, <3>2
  <2> HIDE DEF all
  <2>2. QED
    BY <1>10, <2>1
<1>12. DiskInv(Lined(d, ns))
  BY <1>4, <1>5 DEF DiskInv, DiskOK, Line
<1>13. QED
  BY <1>11, <1>12 DEF both

(* What a write does to the files, whether it succeeds or not.             *)
LEMMA Writes ==
  ASSUME DiskInv(disk), second \in Seconds, NEW ns \in Seq(Ids), NEW ok \in BOOLEAN,
         \/ WriteBatch(ns, ok)
         \/ \E n \in Ids: ns = <<n>> /\ WriteEntry(n, ok)
  PROVE  /\ DiskInv(disk') /\ Stored' = IF ok THEN Stored \o ns ELSE Stored
         /\ failed' = (failed \/ ~ok)
<1> DEFINE d == Opened(disk)
           x == Indexed(d, ns)
<1>1. DiskInv(d) /\ d.lines = disk.lines /\ d.current \in Seconds
  BY OpenedOK
<1>2. DiskInv(x) /\ x.lines = disk.lines /\ x.current \in Seconds
  <2> HIDE DEF d
  <2>1. QED
    BY <1>1, IndexedOK
<1>3. DiskInv(Lined(x, ns)) /\ IdsOf(Lined(x, ns)) = IdsOf(x) \o ns
  <2> HIDE DEF x
  <2>1. QED
    BY <1>2, LinedOK
<1>4. IdsOf(x) = Stored /\ IdsOf(d) = Stored
  BY <1>1, <1>2 DEF IdsOf, Stored
<1>5. disk' \in IF ok THEN {Lined(x, ns)} ELSE {x, d}
  BY DEF WriteBatch, WriteEntry
<1>6. failed' = (failed \/ ~ok)
  BY DEF WriteBatch, WriteEntry
<1>7. Stored' = IdsOf(disk')
  BY DEF Stored, IdsOf
<1> HIDE DEF x, d
<1>8. QED
  BY <1>1, <1>2, <1>3, <1>4, <1>5, <1>6, <1>7
-----------------------------------------------------------------------------
(* The trail: what a delivery and a flush do to files and buffer.          *)

DeliverMove(n) ==
  \/ Stored' = Stored /\ buffer' = Append(buffer, n) /\ failed' = failed
  \/ Stored' = Stored \o <<n>> /\ buffer' = buffer /\ failed' = failed
  \/ Stored' = Stored \o Append(buffer, n) /\ buffer' = <<>> /\ failed' = failed
  \/ Stored' = Stored \o buffer /\ buffer' = <<n>> /\ failed' = failed
  \/ Stored' = Stored /\ buffer' \in {buffer, <<>>, <<n>>} /\ failed'
FlushMove ==
  \/ Stored' = Stored \o buffer /\ buffer' = <<>> /\ failed' = failed
  \/ Stored' = Stored /\ buffer' = <<>> /\ failed'

LEMMA ParametersOK ==
  ASSUME AuditAssumption, TypeOK
  PROVE  /\ MaxEntries \in Nat /\ Len(entries) \in Nat /\ 1..Len(entries) \subseteq Ids
         /\ DOMAIN entries = 1..Len(entries) /\ Len(buffer) \in Nat
         /\ mode.batch_size \in Nat \ {0} /\ mode.max_buffer_size \in Nat \ {0}
         /\ buffer \in Seq(Ids) /\ second \in Seconds
<1>1. entries \in Seq(Entry) /\ buffer \in Seq(1..Len(entries)) /\ Len(entries) <= MaxEntries
      /\ mode \in Mode /\ MaxEntries \in Nat /\ second \in Seconds
  BY DEF AuditAssumption, TypeOK
<1>2. Len(entries) \in Nat /\ DOMAIN entries = 1..Len(entries) /\ Len(buffer) \in Nat
  BY <1>1, LenProperties
<1>3. 1..Len(entries) \subseteq Ids
  BY <1>1, <1>2 DEF Ids
<1>4. buffer \in Seq(Ids)
  BY <1>1, <1>3, SeqMonotonic
<1>5. QED
  BY <1>1, <1>2, <1>3, <1>4 DEF Mode

LEMMA DeliverMoves ==
  ASSUME AuditAssumption, Inv, NEW t \in Threads, NEW ok \in BOOLEAN,
         BufferEntry(t) \/ DeliverToStorage(t, ok) \/ CompleteBatch(t, ok) \/ ForceFlush(t, ok)
  PROVE  mine[t] \in 1..Len(entries) /\ DeliverMove(mine[t]) /\ DiskInv(disk') /\ BufferOK'
<1> DEFINE n == mine[t]
<1>1. /\ n \in 1..Len(entries) /\ n \in Ids /\ entries' = entries /\ mode' = mode
      /\ Len(buffer) \in Nat /\ Len(entries) \in Nat
      /\ mode.batch_size \in Nat \ {0} /\ mode.max_buffer_size \in Nat \ {0}
      /\ buffer \in Seq(1..Len(entries)) /\ buffer \in Seq(Ids)
      /\ Len(buffer) < mode.batch_size /\ Len(buffer) <= mode.max_buffer_size
      /\ mode \in Modes
  <2>1. pc[t] = "signed" /\ entries' = entries /\ mode' = mode
    BY DEF BufferEntry, DeliverToStorage, CompleteBatch, ForceFlush, Deliver, env
  <2>2. n \in 1..Len(entries)
    BY <2>1 DEF Inv, OnePlace, TypeOK
  <2>3. QED
    BY <2>1, <2>2, ParametersOK DEF Inv, TypeOK
<1>2. DiskInv(disk) /\ second \in Seconds /\ failed \in BOOLEAN
  BY DEF Inv, TypeOK, DiskInv
<1> HIDE DEF n
<1>3. CASE BufferEntry(t)
  <2>1. /\ buffer' = Append(buffer, n) /\ Len(buffer) < mode.max_buffer_size
        /\ Len(buffer) + 1 < mode.batch_size /\ UNCHANGED disks
    BY <1>3 DEF BufferEntry, n
  <2>2. Stored' = Stored /\ failed' = failed /\ disk' = disk
    BY <2>1 DEF disks, Stored
  <2>3. buffer' \in Seq(1..Len(entries)) /\ Len(buffer') = Len(buffer) + 1
    BY <1>1, <2>1
  <2>4. BufferOK'
    BY <1>1, <2>1, <2>3 DEF BufferOK
  <2>5. QED
    BY <1>1, <1>2, <2>1, <2>2, <2>4 DEF DeliverMove, n
<1>4. CASE DeliverToStorage(t, ok)
  <2>1. WriteEntry(n, ok) /\ buffer' = buffer
    BY <1>4 DEF DeliverToStorage, n
  <2>2. <<n>> \in Seq(Ids)
    BY <1>1
  <2>3. /\ DiskInv(disk') /\ Stored' = IF ok THEN Stored \o <<n>> ELSE Stored
        /\ failed' = (failed \/ ~ok)
    BY <1>1, <1>2, <2>1, <2>2, Writes
  <2>4. DeliverMove(n)
    BY <1>2, <2>1, <2>3 DEF DeliverMove
  <2>5. BufferOK'
    BY <1>1, <2>1 DEF BufferOK
  <2>6. QED
    BY <1>1, <2>3, <2>4, <2>5 DEF n
<1>5. CASE CompleteBatch(t, ok)
  <2>1. WriteBatch(Append(buffer, n), ok) /\ buffer' = <<>>
    BY <1>5 DEF CompleteBatch, n
  <2>2. Append(buffer, n) \in Seq(Ids)
    BY <1>1
  <2>3. /\ DiskInv(disk') /\ Stored' = IF ok THEN Stored \o Append(buffer, n) ELSE Stored
        /\ failed' = (failed \/ ~ok)
    BY <1>2, <2>1, <2>2, Writes
  <2>4. DeliverMove(n)
    BY <1>2, <2>1, <2>3 DEF DeliverMove
  <2>5. BufferOK'
    BY <1>1, <2>1 DEF BufferOK
  <2>6. QED
    BY <1>1, <2>3, <2>4, <2>5 DEF n
<1>6. CASE ForceFlush(t, ok)
  <2>1. WriteBatch(buffer, ok) /\ buffer' = <<n>> /\ Len(buffer) >= mode.max_buffer_size
    BY <1>6 DEF ForceFlush, n
  <2>2. /\ DiskInv(disk') /\ Stored' = IF ok THEN Stored \o buffer ELSE Stored
        /\ failed' = (failed \/ ~ok)
    BY <1>1, <1>2, <2>1, Writes
  <2>3. DeliverMove(n)
    BY <1>2, <2>1, <2>2 DEF DeliverMove
  <2>4. BufferOK'
    <3>1. buffer' \in Seq(1..Len(entries)) /\ Len(buffer') = 1
      BY <1>1, <2>1
    <3>2. QED
      BY <1>1, <2>1, <3>1 DEF BufferOK
  <2>5. QED
    BY <1>1, <2>2, <2>3, <2>4 DEF n
<1>7. QED
  BY <1>3, <1>4, <1>5, <1>6

LEMMA FlushMoves ==
  ASSUME AuditAssumption, Inv, NEW ok \in BOOLEAN, FlushBuffer(ok), UNCHANGED <<entries, mode>>
  PROVE  FlushMove /\ DiskInv(disk') /\ BufferOK' /\ buffer # <<>>
<1>1. /\ buffer # <<>> /\ buffer' = <<>> /\ WriteBatch(buffer, ok)
      /\ buffer \in Seq(Ids) /\ DiskInv(disk) /\ second \in Seconds /\ failed \in BOOLEAN
  BY ParametersOK DEF FlushBuffer, Inv, TypeOK, DiskInv
<1>2. /\ DiskInv(disk') /\ Stored' = IF ok THEN Stored \o buffer ELSE Stored
      /\ failed' = (failed \/ ~ok)
  BY <1>1, Writes
<1>3. BufferOK'
  BY <1>1, ParametersOK DEF BufferOK, Inv, TypeOK
<1>4. QED
  BY <1>1, <1>2, <1>3 DEF FlushMove

(* The entries in files and buffer grow by those of N and, short of a      *)
(* failure, are all still there.                                           *)
Kept(n) == In(n, Stored) \/ In(n, buffer)
GrowsBy(N) ==
  /\ \A m: Kept(m)' => Kept(m) \/ m \in N
  /\ ~failed' => ~failed /\ \A m: Kept(m) \/ m \in N => Kept(m)'
  /\ Stored' \in Seq(1..Len(entries'))

LEMMA InConcat ==
  ASSUME NEW S, NEW s \in Seq(S), NEW u \in Seq(S), NEW n
  PROVE  In(n, s \o u) <=> In(n, s) \/ In(n, u)
<1>1. /\ Len(s) \in Nat /\ Len(u) \in Nat /\ DOMAIN s = 1..Len(s) /\ DOMAIN u = 1..Len(u)
  BY LenProperties
<1>2. /\ s \o u \in Seq(S) /\ Len(s \o u) = Len(s) + Len(u)
      /\ \A i \in 1..Len(s) + Len(u): (s \o u)[i] = IF i <= Len(s) THEN s[i] ELSE u[i - Len(s)]
  BY ConcatProperties
<1>3. DOMAIN (s \o u) = 1..Len(s) + Len(u)
  BY <1>2, LenProperties
<1> DEFINE both == s \o u
<1>4. DOMAIN both = 1..Len(s) + Len(u)
      /\ \A i \in DOMAIN both: both[i] = IF i <= Len(s) THEN s[i] ELSE u[i - Len(s)]
  BY <1>2, <1>3
<1> HIDE DEF both
<1>5. ASSUME In(n, both) PROVE In(n, s) \/ In(n, u)
  <2>1. PICK i \in DOMAIN both: both[i] = n
    BY <1>5 DEF In
  <2>2. CASE i <= Len(s)
    BY <1>1, <1>4, <2>1, <2>2 DEF In
  <2>3. CASE ~(i <= Len(s))
    <3>1. i - Len(s) \in 1..Len(u)
      BY <1>1, <1>4, <2>1, <2>3
    <3>2. QED
      BY <1>1, <1>4, <2>1, <2>3, <3>1 DEF In
  <2>4. QED
    BY <2>2, <2>3
<1>6. ASSUME In(n, s) PROVE In(n, both)
  <2>1. PICK i \in DOMAIN s: s[i] = n
    BY <1>6 DEF In
  <2>2. i \in DOMAIN both /\ both[i] = n
    BY <1>1, <1>4, <2>1
  <2>3. QED
    BY <2>2 DEF In
<1>7. ASSUME In(n, u) PROVE In(n, both)
  <2>1. PICK i \in DOMAIN u: u[i] = n
    BY <1>7 DEF In
  <2>2. Len(s) + i \in DOMAIN both /\ ~(Len(s) + i <= Len(s)) /\ Len(s) + i - Len(s) = i
    BY <1>1, <1>4, <2>1
  <2>3. both[Len(s) + i] = n
    BY <1>4, <2>1, <2>2
  <2>4. QED
    BY <2>2, <2>3 DEF In
<1>8. QED
  BY <1>5, <1>6, <1>7 DEF both

LEMMA InSmall ==
  /\ \A n: ~In(n, <<>>)
  /\ \A n, m: In(m, <<n>>) <=> m = n
  /\ \A S: \A s \in Seq(S): \A n \in S: Append(s, n) = s \o <<n>> /\ <<n>> \in Seq(S)
<1>1. \A n: ~In(n, <<>>)
  BY DEF In
<1>2. \A n, m: In(m, <<n>>) <=> m = n
  <2>1. ASSUME NEW n, NEW m PROVE In(m, <<n>>) <=> m = n
    <3>1. DOMAIN <<n>> = {1} /\ <<n>>[1] = n
      OBVIOUS
    <3>2. QED
      BY <3>1 DEF In
  <2>2. QED
    BY <2>1
<1>3. ASSUME NEW S, NEW s \in Seq(S), NEW n \in S PROVE Append(s, n) = s \o <<n>> /\ <<n>> \in Seq(S)
  BY AppendIsConcat
<1>4. QED
  BY <1>1, <1>2, <1>3

LEMMA MovesGrow ==
  ASSUME NEW S, buffer \in Seq(S), Stored \in Seq(S), failed \in BOOLEAN, failed' \in BOOLEAN,
         S = 1..Len(entries), entries' = entries
  PROVE  /\ FlushMove => GrowsBy({})
         /\ \A n \in S: DeliverMove(n) => GrowsBy({n})
<1>1. \A s \in Seq(S): \A m:
        /\ In(m, Stored \o s) <=> In(m, Stored) \/ In(m, s)
        /\ Stored \o s \in Seq(S)
  BY InConcat, ConcatProperties
<1>2. ASSUME FlushMove PROVE GrowsBy({})
  <2>1. CASE Stored' = Stored \o buffer /\ buffer' = <<>> /\ failed' = failed
    <3>1. \A m: Kept(m)' <=> Kept(m)
      BY <1>1, <2>1, InSmall DEF Kept
    <3>2. Stored' \in Seq(S)
      BY <1>1, <2>1
    <3>3. QED
      BY <2>1, <3>1, <3>2 DEF GrowsBy, Kept
  <2>2. CASE Stored' = Stored /\ buffer' = <<>> /\ failed'
    BY <2>2, InSmall DEF GrowsBy, Kept
  <2>3. QED
    BY <1>2, <2>1, <2>2 DEF FlushMove
<1>3. ASSUME NEW n \in S, DeliverMove(n) PROVE GrowsBy({n})
  <2>1. /\ Append(buffer, n) \in Seq(S) /\ <<n>> \in Seq(S)
        /\ \A m: In(m, Append(buffer, n)) <=> In(m, buffer) \/ m = n
    <3>1. Append(buffer, n) = buffer \o <<n>> /\ <<n>> \in Seq(S)
      BY InSmall
    <3>2. buffer \o <<n>> \in Seq(S)
      BY <3>1, ConcatProperties
    <3>3. \A m: In(m, buffer \o <<n>>) <=> In(m, buffer) \/ In(m, <<n>>)
      BY <3>1, InConcat
    <3>4. QED
      BY <3>1, <3>2, <3>3, InSmall
  <2>2. CASE Stored' = Stored /\ buffer' = Append(buffer, n) /\ failed' = failed
    BY <2>1, <2>2 DEF GrowsBy, Kept
  <2>3. CASE Stored' = Stored \o <<n>> /\ buffer' = buffer /\ failed' = failed
    BY <1>1, <2>1, <2>3, InSmall DEF GrowsBy, Kept
  <2>4. CASE Stored' = Stored \o Append(buffer, n) /\ buffer' = <<>> /\ failed' = failed
    BY <1>1, <2>1, <2>4, InSmall DEF GrowsBy, Kept
  <2>5. CASE Stored' = Stored \o buffer /\ buffer' = <<n>> /\ failed' = failed
    BY <1>1, <2>1, <2>5, InSmall DEF GrowsBy, Kept
  <2>6. CASE Stored' = Stored /\ buffer' \in {buffer, <<>>, <<n>>} /\ failed'
    BY <2>6, InSmall DEF GrowsBy, Kept
  <2>7. QED
    BY <1>3, <2>2, <2>3, <2>4, <2>5, <2>6 DEF DeliverMove
<1>4. QED
  BY <1>2, <1>3

(* What is delivered leaves the hands of its thread, and a flush leaves    *)
(* the threads alone.                                                      *)
LEMMA DeliverKeeps ==
  ASSUME Inv, NEW t \in Threads, GrowsBy({mine[t]}), mine[t] # 0,
         UNCHANGED <<entries, run>>,
         pc' = [pc EXCEPT ![t] = "idle"], mine' = [mine EXCEPT ![t] = 0]
  PROVE  ThreadsOK' /\ OnePlace' /\ PastRuns' /\ NothingDropped'
<1>1. /\ \A u \in Threads: mine'[u] = IF u = t THEN 0 ELSE mine[u]
      /\ \A u \in Threads: pc'[u] = IF u = t THEN "idle" ELSE pc[u]
      /\ ThreadsOK'
  BY TypeParts DEF Inv, ThreadsOK
<1>2. OnePlace'
  <2>1. ASSUME NEW u \in Threads, mine'[u] # 0 PROVE ~In(mine'[u], Stored') /\ ~In(mine'[u], buffer')
    <3>1. u # t /\ mine'[u] = mine[u] /\ mine[u] # mine[t]
      BY <1>1, <2>1 DEF Inv, OnePlace
    <3>2. ~Kept(mine[u])
      BY <2>1, <3>1 DEF Inv, OnePlace, Kept
    <3>3. QED
      BY <3>1, <3>2 DEF GrowsBy, Kept
  <2>2. QED
    BY <1>1, <2>1 DEF OnePlace, Inv, GrowsBy, Kept
<1>3. NothingDropped'
  <2>1. SUFFICES ASSUME ~failed', NEW n \in DOMAIN entries, entries[n].run = run
                 PROVE  Kept(n)' \/ \E u \in Threads: mine'[u] = n
    BY DEF NothingDropped, Kept
  <2>2. Kept(n) \/ \E u \in Threads: mine[u] = n
    BY <2>1 DEF GrowsBy, Inv, NothingDropped, Kept
  <2>3. CASE Kept(n) \/ n = mine[t]
    BY <2>1, <2>3 DEF GrowsBy
  <2>4. CASE \E u \in Threads: u # t /\ mine[u] = n
    BY <1>1, <2>4
  <2>5. QED
    BY <2>2, <2>3, <2>4
<1>4. QED
  BY <1>1, <1>2, <1>3 DEF Inv, PastRuns

LEMMA FlushKeeps ==
  ASSUME Inv, GrowsBy({}), UNCHANGED <<entries, run, pc, mine>>
  PROVE  ThreadsOK' /\ OnePlace' /\ PastRuns' /\ NothingDropped'
<1>1. ThreadsOK' /\ PastRuns'
  BY TypeParts DEF Inv, ThreadsOK, PastRuns
<1>2. OnePlace'
  BY DEF OnePlace, Inv, GrowsBy, Kept
<1>3. NothingDropped'
  <2>1. SUFFICES ASSUME ~failed', NEW n \in DOMAIN entries, entries[n].run = run
                 PROVE  Kept(n)' \/ \E u \in Threads: mine[u] = n
    BY DEF NothingDropped, Kept
  <2>2. Kept(n) \/ \E u \in Threads: mine[u] = n
    BY <2>1 DEF GrowsBy, Inv, NothingDropped, Kept
  <2>3. QED
    BY <2>1, <2>2 DEF GrowsBy
<1>4. QED
  BY <1>1, <1>2, <1>3

(* A step that neither writes nor buffers.                                 *)
LEMMA TrailUnchanged ==
  ASSUME Inv, UNCHANGED <<buffer, disks, mode>>, Len(entries) \in Nat, Len(entries') \in Nat,
         Len(entries) <= Len(entries')
  PROVE  BufferOK' /\ DiskInv(disk') /\ Stored' = Stored
         /\ \A n: Kept(n)' <=> Kept(n)
<1>1. BufferOK'
  <2>1. buffer \in Seq(1..Len(entries)) /\ BufferOK
    BY TypeParts DEF Inv, BufferOK
  <2>2. 1..Len(entries) \subseteq 1..Len(entries')
    OBVIOUS
  <2>3. buffer \in Seq(1..Len(entries'))
    BY <2>1, <2>2, SeqMonotonic
  <2>4. QED
    BY <2>1, <2>3 DEF BufferOK
<1>2. DiskInv(disk') /\ Stored' = Stored
  BY TypeParts DEF Inv, DiskInv, disks, Stored
<1>3. QED
  BY <1>1, <1>2 DEF Kept

LEMMA RestartDisk ==
  ASSUME DiskInv(disk),
         disk' = [disk EXCEPT !.index = IndexOf(disk), !.current = 0, !.offset = 0]
  PROVE  DiskInv(disk') /\ Stored' = Stored
<1> DEFINE ids == {disk.lines[i].id: i \in DOMAIN disk.lines}
<1>1. /\ disk.lines \in Seq([id: Ids, file: Seconds])
      /\ Len(disk.lines) \in Nat /\ DOMAIN disk.lines = 1..Len(disk.lines)
      /\ \A i \in DOMAIN disk.lines: disk.lines[i] \in [id: Ids, file: Seconds]
  <2>1. disk.lines \in Seq([id: Ids, file: Seconds])
    BY DEF DiskInv, DiskOK
  <2>2. QED
    BY <2>1, LenProperties, ElementOfSeq
<1>2. ASSUME NEW i \in DOMAIN disk.lines
      PROVE  [file |-> disk.lines[i].file, pos |-> Position(disk, i)] \in Location
  <2>1. Position(disk, i) \in Nat
    <3> DEFINE before == {j \in LinesIn(disk, disk.lines[i].file): j < i}
    <3>1. before \subseteq 1..Len(disk.lines)
      BY <1>1 DEF LinesIn
    <3>2. IsFiniteSet(1..Len(disk.lines))
      <4>1. 1 \in Int /\ Len(disk.lines) \in Int
        BY <1>1
      <4>2. QED
        BY ONLY <4>1, FS_Interval
    <3>3. Cardinality(before) \in Nat
      BY <3>1, <3>2, FS_Subset, FS_CardinalityType
    <3>4. QED
      BY <3>3 DEF Position
  <2>2. QED
    BY <1>1, <2>1 DEF Location
<1>3. DOMAIN IndexOf(disk) = ids /\ IndexOf(disk) \in [ids -> Location]
  <2> DEFINE line(n) == CHOOSE j \in DOMAIN disk.lines: disk.lines[j].id = n
             at(n) == [file |-> disk.lines[line(n)].file, pos |-> Position(disk, line(n))]
  <2>1. ASSUME NEW n \in ids PROVE at(n) \in Location
    <3>1. line(n) \in DOMAIN disk.lines
      <4>1. \E j \in DOMAIN disk.lines: disk.lines[j].id = n
        BY <2>1
      <4>2. QED
        BY <4>1
    <3> HIDE DEF line
    <3>2. QED
      BY <1>2, <3>1
  <2>2. IndexOf(disk) = [n \in ids |-> at(n)]
    BY DEF IndexOf
  <2> HIDE DEF at, ids
  <2>3. QED
    BY <2>1, <2>2
<1>4. ids \subseteq Ids
  BY <1>1
<1>5. /\ Recorded(disk') /\ disk'.lines = disk.lines /\ disk'.index = IndexOf(disk)
      /\ disk'.current = 0 /\ disk'.offset = 0
  BY DEF DiskInv, Recorded, Fields
<1>6. DiskInv(disk')
  <2> HIDE DEF ids
  <2>1. QED
    BY <1>1, <1>3, <1>4, <1>5 DEF DiskInv, DiskOK
<1>7. QED
  BY <1>5, <1>6 DEF Stored

LEMMA RotationKeeps ==
  ASSUME Inv, StartRotation \/ FinishRotation
  PROVE  SignerOK'
<1>1. /\ key \in Keys /\ keyId \in KeyIds /\ rotating \in Seconds \cup {-1} /\ second \in Seconds
      /\ DOMAIN history \subseteq KeyIds /\ history \in [DOMAIN history -> Keys]
  BY DEF Inv, TypeOK
<1>2. CASE StartRotation
  <2> DEFINE dom == DOMAIN history \cup {second}
  <2>1. /\ key' = key + 1 /\ rotating' = second /\ keyId' = keyId
        /\ history' = [i \in dom |-> IF i = second THEN key + 1 ELSE history[i]]
    BY <1>2 DEF StartRotation
  <2>2. key + 1 \in Keys /\ \A i \in DOMAIN history: history[i] \in Keys
    BY <1>1 DEF Keys
  <2>3. dom \subseteq KeyIds
    BY <1>1 DEF KeyIds
  <2>4. \A i \in dom: (IF i = second THEN key + 1 ELSE history[i]) \in Keys
    BY <2>2
  <2> HIDE DEF dom
  <2>5. DOMAIN history' = dom /\ history' \in [dom -> Keys]
    BY <2>1, <2>4
  <2>6. QED
    BY <1>1, <2>1, <2>2, <2>3, <2>5 DEF SignerOK
<1>3. CASE FinishRotation
  BY <1>1, <1>3 DEF FinishRotation, SignerOK, KeyIds
<1>4. QED
  BY <1>2, <1>3

LEMMA InvInit == AuditAssumption /\ Init => Inv
<1> SUFFICES ASSUME AuditAssumption, Init PROVE Inv
  OBVIOUS
<1>1. EntriesOK /\ RunOK
  <2>1. EntriesOK
    BY DEF Init, AuditAssumption, EntriesOK
  <2>2. RunOK
    <3>1. running = TRUE /\ clean = TRUE /\ failed = FALSE
      BY DEF Init
    <3>2. second \in Seconds /\ run \in Nat \ {0}
      BY DEF Init, AuditAssumption, Seconds
    <3>3. QED
      BY <3>1, <3>2 DEF RunOK
  <2>3. QED
    BY <2>1, <2>2
<1>2. SignerOK
  BY DEF Init, SignerOK, Keys, KeyIds, Default
<1>3. ThreadsOK
  BY DEF Init, ThreadsOK
<1>4. BufferOK
  BY DEF Init, AuditAssumption, BufferOK, Mode
<1>5. DiskInv(disk) /\ Stored = <<>>
  BY DEF Init, DiskInv, DiskOK, Recorded, Fields, Stored
<1>6. OnePlace /\ PastRuns /\ NothingDropped
  BY <1>5, InSmall DEF Init, OnePlace, PastRuns, NothingDropped
<1>7. QED
  BY <1>1, <1>2, <1>3, <1>4, <1>5, <1>6, TypeParts DEF Inv, DiskInv

LEMMA InvStep == AuditAssumption /\ Inv /\ [Next]_vars => Inv'
<1> SUFFICES ASSUME AuditAssumption, Inv, [Next]_vars PROVE Inv'
  OBVIOUS
<1>0. /\ EntriesOK /\ SignerOK /\ ThreadsOK /\ BufferOK /\ RunOK /\ DiskInv(disk)
      /\ MaxEntries \in Nat /\ Len(entries) \in Nat /\ DOMAIN entries = 1..Len(entries)
      /\ OnePlace /\ PastRuns /\ NothingDropped
  BY TypeParts, ParametersOK DEF Inv, DiskInv
<1>1. /\ UNCHANGED <<entries, last>> => EntriesOK'
      /\ UNCHANGED signer => SignerOK'
      /\ UNCHANGED <<running, clean, failed, second, run>> => RunOK'
  BY <1>0 DEF EntriesOK, SignerOK, RunOK, signer
<1>2. /\ EntriesOK' /\ SignerOK' /\ ThreadsOK' /\ BufferOK' /\ RunOK' /\ DiskInv(disk')
      /\ OnePlace' /\ PastRuns' /\ NothingDropped'
      => Inv'
  BY TypeParts DEF Inv, DiskInv, TypeOK, EntriesOK, SignerOK, ThreadsOK, BufferOK, RunOK
<1>3. ASSUME NEW t \in Threads, StartEntry(t) PROVE Inv'
  <2> DEFINE new == [prev |-> last, key |-> 0, keyId |-> Default, run |-> run]
             n == Len(entries) + 1
  <2>1. /\ entries' = Append(entries, new) /\ new \in Entry /\ entries \in Seq(Entry)
        /\ Len(entries) < MaxEntries /\ pc[t] = "idle"
    <3>1. last \in {Genesis} \cup Ids
      BY <1>0 DEF EntriesOK, Ids
    <3>2. new \in Entry
      BY <1>0, <3>1 DEF RunOK, Entry, KeyIds
    <3>3. QED
      BY <1>0, <1>3, <3>2 DEF StartEntry, EntriesOK
  <2>2. /\ entries' \in Seq(Entry) /\ Len(entries') = n /\ entries'[n] = new
        /\ DOMAIN entries' = 1..n
        /\ \A m \in 1..Len(entries): entries'[m] = entries[m]
    <3> HIDE DEF new
    <3>1. QED
      BY <1>0, <2>1
  <2>3. EntriesOK'
    BY <1>0, <1>3, <2>1, <2>2 DEF StartEntry, EntriesOK
  <2>4. /\ mine' = [mine EXCEPT ![t] = n] /\ pc' = [pc EXCEPT ![t] = "chained"]
        /\ \A u \in Threads: mine[u] \in 0..Len(entries)
    BY <1>0, <1>3 DEF StartEntry, ThreadsOK
  <2>5. /\ ThreadsOK'
        /\ \A u \in Threads: mine'[u] = IF u = t THEN n ELSE mine[u]
        /\ \A u \in Threads: pc'[u] = IF u = t THEN "chained" ELSE pc[u]
    BY <1>0, <2>2, <2>4 DEF ThreadsOK
  <2>6. /\ BufferOK' /\ DiskInv(disk') /\ Stored' = Stored
        /\ \A m: Kept(m)' <=> Kept(m)
    BY <1>0, <1>3, <2>2, TrailUnchanged DEF StartEntry, env
  <2>7. \A m: Kept(m) => m \in 1..Len(entries)
    <3>1. Stored \in Seq(1..Len(entries)) /\ buffer \in Seq(1..Len(entries))
      BY <1>0 DEF OnePlace, BufferOK
    <3>2. QED
      BY <3>1, LenProperties, ElementOfSeq DEF Kept, In
  <2>8. OnePlace'
    <3>1. Stored' \in Seq(1..Len(entries'))
      <4>1. 1..Len(entries) \subseteq 1..Len(entries')
        BY <1>0, <2>2
      <4>2. QED
        BY <1>0, <2>6, <4>1, SeqMonotonic DEF OnePlace
    <3>2. ASSUME NEW u \in Threads, mine'[u] # 0 PROVE ~In(mine'[u], Stored') /\ ~In(mine'[u], buffer')
      <4>1. ~Kept(mine'[u])
        BY <1>0, <2>4, <2>5, <2>7, <3>2 DEF OnePlace, Kept
      <4>2. QED
        BY <2>6, <4>1 DEF Kept
    <3>3. \A u, v \in Threads: mine'[u] # 0 /\ mine'[u] = mine'[v] => u = v
      BY <1>0, <2>4, <2>5 DEF OnePlace
    <3>4. \A u \in Threads: pc'[u] = "idle" <=> mine'[u] = 0
      BY <1>0, <2>5 DEF OnePlace
    <3>5. QED
      BY <3>1, <3>2, <3>3, <3>4 DEF OnePlace
  <2>9. run' = run /\ failed' = failed
    BY <1>3 DEF StartEntry, env, disks
  <2>10. PastRuns'
    <3>1. ASSUME NEW m \in 1..n PROVE entries'[m].run <= run
      <4>1. CASE m = n
        BY <1>0, <2>2, <4>1 DEF RunOK
      <4>2. CASE m # n
        BY <1>0, <2>2, <4>2 DEF PastRuns
      <4>3. QED
        BY <4>1, <4>2
    <3>2. QED
      BY <2>2, <2>9, <3>1 DEF PastRuns
  <2>11. NothingDropped'
    <3>1. SUFFICES ASSUME ~failed, NEW m \in 1..n, entries'[m].run = run
                   PROVE  Kept(m)' \/ \E u \in Threads: mine'[u] = m
      BY <2>2, <2>9 DEF NothingDropped, Kept
    <3>2. CASE m = n
      BY <2>5, <3>2
    <3>3. CASE m # n
      <4>1. m \in DOMAIN entries /\ entries[m].run = run
        BY <1>0, <2>2, <3>1, <3>3
      <4>2. Kept(m) \/ \E u \in Threads: mine[u] = m
        BY <1>0, <3>1, <4>1 DEF NothingDropped, Kept
      <4>3. \A u \in Threads: mine[u] = m => u # t
        BY <1>0, <2>1, <4>1 DEF OnePlace
      <4>4. QED
        BY <2>5, <2>6, <4>2, <4>3
    <3>4. QED
      BY <3>2, <3>3
  <2>12. SignerOK' /\ RunOK'
    BY <1>1, <1>3 DEF StartEntry, env, disks
  <2>13. QED
    BY <1>2, <2>3, <2>5, <2>6, <2>8, <2>10, <2>11, <2>12
<1>4. ASSUME NEW t \in Threads, LinkEntry(t) \/ SignEntry(t) \/ NameKey(t) PROVE Inv'
  <2>1. /\ pc[t] \in {"chained", "linked", "keyed"} /\ mine[t] \in 1..Len(entries)
        /\ pc' = [pc EXCEPT ![t] = IF pc[t] = "chained" THEN "linked"
                                  ELSE IF pc[t] = "linked" THEN "keyed" ELSE "signed"]
        /\ UNCHANGED <<signer, mine, buffer, running, disks, env>>
    <3>1. /\ pc[t] \in {"chained", "linked", "keyed"}
          /\ pc' = [pc EXCEPT ![t] = IF pc[t] = "chained" THEN "linked"
                                    ELSE IF pc[t] = "linked" THEN "keyed" ELSE "signed"]
          /\ UNCHANGED <<signer, mine, buffer, running, disks, env>>
      BY <1>4 DEF LinkEntry, SignEntry, NameKey
    <3>2. mine[t] \in 1..Len(entries)
      BY <1>0, <3>1 DEF OnePlace, ThreadsOK
    <3>3. QED
      BY <3>1, <3>2
  <2>2. /\ EntriesOK' /\ Len(entries') = Len(entries) /\ DOMAIN entries' = 1..Len(entries)
        /\ \A m \in 1..Len(entries): entries'[m].run = entries[m].run
    <3> DEFINE n == mine[t]
    <3>1. entries \in Seq(Entry) /\ n \in 1..Len(entries) /\ entries[n] \in Entry
      <4>1. entries \in Seq(Entry) /\ n \in 1..Len(entries)
        BY <1>0, <2>1 DEF EntriesOK
      <4>2. QED
        BY <4>1, ElementOfSeq
    <3>2. CASE LinkEntry(t)
      BY <1>0, <3>1, <3>2 DEF LinkEntry, EntriesOK
    <3>3. ASSUME NEW e \in Entry, e.run = entries[n].run, entries' = [entries EXCEPT ![n] = e], last' = last
          PROVE  /\ EntriesOK' /\ Len(entries') = Len(entries) /\ DOMAIN entries' = 1..Len(entries)
                 /\ \A m \in 1..Len(entries): entries'[m].run = entries[m].run
      <4> HIDE DEF n
      <4>1. /\ entries' \in Seq(Entry) /\ Len(entries') = Len(entries)
            /\ \A m \in 1..Len(entries): entries'[m] = IF m = n THEN e ELSE entries[m]
        BY <3>1, <3>3, ExceptSeq
      <4>2. DOMAIN entries' = 1..Len(entries)
        BY <4>1, LenProperties
      <4>3. QED
        BY <1>0, <3>3, <4>1, <4>2 DEF EntriesOK
    <3>4. CASE SignEntry(t)
      <4> DEFINE e == [entries[n] EXCEPT !.key = key]
      <4>1. e \in Entry /\ e.run = entries[n].run
        BY <1>0, <3>1 DEF Entry, SignerOK, Keys
      <4>2. entries' = [entries EXCEPT ![n] = e] /\ last' = last
        BY <3>4 DEF SignEntry
      <4> HIDE DEF e
      <4>3. QED
        BY <3>3, <4>1, <4>2
    <3>5. CASE NameKey(t)
      <4> DEFINE e == [entries[n] EXCEPT !.keyId = keyId]
      <4>1. e \in Entry /\ e.run = entries[n].run
        BY <1>0, <3>1 DEF Entry, SignerOK
      <4>2. entries' = [entries EXCEPT ![n] = e] /\ last' = last
        BY <3>5 DEF NameKey
      <4> HIDE DEF e
      <4>3. QED
        BY <3>3, <4>1, <4>2
    <3>6. QED
      BY <1>4, <3>2, <3>4, <3>5
  <2>3. /\ ThreadsOK'
        /\ \A u \in Threads: pc'[u] = "idle" <=> pc[u] = "idle"
    BY <1>0, <2>1, <2>2 DEF ThreadsOK
  <2>4. /\ BufferOK' /\ DiskInv(disk') /\ Stored' = Stored
        /\ \A m: Kept(m)' <=> Kept(m)
    BY <1>0, <2>1, <2>2, TrailUnchanged DEF env
  <2>5. OnePlace'
    BY <1>0, <2>1, <2>2, <2>3, <2>4 DEF OnePlace
  <2>6. run' = run /\ failed' = failed /\ SignerOK' /\ RunOK'
    BY <1>1, <2>1 DEF env, disks
  <2>7. PastRuns'
    BY <1>0, <2>2, <2>6 DEF PastRuns
  <2>8. NothingDropped'
    BY <1>0, <2>1, <2>2, <2>4, <2>6 DEF NothingDropped
  <2>9. QED
    BY <1>2, <2>2, <2>3, <2>4, <2>5, <2>6, <2>7, <2>8
<1>5. ASSUME NEW t \in Threads, NEW ok \in BOOLEAN,
             BufferEntry(t) \/ DeliverToStorage(t, ok) \/ CompleteBatch(t, ok) \/ ForceFlush(t, ok)
      PROVE  Inv'
  <2>1. mine[t] \in 1..Len(entries) /\ DeliverMove(mine[t]) /\ DiskInv(disk') /\ BufferOK'
    BY <1>5, DeliverMoves
  <2>2. /\ pc' = [pc EXCEPT ![t] = "idle"] /\ mine' = [mine EXCEPT ![t] = 0]
        /\ UNCHANGED <<entries, last, signer, running, env>>
    BY <1>5 DEF BufferEntry, DeliverToStorage, CompleteBatch, ForceFlush, Deliver
  <2>3. clean' \in BOOLEAN /\ failed' \in BOOLEAN
    BY <1>0, <1>5 DEF BufferEntry, DeliverToStorage, CompleteBatch, ForceFlush, WriteEntry, WriteBatch, disks, RunOK
  <2>4. GrowsBy({mine[t]})
    BY <1>0, <2>1, <2>2, <2>3, MovesGrow DEF OnePlace, BufferOK, RunOK
  <2>5. ThreadsOK' /\ OnePlace' /\ PastRuns' /\ NothingDropped'
    <3>1. mine[t] # 0 /\ run' = run
      BY <1>0, <2>1, <2>2 DEF env
    <3>2. QED
      BY <2>2, <2>4, <3>1, DeliverKeeps
  <2>6. RunOK'
    BY <1>0, <2>2, <2>3 DEF RunOK, env
  <2>7. QED
    BY <1>1, <1>2, <2>1, <2>2, <2>5, <2>6
<1>6. ASSUME NEW ok \in BOOLEAN, FlushLoop(ok) \/ Flush(ok) \/ Stop(ok) PROVE Inv'
  <2>1. UNCHANGED <<entries, last, signer, pc, mine, env>> /\ running' \in BOOLEAN
    BY <1>0, <1>6 DEF FlushLoop, Flush, Stop, RunOK
  <2>2. CASE FlushBuffer(ok)
    <3>1. FlushMove /\ DiskInv(disk') /\ BufferOK'
      BY <2>1, <2>2, FlushMoves DEF env
    <3>2. clean' \in BOOLEAN /\ failed' \in BOOLEAN
      BY <1>0, <2>2 DEF FlushBuffer, WriteBatch, RunOK
    <3>3. GrowsBy({})
      BY <1>0, <2>1, <3>1, <3>2, MovesGrow DEF OnePlace, BufferOK, RunOK
    <3>4. ThreadsOK' /\ OnePlace' /\ PastRuns' /\ NothingDropped'
      BY <2>1, <3>3, FlushKeeps DEF env
    <3>5. RunOK'
      BY <1>0, <2>1, <3>2 DEF RunOK, env
    <3>6. QED
      BY <1>1, <1>2, <2>1, <3>1, <3>4, <3>5
  <2>3. CASE UNCHANGED <<buffer, disks>>
    <3>1. BufferOK' /\ DiskInv(disk') /\ Stored' = Stored
      BY <1>0, <2>1, <2>3, TrailUnchanged DEF env
    <3>2. RunOK'
      BY <1>0, <2>1, <2>3 DEF RunOK, env, disks
    <3>3. ThreadsOK' /\ OnePlace' /\ PastRuns' /\ NothingDropped'
      BY <1>0, <2>1, <2>3, <3>1 DEF ThreadsOK, OnePlace, PastRuns, NothingDropped, env, disks
    <3>4. QED
      BY <1>1, <1>2, <2>1, <3>1, <3>2, <3>3
  <2>4. QED
    BY <1>6, <2>2, <2>3 DEF FlushLoop, Flush, Stop
<1>7. CASE StartRotation \/ FinishRotation \/ Tick \/ UNCHANGED vars
  <2>1. UNCHANGED <<entries, last, pc, mine, buffer, running, disks, mode, run>>
    BY <1>7 DEF StartRotation, FinishRotation, Tick, vars, env, disks
  <2>2. BufferOK' /\ DiskInv(disk') /\ Stored' = Stored
    BY <1>0, <2>1, TrailUnchanged
  <2>3. SignerOK'
    BY <1>1, <1>7, RotationKeeps DEF Tick, vars
  <2>4. RunOK'
    <3>1. second' \in Seconds
      BY <1>0, <1>7 DEF StartRotation, FinishRotation, Tick, vars, env, RunOK, Seconds, AuditAssumption
    <3>2. QED
      BY <1>0, <2>1, <3>1 DEF RunOK, disks
  <2>5. ThreadsOK' /\ OnePlace' /\ PastRuns' /\ NothingDropped'
    BY <1>0, <2>1, <2>2 DEF ThreadsOK, OnePlace, PastRuns, NothingDropped, disks
  <2>6. QED
    BY <1>1, <1>2, <2>1, <2>2, <2>3, <2>4, <2>5
<1>8. CASE Restart
  <2>1. /\ run' = run + 1 /\ UNCHANGED <<entries, failed, mode, second>>
        /\ buffer' = <<>> /\ last' = Genesis /\ running' = TRUE /\ clean' = TRUE
        /\ pc' = [t \in Threads |-> "idle"] /\ mine' = [t \in Threads |-> 0]
    BY <1>8 DEF Restart
  <2>2. DiskInv(disk') /\ Stored' = Stored
    BY <1>0, <1>8, RestartDisk DEF Restart
  <2>3. SignerOK'
    BY <1>0, <1>8 DEF Restart, SignerOK, Keys, KeyIds, Default
  <2>4. EntriesOK'
    BY <1>0, <2>1 DEF EntriesOK
  <2>5. RunOK'
    <3>1. failed' \in BOOLEAN /\ second' \in Seconds /\ run' \in Nat \ {0}
      BY <1>0, <2>1 DEF RunOK
    <3>2. QED
      BY <2>1, <3>1 DEF RunOK
  <2>6. ThreadsOK' /\ BufferOK'
    <3>1. ThreadsOK'
      BY <2>1 DEF ThreadsOK
    <3>2. 0 < mode.batch_size /\ 0 <= mode.max_buffer_size /\ mode \in Modes
      BY ParametersOK DEF Inv, TypeOK
    <3>3. QED
      BY <2>1, <3>1, <3>2 DEF BufferOK
  <2>7. OnePlace'
    BY <1>0, <2>1, <2>2 DEF OnePlace
  <2>8. PastRuns' /\ NothingDropped'
    <3>1. \A n \in DOMAIN entries: entries[n].run \in Nat /\ entries[n].run <= run /\ run \in Nat
      <4>1. \A n \in DOMAIN entries: entries[n] \in Entry
        BY <1>0, ElementOfSeq DEF EntriesOK
      <4>2. QED
        BY <1>0, <4>1 DEF PastRuns, Entry, RunOK
    <3>2. \A n \in DOMAIN entries: entries[n].run <= run + 1 /\ entries[n].run # run + 1
      BY <3>1
    <3>3. QED
      BY <2>1, <3>2 DEF PastRuns, NothingDropped
  <2>9. QED
    BY <1>2, <2>2, <2>3, <2>4, <2>5, <2>6, <2>7, <2>8
<1>9. QED
  BY <1>3, <1>4, <1>5, <1>6, <1>7, <1>8 DEF Next, Log

(* Type correctness, with the sizes of the buffer.                         *)
THEOREM AuditTypeCorrect == Spec => []TypeOK
<1>1. Inv => TypeOK
  BY DEF Inv
<1>2. QED
  BY <1>1, InvInit, InvStep, AuditAssumption, PTL DEF Spec

(* Only a failed write or a crash loses an entry.                          *)
THEOREM NothingIsDropped == Spec => []NothingDropped
<1>1. Inv => NothingDropped
  BY DEF Inv
<1>2. QED
  BY <1>1, InvInit, InvStep, AuditAssumption, PTL DEF Spec
-----------------------------------------------------------------------------
(* Every step is one of AuditLog, or leaves it as it is.                   *)
LEMMA DeliverRefines ==
  ASSUME AuditAssumption, Inv, NEW t \in Threads, mine[t] \in 1..Len(entries), DeliverMove(mine[t])
  PROVE  [Abstract!Next]_<<Stored, buffer>>
<1> DEFINE n == mine[t]
<1>1. n \in Ids /\ Stored \in Seq(Ids) /\ buffer \in Seq(Ids)
  BY ParametersOK, SeqMonotonic DEF Inv, OnePlace
<1>2. Abstract!Fresh(n)
  <2>1. ~In(n, Stored) /\ ~In(n, buffer)
    <3>1. mine[t] # 0
      BY ParametersOK DEF Inv
    <3>2. QED
      BY <3>1 DEF Inv, OnePlace
  <2>2. QED
    BY <2>1 DEF In, Abstract!Fresh, Abstract!In
<1>3. Append(Stored, n) = Stored \o <<n>>
  BY <1>1, AppendIsConcat
<1> HIDE DEF n
<1>4. CASE Stored' = Stored /\ buffer' = Append(buffer, n)
  BY <1>1, <1>2, <1>4 DEF Abstract!Next, Abstract!Take
<1>5. CASE Stored' = Stored \o <<n>> /\ buffer' = buffer
  BY <1>1, <1>2, <1>3, <1>5 DEF Abstract!Next, Abstract!Store
<1>6. CASE Stored' = Stored \o Append(buffer, n) /\ buffer' = <<>>
  BY <1>1, <1>2, <1>6 DEF Abstract!Next, Abstract!TakeAndPersist
<1>7. CASE Stored' = Stored \o buffer /\ buffer' = <<n>>
  BY <1>1, <1>2, <1>7 DEF Abstract!Next, Abstract!PersistAndTake
<1>8. CASE Stored' = Stored /\ buffer' \in {buffer, <<>>, <<n>>}
  <2>1. CASE buffer' = buffer
    BY <1>8, <2>1
  <2>2. CASE buffer' = <<>>
    BY <1>8, <2>2 DEF Abstract!Next, Abstract!Lose
  <2>3. CASE buffer' = <<n>>
    BY <1>1, <1>2, <1>8, <2>3 DEF Abstract!Next, Abstract!LoseAndTake
  <2>4. QED
    BY <1>8, <2>1, <2>2, <2>3
<1>9. QED
  BY <1>4, <1>5, <1>6, <1>7, <1>8 DEF DeliverMove, n

LEMMA StepRefines ==
  AuditAssumption /\ Inv /\ [Next]_vars => [Abstract!Next]_<<Stored, buffer>>
<1> SUFFICES ASSUME AuditAssumption, Inv, [Next]_vars PROVE [Abstract!Next]_<<Stored, buffer>>
  OBVIOUS
<1>1. ASSUME NEW t \in Threads, NEW ok \in BOOLEAN,
             BufferEntry(t) \/ DeliverToStorage(t, ok) \/ CompleteBatch(t, ok) \/ ForceFlush(t, ok)
      PROVE  [Abstract!Next]_<<Stored, buffer>>
  <2>1. mine[t] \in 1..Len(entries) /\ DeliverMove(mine[t])
    BY <1>1, DeliverMoves
  <2>2. QED
    BY <2>1, DeliverRefines
<1>2. ASSUME NEW ok \in BOOLEAN, FlushBuffer(ok), UNCHANGED <<entries, mode>>
      PROVE  [Abstract!Next]_<<Stored, buffer>>
  <2>1. FlushMove /\ buffer # <<>>
    BY <1>2, FlushMoves
  <2>2. QED
    BY <2>1 DEF FlushMove, Abstract!Next, Abstract!Persist, Abstract!Lose
<1>3. ASSUME UNCHANGED <<buffer, disk>> PROVE [Abstract!Next]_<<Stored, buffer>>
  BY <1>3 DEF Stored
<1>4. CASE Restart
  <2>1. Stored' = Stored /\ buffer' = <<>>
    BY <1>4, TypeParts, RestartDisk DEF Restart, Inv, DiskInv
  <2>2. QED
    BY <2>1 DEF Abstract!Next, Abstract!Lose
<1>5. ASSUME NEW t \in Threads, StartEntry(t) \/ LinkEntry(t) \/ SignEntry(t) \/ NameKey(t)
      PROVE  [Abstract!Next]_<<Stored, buffer>>
  BY <1>3, <1>5 DEF StartEntry, LinkEntry, SignEntry, NameKey, disks
<1>6. ASSUME NEW ok \in BOOLEAN, FlushLoop(ok) \/ Flush(ok) \/ Stop(ok)
      PROVE  [Abstract!Next]_<<Stored, buffer>>
  BY <1>2, <1>3, <1>6 DEF FlushLoop, Flush, Stop, disks, env
<1>7. CASE StartRotation \/ FinishRotation \/ Tick \/ UNCHANGED vars
  BY <1>3, <1>7 DEF StartRotation, FinishRotation, Tick, vars, disks
<1>8. QED
  BY <1>1, <1>4, <1>5, <1>6, <1>7 DEF Next, Log

(* The files and the buffer behave as AuditLog says, whatever threads,     *)
(* flushes, failed writes, restarts and changes of file come together.     *)
THEOREM TrailIsAuditLog == Spec => IsAuditLog
<1>1. Init => Abstract!Init
  <2>1. ASSUME Init PROVE Stored = <<>> /\ buffer = <<>>
    BY <2>1 DEF Init, Stored
  <2>2. QED
    BY <2>1 DEF Abstract!Init
<1>2. QED
  BY <1>1, InvInit, InvStep, StepRefines, AuditAssumption, PTL DEF Spec, IsAuditLog, Abstract!Spec
-----------------------------------------------------------------------------
(* Signatures: the key in use is the one of the id in use, but during a    *)
(* rotation, which no call overlaps when calls come one at a time.  A      *)
(* second rotation in one second loses an id, and never finds it again.    *)

Lost == Cardinality(DOMAIN history) # key - history[Default] + 1
KeysOK ==
  /\ IsFiniteSet(DOMAIN history) /\ Default \in DOMAIN history
  /\ Cardinality(DOMAIN history) <= key - history[Default] + 1
  /\ LET id == IF rotating = -1 THEN keyId ELSE rotating
     IN  id \in DOMAIN history /\ history[id] = key
InHandOK ==
  \A t \in Threads:
    /\ pc[t] # "idle" => rotating = -1
    /\ pc[t] \in {"keyed", "signed"} => entries[mine[t]].key = key
    /\ pc[t] = "signed" => entries[mine[t]].keyId = keyId
KeptOK ==
  \A n \in DOMAIN entries: entries[n].run = run /\ Kept(n)
    => /\ entries[n].keyId \in DOMAIN history
       /\ Lost \/ history[entries[n].keyId] = entries[n].key
SigInv == KeysOK /\ (~mode.overlap => InHandOK /\ KeptOK)

LEMMA SigImplies == SigInv => SignaturesVerify
BY DEF SigInv, KeptOK, Lost, Kept, SignaturesVerify

LEMMA SigInit == Init => SigInv
<1> SUFFICES ASSUME Init PROVE SigInv
  OBVIOUS
<1>1. /\ key = 1 /\ keyId = Default /\ rotating = -1 /\ entries = <<>>
      /\ \A t \in Threads: pc[t] = "idle"
  BY DEF Init
<1>2. DOMAIN history = {Default} /\ history[Default] = 1
  BY DEF Init
<1>3. IsFiniteSet({Default}) /\ Cardinality({Default}) = 1
  BY FS_Singleton
<1>4. KeysOK
  BY <1>1, <1>2, <1>3 DEF KeysOK
<1>5. InHandOK /\ KeptOK
  BY <1>1 DEF InHandOK, KeptOK
<1>6. QED
  BY <1>4, <1>5 DEF SigInv

(* What the trail keeps after a step was there, or is what was delivered.  *)
LEMMA NothingAppears ==
  ASSUME AuditAssumption, Inv, [Next]_vars, ~Restart
  PROVE  \/ \A n: Kept(n)' => Kept(n)
         \/ \E t \in Threads: /\ pc[t] = "signed" /\ Deliver(t)
                              /\ \A n: Kept(n)' => Kept(n) \/ n = mine[t]
<1>0. /\ buffer \in Seq(1..Len(entries)) /\ Stored \in Seq(1..Len(entries)) /\ failed \in BOOLEAN
      /\ failed' \in BOOLEAN
  BY InvStep DEF Inv, OnePlace, TypeOK
<1>1. ASSUME UNCHANGED <<buffer, disk>> PROVE \A n: Kept(n)' => Kept(n)
  BY <1>1 DEF Kept, Stored
<1>2. ASSUME NEW t \in Threads, NEW ok \in BOOLEAN,
             BufferEntry(t) \/ DeliverToStorage(t, ok) \/ CompleteBatch(t, ok) \/ ForceFlush(t, ok)
      PROVE  /\ pc[t] = "signed" /\ Deliver(t)
             /\ \A n: Kept(n)' => Kept(n) \/ n = mine[t]
  <2>1. Deliver(t) /\ pc[t] = "signed" /\ entries' = entries
    BY <1>2 DEF BufferEntry, DeliverToStorage, CompleteBatch, ForceFlush, Deliver
  <2>2. mine[t] \in 1..Len(entries) /\ DeliverMove(mine[t])
    BY <1>2, DeliverMoves
  <2>3. GrowsBy({mine[t]})
    BY <1>0, <2>1, <2>2, MovesGrow
  <2>4. QED
    BY <2>1, <2>3 DEF GrowsBy, Kept
<1>3. ASSUME NEW ok \in BOOLEAN, FlushLoop(ok) \/ Flush(ok) \/ Stop(ok)
      PROVE  \A n: Kept(n)' => Kept(n)
  <2>1. entries' = entries /\ mode' = mode
    BY <1>3 DEF FlushLoop, Flush, Stop, env
  <2>2. CASE FlushBuffer(ok)
    <3>1. FlushMove
      BY <2>1, <2>2, FlushMoves
    <3>2. GrowsBy({})
      BY <1>0, <2>1, <3>1, MovesGrow
    <3>3. QED
      BY <3>2 DEF GrowsBy, Kept
  <2>3. QED
    BY <1>1, <1>3, <2>2 DEF FlushLoop, Flush, Stop, disks
<1>4. ASSUME NEW t \in Threads, StartEntry(t) \/ LinkEntry(t) \/ SignEntry(t) \/ NameKey(t)
      PROVE  \A n: Kept(n)' => Kept(n)
  BY <1>1, <1>4 DEF StartEntry, LinkEntry, SignEntry, NameKey, disks
<1>5. CASE StartRotation \/ FinishRotation \/ Tick \/ UNCHANGED vars
  BY <1>1, <1>5 DEF StartRotation, FinishRotation, Tick, vars, disks
<1>6. QED
  BY <1>2, <1>3, <1>4, <1>5 DEF Next, Log

LEMMA RotationSigns ==
  ASSUME AuditAssumption, Inv, SigInv, StartRotation
  PROVE  KeysOK' /\ (Lost => Lost') /\ DOMAIN history \subseteq DOMAIN history'
         /\ (Lost' \/ \A i \in DOMAIN history: history'[i] = history[i])
<1> DEFINE dom == DOMAIN history \cup {second}
<1>1. /\ key' = key + 1 /\ rotating' = second
      /\ history' = [i \in dom |-> IF i = second THEN key + 1 ELSE history[i]]
  BY DEF StartRotation
<1>2. /\ key \in Nat /\ second \in Nat \ {0} /\ history[Default] \in Nat /\ Default # second
      /\ second # -1
  <2>1. key \in Keys /\ second \in Seconds /\ history[Default] \in Keys
    BY DEF Inv, TypeOK, SigInv, KeysOK
  <2>2. QED
    BY <2>1 DEF Keys, Seconds, Default
<1>3. /\ IsFiniteSet(DOMAIN history) /\ Default \in DOMAIN history
      /\ Cardinality(DOMAIN history) <= key - history[Default] + 1
      /\ Cardinality(DOMAIN history) \in Nat
  BY FS_CardinalityType DEF SigInv, KeysOK
<1>4. /\ IsFiniteSet(dom)
      /\ Cardinality(dom) = IF second \in DOMAIN history THEN Cardinality(DOMAIN history)
                                                        ELSE Cardinality(DOMAIN history) + 1
  BY <1>3, FS_AddElement
<1> HIDE DEF dom
<1>5. DOMAIN history' = dom /\ history'[second] = key + 1 /\ history'[Default] = history[Default]
      /\ \A i \in DOMAIN history: i # second => history'[i] = history[i]
  BY <1>1, <1>2, <1>3 DEF dom
<1>6. second \in dom /\ DOMAIN history \subseteq dom
  BY DEF dom
<1>7. KeysOK'
  <2>1. Cardinality(dom) <= (key + 1) - history[Default] + 1
    BY <1>2, <1>3, <1>4
  <2>2. QED
    BY <1>1, <1>2, <1>3, <1>4, <1>5, <1>6, <2>1 DEF KeysOK
<1>8. /\ Lost' <=> Cardinality(dom) # (key + 1) - history[Default] + 1
      /\ Lost <=> Cardinality(DOMAIN history) # key - history[Default] + 1
  BY <1>1, <1>5 DEF Lost
<1>9. Lost => Lost'
  BY <1>2, <1>3, <1>4, <1>8
<1>10. second \in DOMAIN history => Lost'
  BY <1>2, <1>3, <1>4, <1>8
<1>11. QED
  BY <1>5, <1>6, <1>7, <1>9, <1>10

LEMMA SigStep == AuditAssumption /\ Inv /\ SigInv /\ [Next]_vars => SigInv'
<1> SUFFICES ASSUME AuditAssumption, Inv, SigInv, [Next]_vars PROVE SigInv'
  OBVIOUS
<1>0. /\ KeysOK /\ Len(entries) \in Nat /\ DOMAIN entries = 1..Len(entries) /\ entries \in Seq(Entry)
      /\ \A t \in Threads: pc[t] # "idle" => mine[t] \in 1..Len(entries) /\ ~Kept(mine[t])
      /\ \A t, u \in Threads: pc[t] # "idle" /\ mine[t] = mine[u] => t = u
      /\ pc \in [Threads -> {"idle", "chained", "linked", "keyed", "signed"}]
      /\ mine \in [Threads -> {0} \cup 1..Len(entries)]
  <2>1. Len(entries) \in Nat /\ DOMAIN entries = 1..Len(entries) /\ entries \in Seq(Entry)
    BY ParametersOK DEF Inv, TypeOK
  <2>2. QED
    BY <2>1 DEF Inv, OnePlace, TypeOK, SigInv, Kept
<1>1. ~mode.overlap => InHandOK /\ KeptOK
  BY DEF SigInv
<1>2. UNCHANGED signer => KeysOK' /\ (Lost' <=> Lost)
  BY <1>0 DEF signer, KeysOK, Lost
<1>3. CASE StartRotation
  <2>1. UNCHANGED <<entries, pc, mine, buffer, disk, mode, run>> /\ MayBegin
    BY <1>3 DEF StartRotation, env, disks
  <2>2. \A n: Kept(n)' <=> Kept(n)
    BY <2>1 DEF Kept, Stored
  <2>3. /\ KeysOK' /\ (Lost => Lost') /\ DOMAIN history \subseteq DOMAIN history'
        /\ (Lost' \/ \A i \in DOMAIN history: history'[i] = history[i])
    BY <1>3, RotationSigns
  <2>4. ~mode.overlap => InHandOK'
    BY <2>1 DEF MayBegin, Alone, InHandOK
  <2>5. ~mode.overlap => KeptOK'
    <3>1. SUFFICES ASSUME ~mode.overlap, NEW n \in DOMAIN entries, entries[n].run = run, Kept(n)
                   PROVE  /\ entries[n].keyId \in DOMAIN history'
                          /\ Lost' \/ history'[entries[n].keyId] = entries[n].key
      BY <2>1, <2>2 DEF KeptOK
    <3>2. /\ entries[n].keyId \in DOMAIN history
          /\ Lost \/ history[entries[n].keyId] = entries[n].key
      BY <1>1, <3>1 DEF KeptOK
    <3>3. QED
      BY <2>3, <3>2
  <2>6. QED
    BY <2>1, <2>3, <2>4, <2>5 DEF SigInv
<1>4. CASE FinishRotation
  <2>1. /\ UNCHANGED <<entries, pc, mine, buffer, disk, mode, run, key, history>>
        /\ rotating # -1 /\ keyId' = rotating /\ rotating' = -1
    BY <1>4 DEF FinishRotation, env, disks
  <2>2. KeysOK'
    BY <1>0, <2>1 DEF KeysOK
  <2>3. ~mode.overlap => InHandOK'
    BY <1>0, <1>1, <2>1 DEF InHandOK
  <2>4. ~mode.overlap => KeptOK'
    BY <1>1, <2>1 DEF KeptOK, Kept, Lost, Stored
  <2>5. QED
    BY <2>1, <2>2, <2>3, <2>4 DEF SigInv
<1>5. CASE Restart
  <2>1. /\ key' = key + 1 /\ keyId' = Default /\ history' = [i \in {Default} |-> key + 1]
        /\ rotating' = -1 /\ pc' = [t \in Threads |-> "idle"] /\ run' = run + 1
        /\ entries' = entries /\ mode' = mode
    BY <1>5 DEF Restart
  <2>2. /\ DOMAIN history' = {Default} /\ history'[Default] = key + 1 /\ key \in Nat
        /\ IsFiniteSet({Default}) /\ Cardinality({Default}) = 1
    BY <2>1, FS_Singleton DEF Inv, TypeOK, Keys
  <2>3. KeysOK'
    BY <2>1, <2>2 DEF KeysOK
  <2>4. InHandOK'
    BY <2>1 DEF InHandOK
  <2>5. KeptOK'
    <3>1. ASSUME NEW n \in DOMAIN entries PROVE entries[n].run # run + 1
      <4>1. entries[n] \in Entry /\ entries[n].run <= run /\ run \in Nat
        BY <1>0, ElementOfSeq DEF Inv, PastRuns, TypeOK
      <4>2. QED
        BY <4>1 DEF Entry
    <3>2. QED
      BY <2>1, <3>1 DEF KeptOK
  <2>6. QED
    BY <2>3, <2>4, <2>5 DEF SigInv
<1>6. ASSUME NEW t \in Threads, StartEntry(t) PROVE SigInv'
  <2> DEFINE new == [prev |-> last, key |-> 0, keyId |-> Default, run |-> run]
  <2>1. /\ UNCHANGED <<signer, buffer, disk, mode, run>> /\ MayBegin /\ pc[t] = "idle"
        /\ pc' = [pc EXCEPT ![t] = "chained"] /\ mine' = [mine EXCEPT ![t] = Len(entries) + 1]
        /\ entries' = Append(entries, new)
    BY <1>6 DEF StartEntry, env, disks
  <2> HIDE DEF new
  <2>2. /\ DOMAIN entries' = 1..(Len(entries) + 1)
        /\ \A n \in 1..Len(entries): entries'[n] = entries[n]
    BY <1>0, <2>1
  <2>3. /\ \A n: Kept(n)' <=> Kept(n)
        /\ \A n: Kept(n) => n \in 1..Len(entries)
    <3>1. Stored \in Seq(1..Len(entries)) /\ buffer \in Seq(1..Len(entries))
      BY DEF Inv, OnePlace, TypeOK
    <3>2. \A n: Kept(n) => n \in 1..Len(entries)
      BY <3>1, LenProperties, ElementOfSeq DEF Kept, In
    <3>3. QED
      BY <2>1, <3>2 DEF Kept, Stored
  <2>4. /\ \A u \in Threads: u # t => pc'[u] = pc[u] /\ mine'[u] = mine[u]
        /\ pc'[t] = "chained"
    BY <1>0, <2>1
  <2>5. ~mode.overlap => InHandOK'
    <3>1. ~mode.overlap => rotating = -1 /\ \A u \in Threads: pc[u] = "idle"
      BY <2>1 DEF MayBegin, Alone
    <3>2. rotating' = rotating
      BY <2>1 DEF signer
    <3>3. ASSUME ~mode.overlap, NEW u \in Threads
          PROVE  rotating' = -1 /\ pc'[u] \notin {"keyed", "signed"}
      BY <2>4, <3>1, <3>2, <3>3
    <3>4. QED
      BY <3>3 DEF InHandOK
  <2>6. ~mode.overlap => KeptOK'
    BY <1>0, <1>1, <1>2, <2>1, <2>2, <2>3 DEF KeptOK, signer
  <2>7. QED
    BY <1>2, <2>1, <2>5, <2>6 DEF SigInv
<1>7. ASSUME NEW t \in Threads, LinkEntry(t) \/ SignEntry(t) \/ NameKey(t) PROVE SigInv'
  <2> DEFINE n == mine[t]
  <2>1. /\ UNCHANGED <<signer, mine, buffer, disk, mode, run>> /\ pc[t] # "idle"
    BY <1>7 DEF LinkEntry, SignEntry, NameKey, env, disks
  <2>2. n \in 1..Len(entries) /\ ~Kept(n) /\ entries[n] \in Entry
    BY <1>0, <2>1, ElementOfSeq
  <2>3. /\ DOMAIN entries' = DOMAIN entries
        /\ \A m \in DOMAIN entries: m # n => entries'[m] = entries[m]
    BY <1>0, <1>7 DEF LinkEntry, SignEntry, NameKey
  <2>4. \A u \in Threads: u # t => pc'[u] = pc[u] /\ (pc[u] # "idle" => mine[u] # n /\ mine[u] \in DOMAIN entries)
    BY <1>0, <1>7, <2>1 DEF LinkEntry, SignEntry, NameKey
  <2>5. /\ pc'[t] \in {"keyed", "signed"} => entries'[n].key = key \/ mode.overlap
        /\ pc'[t] = "signed" => entries'[n].keyId = keyId
    <3>1. CASE LinkEntry(t)
      BY <1>0, <3>1 DEF LinkEntry
    <3>2. CASE SignEntry(t)
      <4>1. entries'[n] = [entries[n] EXCEPT !.key = key] /\ pc'[t] = "keyed"
        BY <1>0, <2>2, <3>2 DEF SignEntry
      <4>2. QED
        BY <2>2, <4>1 DEF Entry
    <3>3. CASE NameKey(t)
      <4>1. entries'[n] = [entries[n] EXCEPT !.keyId = keyId] /\ pc[t] = "keyed"
        BY <1>0, <2>2, <3>3 DEF NameKey
      <4>2. entries'[n].keyId = keyId /\ entries'[n].key = entries[n].key
        BY <2>2, <4>1 DEF Entry
      <4>3. QED
        BY <1>1, <4>1, <4>2 DEF InHandOK
    <3>4. QED
      BY <1>7, <3>1, <3>2, <3>3
  <2>6. ~mode.overlap => InHandOK'
    <3>1. SUFFICES ASSUME ~mode.overlap, NEW u \in Threads
                   PROVE  /\ pc'[u] # "idle" => rotating = -1
                          /\ pc'[u] \in {"keyed", "signed"} => entries'[mine[u]].key = key
                          /\ pc'[u] = "signed" => entries'[mine[u]].keyId = keyId
      BY <2>1 DEF InHandOK, signer
    <3>2. CASE u = t
      BY <1>1, <2>1, <2>5, <3>1, <3>2 DEF InHandOK
    <3>3. CASE u # t
      BY <1>1, <2>3, <2>4, <3>1, <3>3 DEF InHandOK
    <3>4. QED
      BY <3>2, <3>3
  <2>7. ~mode.overlap => KeptOK'
    <3>1. \A m: Kept(m)' <=> Kept(m)
      BY <2>1 DEF Kept, Stored
    <3>2. QED
      BY <1>1, <1>2, <2>1, <2>2, <2>3, <3>1 DEF KeptOK, signer
  <2>8. QED
    BY <1>2, <2>1, <2>6, <2>7 DEF SigInv
<1>8. ASSUME NEW t \in Threads, pc[t] = "signed", Deliver(t),
             \A n: Kept(n)' => Kept(n) \/ n = mine[t]
      PROVE  SigInv'
  <2>1. /\ UNCHANGED <<signer, entries, mode, run>>
        /\ pc' = [pc EXCEPT ![t] = "idle"] /\ mine' = [mine EXCEPT ![t] = 0]
    BY <1>8 DEF Deliver, env
  <2>2. \A u \in Threads: u # t => pc'[u] = pc[u] /\ mine'[u] = mine[u]
    BY <1>0, <2>1
  <2>3. pc'[t] = "idle"
    BY <1>0, <2>1
  <2>4. ~mode.overlap => InHandOK'
    <3>1. SUFFICES ASSUME ~mode.overlap, NEW u \in Threads, pc'[u] # "idle"
                   PROVE  /\ rotating = -1
                          /\ pc'[u] \in {"keyed", "signed"} => entries[mine'[u]].key = key
                          /\ pc'[u] = "signed" => entries[mine'[u]].keyId = keyId
      BY <2>1 DEF InHandOK, signer
    <3>2. u # t
      BY <2>3, <3>1
    <3>3. QED
      BY <1>1, <2>2, <3>1, <3>2 DEF InHandOK
  <2>5. ~mode.overlap => KeptOK'
    <3>1. SUFFICES ASSUME ~mode.overlap, NEW n \in DOMAIN entries, entries[n].run = run, Kept(n) \/ n = mine[t]
                   PROVE  /\ entries[n].keyId \in DOMAIN history
                          /\ Lost \/ history[entries[n].keyId] = entries[n].key
      BY <1>2, <1>8, <2>1 DEF KeptOK, signer
    <3>2. CASE Kept(n)
      BY <1>1, <3>1, <3>2 DEF KeptOK
    <3>3. CASE n = mine[t]
      BY <1>0, <1>1, <1>8, <3>1, <3>3 DEF InHandOK, KeysOK
    <3>4. QED
      BY <3>1, <3>2, <3>3
  <2>6. QED
    BY <1>2, <2>1, <2>4, <2>5 DEF SigInv
<1>9. ASSUME UNCHANGED <<signer, entries, pc, mine, mode, run>>, \A n: Kept(n)' => Kept(n)
      PROVE  SigInv'
  BY <1>0, <1>1, <1>2, <1>9 DEF SigInv, InHandOK, KeptOK, signer
<1>10. QED
  <2>1. CASE \E ok \in BOOLEAN: FlushLoop(ok) \/ Flush(ok) \/ Stop(ok)
    <3>1. UNCHANGED <<signer, entries, pc, mine, mode, run>>
      BY <2>1 DEF FlushLoop, Flush, Stop, env
    <3>2. ~(\E t \in Threads: pc[t] = "signed" /\ Deliver(t))
      BY <1>0, <3>1 DEF Deliver
    <3>3. CASE Restart
      BY <1>5, <3>3
    <3>4. QED
      BY <1>9, <3>1, <3>2, <3>3, NothingAppears
  <2>2. CASE Tick \/ UNCHANGED vars
    <3>1. UNCHANGED <<signer, entries, pc, mine, mode, run, buffer, disk>>
      BY <2>2 DEF Tick, vars, env, disks
    <3>2. \A n: Kept(n)' => Kept(n)
      BY <3>1 DEF Kept, Stored
    <3>3. QED
      BY <1>9, <3>1, <3>2
  <2>3. CASE \E t \in Threads, ok \in BOOLEAN:
               BufferEntry(t) \/ DeliverToStorage(t, ok) \/ CompleteBatch(t, ok) \/ ForceFlush(t, ok)
    <3>1. PICK t \in Threads: pc[t] = "signed" /\ pc'[t] = "idle"
      BY <1>0, <2>3 DEF BufferEntry, DeliverToStorage, CompleteBatch, ForceFlush, Deliver
    <3>2. CASE Restart
      BY <1>5, <3>2
    <3>3. CASE \A n: Kept(n)' => Kept(n)
      BY <1>8, <2>3, <3>3 DEF BufferEntry, DeliverToStorage, CompleteBatch, ForceFlush, Deliver
    <3>4. QED
      BY <1>8, <3>2, <3>3, NothingAppears
  <2>4. QED
    BY <1>3, <1>4, <1>5, <1>6, <1>7, <2>1, <2>2, <2>3 DEF Next, Log

(* What this process signed verifies with the key of its id after any      *)
(* number of rotations, if calls come one at a time with them and no two   *)
(* of them in one second.                                                  *)
THEOREM SignaturesStayValid == Spec => []SignaturesVerify
BY InvInit, InvStep, SigInit, SigStep, SigImplies, AuditAssumption, PTL DEF Spec
--------------------------------------------------------------------------------
(* What is in the files *)

(* The entry a chain goes on from in run r, and a sequence of entries that *)
(* link to their predecessors of the same run.                             *)
End(es, p, r) == IF p # <<>> /\ es[p[Len(p)]].run = r THEN p[Len(p)] ELSE Genesis
Chained(es, p) ==
  \A i \in DOMAIN p:
    es[p[i]].prev = IF i > 1 /\ es[p[i]].run = es[p[i - 1]].run THEN p[i - 1] ELSE Genesis

(* Files and buffer are one chain, which the entry in hand goes on.        *)
Trail  == Stored \o buffer
Serial == ~mode.overlap /\ Cardinality(mode.use_batch) = 1 /\ ~failed
HandLinks ==
  \A t \in Threads: pc[t] # "idle" =>
    /\ \A u \in Threads: u # t => pc[u] = "idle"
    /\ entries[mine[t]].run = run
    /\ entries[mine[t]].prev = End(entries, Trail, run)
    /\ last = IF pc[t] = "chained" THEN End(entries, Trail, run) ELSE mine[t]
RestLinks  == (\A t \in Threads: pc[t] = "idle") => last = End(entries, Trail, run)
DirectOnly == TRUE \notin mode.use_batch => buffer = <<>>
LinkInv == /\ DirectOnly
           /\ Serial => Chained(entries, Trail) /\ HandLinks /\ RestLinks

LEMMA ChainExtends ==
  ASSUME NEW es, NEW S, NEW p \in Seq(S), NEW n \in S, Chained(es, p),
         es[n].prev = End(es, p, es[n].run)
  PROVE  /\ Chained(es, p \o <<n>>) /\ End(es, p \o <<n>>, es[n].run) = n
         /\ p \o <<n>> = Append(p, n)
<1> DEFINE q == p \o <<n>>
<1>1. /\ Len(p) \in Nat /\ DOMAIN p = 1..Len(p) /\ q = Append(p, n)
      /\ p # <<>> <=> Len(p) > 0
  BY LenProperties, AppendIsConcat, EmptySeq
<1>2. /\ q \in Seq(S) /\ Len(q) = Len(p) + 1 /\ q[Len(p) + 1] = n /\ q # <<>>
      /\ \A i \in 1..Len(p): q[i] = p[i]
  BY <1>1, AppendProperties
<1>3. DOMAIN q = 1..Len(p) + 1
  BY <1>2, LenProperties
<1> HIDE DEF q
<1>4. ASSUME NEW i \in DOMAIN q
      PROVE  es[q[i]].prev = IF i > 1 /\ es[q[i]].run = es[q[i - 1]].run THEN q[i - 1] ELSE Genesis
  <2>1. CASE i \in 1..Len(p)
    <3>1. q[i] = p[i] /\ (i > 1 => i - 1 \in 1..Len(p) /\ q[i - 1] = p[i - 1])
      BY <1>1, <1>2, <2>1
    <3>2. QED
      BY <1>1, <2>1, <3>1 DEF Chained
  <2>2. CASE i = Len(p) + 1
    <3>1. q[i] = n /\ i - 1 = Len(p) /\ (i > 1 <=> Len(p) > 0) /\ (i > 1 => q[i - 1] = p[Len(p)])
      <4>1. /\ Len(p) \in Nat /\ q[Len(p) + 1] = n /\ i = Len(p) + 1
            /\ \A j \in 1..Len(p): q[j] = p[j]
        BY <1>1, <1>2, <2>2
      <4>2. i - 1 = Len(p) /\ (i > 1 <=> Len(p) > 0) /\ (i > 1 => Len(p) \in 1..Len(p))
        BY ONLY <4>1
      <4>3. QED
        BY ONLY <4>1, <4>2
    <3>2. p # <<>> <=> i > 1
      BY <1>1, <3>1
    <3>3. QED
      BY <3>1, <3>2 DEF End
  <2>3. QED
    BY <1>1, <1>3, <2>1, <2>2
<1>5. End(es, q, es[n].run) = n
  BY <1>2 DEF End
<1>6. QED
  BY <1>1, <1>4, <1>5 DEF Chained, q

LEMMA ChainPrefix ==
  ASSUME NEW es, NEW S, NEW p \in Seq(S), NEW q \in Seq(S), Chained(es, p \o q)
  PROVE  Chained(es, p)
<1> DEFINE r == p \o q
<1>1. /\ Len(p) \in Nat /\ DOMAIN p = 1..Len(p) /\ Len(q) \in Nat
      /\ r \in Seq(S) /\ Len(r) = Len(p) + Len(q)
      /\ \A i \in 1..Len(p) + Len(q): r[i] = IF i <= Len(p) THEN p[i] ELSE q[i - Len(p)]
  BY LenProperties, ConcatProperties
<1>2. DOMAIN r = 1..Len(p) + Len(q)
  BY <1>1, LenProperties
<1> HIDE DEF r
<1>3. ASSUME NEW i \in DOMAIN p
      PROVE  es[p[i]].prev = IF i > 1 /\ es[p[i]].run = es[p[i - 1]].run THEN p[i - 1] ELSE Genesis
  <2>1. i \in DOMAIN r /\ r[i] = p[i] /\ (i > 1 => r[i - 1] = p[i - 1])
    BY <1>1, <1>2
  <2>2. QED
    BY <2>1 DEF Chained, r
<1>4. QED
  BY <1>3 DEF Chained

(* What counts of an entry for the chain is its link and its run.          *)
SameLinks(es, fs, S) == \A n \in S: fs[n].prev = es[n].prev /\ fs[n].run = es[n].run
LEMMA ChainOfSame ==
  ASSUME NEW es, NEW fs, NEW S, NEW p \in Seq(S),
         SameLinks(es, fs, S)
  PROVE  (Chained(es, p) => Chained(fs, p)) /\ \A r: End(fs, p, r) = End(es, p, r)
<1>1. /\ Len(p) \in Nat /\ DOMAIN p = 1..Len(p) /\ \A i \in DOMAIN p: p[i] \in S
      /\ p # <<>> => Len(p) \in DOMAIN p
  BY LenProperties, ElementOfSeq, EmptySeq
<1>2. \A i \in DOMAIN p: i > 1 => i - 1 \in DOMAIN p
  BY <1>1
<1>3. Chained(es, p) => Chained(fs, p)
  BY <1>1, <1>2 DEF Chained, SameLinks
<1>4. QED
  BY <1>1, <1>3 DEF End, SameLinks

LEMMA LinksImplies ==
  ASSUME AuditAssumption, Inv, LinkInv
  PROVE  LinksAreAdjacent
<1>1. SUFFICES ASSUME Serial PROVE Chained(entries, Stored)
  BY DEF LinksAreAdjacent, Serial, Chained
<1>2. Stored \in Seq(1..Len(entries)) /\ buffer \in Seq(1..Len(entries))
  BY DEF Inv, OnePlace, TypeOK
<1>3. QED
  BY <1>1, <1>2, ChainPrefix DEF LinkInv, Trail

LEMMA LinkInit == Init => LinkInv
<1> SUFFICES ASSUME Init PROVE LinkInv
  OBVIOUS
<1>1. Stored = <<>> /\ buffer = <<>> /\ last = Genesis /\ \A t \in Threads: pc[t] = "idle"
  BY DEF Init, Stored
<1>2. Trail = <<>>
  BY <1>1, ConcatEmptySeq, EmptySeq DEF Trail
<1>3. QED
  BY <1>1, <1>2 DEF LinkInv, DirectOnly, Chained, HandLinks, RestLinks, End

(* Short of a failure, a delivery puts its entry at the end of the trail   *)
(* and a flush leaves the trail as it is.                                  *)
LEMMA TrailMoves ==
  ASSUME NEW S, Stored \in Seq(S), buffer \in Seq(S), ~failed'
  PROVE  /\ Trail \in Seq(S)
         /\ FlushMove => Trail' = Trail
         /\ \A n \in S: DeliverMove(n) /\ (Stored' # Stored \o <<n>> \/ buffer' # buffer \/ buffer = <<>>)
                          => Trail' = Trail \o <<n>>
<1>1. Trail \in Seq(S) /\ Stored \o <<>> = Stored
  BY ConcatProperties, ConcatEmptySeq DEF Trail
<1>2. ASSUME FlushMove PROVE Trail' = Trail
  <2>1. Trail' = Trail \o <<>>
    BY <1>2 DEF FlushMove, Trail
  <2>2. QED
    BY <1>1, <2>1, ConcatEmptySeq
<1>3. ASSUME NEW n \in S, DeliverMove(n),
             Stored' # Stored \o <<n>> \/ buffer' # buffer \/ buffer = <<>>
      PROVE  Trail' = Trail \o <<n>>
  <2>1. /\ <<n>> \in Seq(S) /\ Append(buffer, n) = buffer \o <<n>>
        /\ Trail \o <<n>> = Stored \o (buffer \o <<n>>)
    <3>1. <<n>> \in Seq(S) /\ Append(buffer, n) = buffer \o <<n>>
      BY InSmall
    <3>2. QED
      BY <3>1, ConcatAssociative DEF Trail
  <2>2. Stored \o (buffer \o <<n>>) \in Seq(S) /\ Trail \o <<n>> \in Seq(S)
    BY <1>1, <2>1, ConcatProperties
  <2>3. CASE Stored' = Stored /\ buffer' = Append(buffer, n)
    BY <2>1, <2>3 DEF Trail
  <2>4. CASE Stored' = Stored \o Append(buffer, n) /\ buffer' = <<>>
    <3>1. Trail' = (Trail \o <<n>>) \o <<>>
      BY <2>1, <2>4 DEF Trail
    <3>2. QED
      BY <2>2, <3>1, ConcatEmptySeq
  <2>5. CASE Stored' = Stored \o buffer /\ buffer' = <<n>>
    BY <2>5 DEF Trail
  <2>6. CASE Stored' = Stored \o <<n>> /\ buffer' = buffer /\ buffer = <<>>
    <3>1. Trail' = (Stored \o <<n>>) \o <<>> /\ Trail = Stored
      BY <1>1, <2>6 DEF Trail
    <3>2. Stored \o <<n>> \in Seq(S)
      BY <2>1, ConcatProperties
    <3>3. QED
      BY <3>1, <3>2, ConcatEmptySeq
  <2>7. QED
    BY <1>3, <2>3, <2>4, <2>5, <2>6 DEF DeliverMove
<1>4. QED
  BY <1>1, <1>2, <1>3

(* Steps that leave chain and threads alone, but for the fields of entries *)
(* that the chain does not look at.                                        *)
LEMMA LinksUnchanged ==
  ASSUME AuditAssumption, Inv, LinkInv, UNCHANGED <<last, pc, mine, run, mode>>,
         entries' = entries, ~failed' => ~failed /\ Trail' = Trail,
         buffer' = buffer \/ buffer' = <<>>
  PROVE  LinkInv'
<1>1. DirectOnly'
  BY DEF LinkInv, DirectOnly
<1>2. Serial' => Serial /\ Trail' = Trail
  BY DEF Serial
<1>3. ASSUME Serial' PROVE Chained(entries', Trail') /\ HandLinks' /\ RestLinks'
  BY <1>2, <1>3 DEF LinkInv, HandLinks, RestLinks
<1>4. QED
  BY <1>1, <1>3 DEF LinkInv

LEMMA LinkStep == AuditAssumption /\ Inv /\ LinkInv /\ [Next]_vars => LinkInv'
<1> SUFFICES ASSUME AuditAssumption, Inv, LinkInv, [Next]_vars PROVE LinkInv'
  OBVIOUS
<1> DEFINE S == 1..Len(entries)
<1>0. /\ Len(entries) \in Nat /\ DOMAIN entries = S /\ entries \in Seq(Entry)
      /\ Stored \in Seq(S) /\ buffer \in Seq(S) /\ failed \in BOOLEAN /\ failed' \in BOOLEAN
      /\ Trail \in Seq(S)
      /\ pc \in [Threads -> {"idle", "chained", "linked", "keyed", "signed"}]
      /\ mine \in [Threads -> {0} \cup S]
      /\ \A t \in Threads: pc[t] # "idle" => mine[t] \in S
  <2>1. Inv'
    BY InvStep
  <2>2. Stored \in Seq(S) /\ buffer \in Seq(S) /\ failed \in BOOLEAN /\ failed' \in BOOLEAN
    BY <2>1 DEF Inv, OnePlace, TypeOK
  <2>3. Trail \in Seq(S)
    BY <2>2, ConcatProperties DEF Trail
  <2>4. QED
    BY <2>2, <2>3, ParametersOK DEF Inv, OnePlace, TypeOK
<1> HIDE DEF S
<1>1. Serial => Chained(entries, Trail) /\ HandLinks /\ RestLinks
  BY DEF LinkInv
<1>2. ASSUME NEW t \in Threads, StartEntry(t) PROVE LinkInv'
  <2> DEFINE new == [prev |-> last, key |-> 0, keyId |-> Default, run |-> run]
             n == Len(entries) + 1
  <2>1. /\ UNCHANGED <<buffer, disk, failed, mode, run, last>> /\ MayBegin
        /\ pc' = [pc EXCEPT ![t] = "chained"] /\ mine' = [mine EXCEPT ![t] = n]
        /\ entries' = Append(entries, new) /\ new.prev = last /\ new.run = run
    BY <1>2 DEF StartEntry, env, disks
  <2>2. Stored' = Stored /\ Trail' = Trail
    BY <2>1 DEF Stored, Trail
  <2> HIDE DEF new
  <2>3. entries'[n] = new /\ \A m \in S: entries'[m] = entries[m]
    BY <1>0, <2>1 DEF S
  <2>4. /\ Chained(entries, Trail) => Chained(entries', Trail)
        /\ \A r: End(entries', Trail, r) = End(entries, Trail, r)
    <3>1. SameLinks(entries, entries', S)
      BY <2>3 DEF SameLinks
    <3>2. Trail \in Seq(S)
      BY <1>0
    <3>3. QED
      BY ONLY <3>1, <3>2, ChainOfSame
  <2>5. ASSUME Serial PROVE Chained(entries', Trail') /\ HandLinks' /\ RestLinks'
    <3>1. \A u \in Threads: pc[u] = "idle"
      BY <2>1, <2>5 DEF MayBegin, Alone, Serial
    <3>2. last = End(entries, Trail, run)
      BY <1>1, <2>5, <3>1 DEF RestLinks
    <3>3. /\ pc'[t] = "chained" /\ mine'[t] = n
          /\ \A u \in Threads: u # t => pc'[u] = "idle"
      BY <1>0, <2>1, <3>1
    <3>4. entries'[n].prev = last /\ entries'[n].run = run
      BY <2>1, <2>3
    <3>5. HandLinks'
      <4>1. ASSUME NEW u \in Threads, pc'[u] # "idle"
            PROVE  /\ \A v \in Threads: v # u => pc'[v] = "idle"
                   /\ entries'[mine'[u]].run = run'
                   /\ entries'[mine'[u]].prev = End(entries', Trail', run')
                   /\ last' = IF pc'[u] = "chained" THEN End(entries', Trail', run') ELSE mine'[u]
        BY <2>1, <2>2, <2>4, <3>2, <3>3, <3>4, <4>1
      <4>2. QED
        BY <4>1 DEF HandLinks
    <3>6. RestLinks'
      BY <2>1, <2>2, <2>4, <3>2 DEF RestLinks
    <3>7. QED
      BY <1>1, <2>2, <2>4, <2>5, <3>5, <3>6
  <2>6. QED
    BY <2>1, <2>5 DEF LinkInv, DirectOnly, Serial
<1>3. ASSUME NEW t \in Threads, LinkEntry(t) \/ SignEntry(t) \/ NameKey(t) PROVE LinkInv'
  <2>1. /\ UNCHANGED <<mine, buffer, disk, failed, mode, run>>
        /\ pc[t] # "idle" /\ pc'[t] \in {"linked", "keyed", "signed"}
        /\ \A u \in Threads: u # t => pc'[u] = pc[u]
    BY <1>0, <1>3 DEF LinkEntry, SignEntry, NameKey, env, disks
  <2>2. Stored' = Stored /\ Trail' = Trail
    BY <2>1 DEF Stored, Trail
  <2>3. \A m \in S: entries'[m].prev = entries[m].prev /\ entries'[m].run = entries[m].run
    <3>1. mine[t] \in S /\ entries[mine[t]] \in Entry
      BY <1>0, <2>1, ElementOfSeq DEF S
    <3>2. CASE LinkEntry(t)
      BY <3>2 DEF LinkEntry
    <3>3. CASE SignEntry(t)
      <4>1. /\ \A m \in S: m # mine[t] => entries'[m] = entries[m]
            /\ entries'[mine[t]] = [entries[mine[t]] EXCEPT !.key = key]
        BY <1>0, <3>1, <3>3 DEF SignEntry
      <4>2. QED
        BY <3>1, <4>1 DEF Entry
    <3>4. CASE NameKey(t)
      <4>1. /\ \A m \in S: m # mine[t] => entries'[m] = entries[m]
            /\ entries'[mine[t]] = [entries[mine[t]] EXCEPT !.keyId = keyId]
        BY <1>0, <3>1, <3>4 DEF NameKey
      <4>2. QED
        BY <3>1, <4>1 DEF Entry
    <3>5. QED
      BY <1>3, <3>2, <3>3, <3>4
  <2>4. /\ Chained(entries, Trail) => Chained(entries', Trail)
        /\ \A r: End(entries', Trail, r) = End(entries, Trail, r)
    <3>1. Trail \in Seq(S)
      BY <1>0
    <3>2. SameLinks(entries, entries', S)
      BY <2>3 DEF SameLinks
    <3>3. QED
      BY ONLY <3>1, <3>2, ChainOfSame
  <2>5. ASSUME Serial PROVE Chained(entries', Trail') /\ HandLinks' /\ RestLinks'
    <3>1. /\ \A u \in Threads: u # t => pc[u] = "idle"
          /\ entries[mine[t]].run = run /\ entries[mine[t]].prev = End(entries, Trail, run)
          /\ last = IF pc[t] = "chained" THEN End(entries, Trail, run) ELSE mine[t]
      BY <1>1, <2>1, <2>5 DEF HandLinks
    <3>2. last' = mine[t]
      BY <1>3, <3>1 DEF LinkEntry, SignEntry, NameKey
    <3>3. mine[t] \in S
      BY <1>0, <2>1
    <3>4. HandLinks'
      <4>1. ASSUME NEW u \in Threads, pc'[u] # "idle"
            PROVE  /\ \A v \in Threads: v # u => pc'[v] = "idle"
                   /\ entries'[mine'[u]].run = run'
                   /\ entries'[mine'[u]].prev = End(entries', Trail', run')
                   /\ last' = IF pc'[u] = "chained" THEN End(entries', Trail', run') ELSE mine'[u]
        <5>1. u = t
          BY <2>1, <3>1, <4>1
        <5>2. QED
          BY <2>1, <2>2, <2>3, <2>4, <3>1, <3>2, <3>3, <5>1
      <4>2. QED
        BY <4>1 DEF HandLinks
    <3>5. RestLinks'
      BY <2>1 DEF RestLinks
    <3>6. QED
      BY <1>1, <2>2, <2>4, <2>5, <3>4, <3>5
  <2>6. QED
    BY <2>1, <2>5 DEF LinkInv, DirectOnly, Serial
<1>4. ASSUME NEW t \in Threads, NEW ok \in BOOLEAN,
             BufferEntry(t) \/ DeliverToStorage(t, ok) \/ CompleteBatch(t, ok) \/ ForceFlush(t, ok)
      PROVE  LinkInv'
  <2> DEFINE n == mine[t]
  <2>1. /\ UNCHANGED <<entries, last, mode, run>> /\ pc[t] = "signed"
        /\ pc' = [pc EXCEPT ![t] = "idle"]
    BY <1>4 DEF BufferEntry, DeliverToStorage, CompleteBatch, ForceFlush, Deliver, env
  <2>2. n \in S /\ DeliverMove(n)
    BY <1>4, DeliverMoves DEF S
  <2>3. DirectOnly'
    BY <1>4, <2>1 DEF BufferEntry, DeliverToStorage, CompleteBatch, ForceFlush, DirectOnly, LinkInv
  <2>4. ASSUME Serial' PROVE Chained(entries', Trail') /\ HandLinks' /\ RestLinks'
    <3>1. Serial /\ ~failed'
      BY <1>0, <2>1, <2>2, <2>4 DEF Serial, DeliverMove
    <3>2. buffer' # buffer \/ buffer = <<>> \/ DeliverToStorage(t, ok)
      <4>1. CASE BufferEntry(t)
        <5>1. buffer' = Append(buffer, n) /\ Len(buffer') = Len(buffer) + 1 /\ Len(buffer) \in Nat
          BY <1>0, <2>2, <4>1, LenProperties, AppendProperties DEF BufferEntry
        <5>2. QED
          BY <5>1
      <4>2. CASE CompleteBatch(t, ok)
        BY <4>2 DEF CompleteBatch
      <4>3. CASE ForceFlush(t, ok)
        <5>1. buffer' = <<n>> /\ WriteBatch(buffer, ok)
          BY <4>3 DEF ForceFlush
        <5>2. QED
          <6>1. ~In(n, buffer)
            <7>1. mine[t] # 0
              BY <1>0, <2>1, <2>2 DEF S
            <7>2. QED
              BY <7>1 DEF Inv, OnePlace
          <6>2. In(n, buffer')
            BY <5>1, InSmall
          <6>3. QED
            BY <6>1, <6>2
      <4>4. QED
        BY <1>4, <4>1, <4>2, <4>3
    <3>3. DeliverToStorage(t, ok) => buffer = <<>>
      <4>1. SUFFICES ASSUME DeliverToStorage(t, ok) PROVE TRUE \notin mode.use_batch
        BY DEF LinkInv, DirectOnly
      <4>2. FALSE \in mode.use_batch /\ Cardinality(mode.use_batch) = 1 /\ mode.use_batch \subseteq BOOLEAN
        BY <3>1, <4>1 DEF DeliverToStorage, Serial, Inv, TypeOK, AuditAssumption, Mode
      <4>3. IsFiniteSet(mode.use_batch)
        <5>1. BOOLEAN = {FALSE} \cup {TRUE}
          OBVIOUS
        <5>2. IsFiniteSet(BOOLEAN)
          <6>1. IsFiniteSet({FALSE})
            BY FS_Singleton
          <6>2. IsFiniteSet({FALSE} \cup {TRUE})
            BY <6>1, FS_AddElement
          <6>3. QED
            BY <5>1, <6>2
        <5>3. QED
          BY <4>2, <5>2, FS_Subset
      <4>4. \E x: mode.use_batch = {x}
        BY <4>2, <4>3, FS_Singleton
      <4>5. QED
        BY <4>2, <4>4
    <3>4. Trail' = Trail \o <<n>>
      BY <1>0, <2>2, <3>1, <3>2, <3>3, TrailMoves
    <3>5. /\ \A u \in Threads: u # t => pc[u] = "idle"
          /\ entries[n].run = run /\ entries[n].prev = End(entries, Trail, run) /\ last = n
      BY <1>1, <2>1, <3>1 DEF HandLinks
    <3>6. Chained(entries, Trail \o <<n>>) /\ End(entries, Trail \o <<n>>, run) = n
      BY <1>0, <1>1, <2>2, <3>1, <3>5, ChainExtends
    <3>7. \A u \in Threads: pc'[u] = "idle"
      BY <1>0, <2>1, <3>5
    <3>8. QED
      BY <2>1, <3>4, <3>5, <3>6, <3>7 DEF HandLinks, RestLinks
  <2>5. QED
    BY <2>3, <2>4 DEF LinkInv
<1>5. ASSUME NEW ok \in BOOLEAN, FlushLoop(ok) \/ Flush(ok) \/ Stop(ok) PROVE LinkInv'
  <2>1. UNCHANGED <<entries, last, pc, mine, run, mode>>
    BY <1>5 DEF FlushLoop, Flush, Stop, env
  <2>2. CASE FlushBuffer(ok)
    <3>1. FlushMove /\ buffer' = <<>>
      BY <2>1, <2>2, FlushMoves DEF FlushBuffer
    <3>2. ~failed' => ~failed /\ Trail' = Trail
      BY <1>0, <3>1, TrailMoves DEF FlushMove
    <3>3. QED
      BY <2>1, <3>1, <3>2, LinksUnchanged
  <2>3. CASE UNCHANGED <<buffer, disks>>
    BY <2>1, <2>3, LinksUnchanged DEF disks, Trail, Stored
  <2>4. QED
    BY <1>5, <2>2, <2>3 DEF FlushLoop, Flush, Stop
<1>6. CASE StartRotation \/ FinishRotation \/ Tick \/ UNCHANGED vars
  <2>1. UNCHANGED <<entries, last, pc, mine, run, mode, buffer, disk, failed>>
    BY <1>6 DEF StartRotation, FinishRotation, Tick, vars, env, disks
  <2>2. QED
    BY <2>1, LinksUnchanged DEF Trail, Stored
<1>7. CASE Restart
  <2>1. /\ run' = run + 1 /\ UNCHANGED <<entries, failed, mode>> /\ buffer' = <<>> /\ last' = Genesis
        /\ \A t \in Threads: pc'[t] = "idle"
    BY <1>7 DEF Restart
  <2>2. Stored' = Stored
    BY <1>7, TypeParts, RestartDisk DEF Restart, Inv, DiskInv
  <2>3. Trail' = Stored
    BY <1>0, <2>1, <2>2, ConcatEmptySeq DEF Trail
  <2>4. Chained(entries, Trail) => Chained(entries, Stored)
    BY <1>0, ChainPrefix DEF Trail
  <2>5. End(entries, Stored, run + 1) = Genesis
    <3>1. ASSUME Stored # <<>> PROVE entries[Stored[Len(Stored)]].run # run + 1
      <4>1. Len(Stored) \in 1..Len(Stored)
        BY <1>0, <3>1, EmptySeq
      <4>2. Stored[Len(Stored)] \in S
        BY <1>0, <4>1, ElementOfSeq
      <4>3. entries[Stored[Len(Stored)]].run \in Nat /\ run \in Nat
        <5>1. entries[Stored[Len(Stored)]] \in Entry
          BY <1>0, <4>2, ElementOfSeq DEF S
        <5>2. QED
          BY <5>1 DEF Entry, Inv, TypeOK
      <4>4. entries[Stored[Len(Stored)]].run <= run
        BY <1>0, <4>2 DEF Inv, PastRuns
      <4>5. QED
        BY <4>3, <4>4
    <3>2. QED
      BY <3>1 DEF End
  <2>6. QED
    BY <1>1, <2>1, <2>3, <2>4, <2>5 DEF LinkInv, DirectOnly, Serial, HandLinks, RestLinks
<1>8. QED
  BY <1>2, <1>3, <1>4, <1>5, <1>6, <1>7 DEF Next, Log

(* With calls one at a time, all buffered or none, and no failed write,    *)
(* each entry of the files links to the one before it, and the chain       *)
(* starts anew only where the process did.                                 *)
THEOREM LinksStayAdjacent == Spec => []LinksAreAdjacent
<1>1. AuditAssumption /\ Inv /\ LinkInv => LinksAreAdjacent
  BY LinksImplies
<1>2. QED
  BY <1>1, InvInit, InvStep, LinkInit, LinkStep, AuditAssumption, PTL DEF Spec
-----------------------------------------------------------------------------
(* The index: the position counts the lines of the current file, as long   *)
(* as no batch fails and no file name comes twice.                         *)

Found(d, n) == \E i \in LinesIn(d, d.index[n].file):
                 d.lines[i].id = n /\ Position(d, i) = d.index[n].pos
Counted(d)  == d.current # 0 => d.offset = Cardinality(LinesIn(d, d.current))
IndexOK(d)  == Counted(d) /\ \A n \in DOMAIN d.index: Found(d, n)
IndexInv    == clean => IndexOK(disk)

LEMMA LinesFinite ==
  ASSUME NEW d, DiskOK(d), NEW file
  PROVE  /\ Len(d.lines) \in Nat /\ DOMAIN d.lines = 1..Len(d.lines)
         /\ LinesIn(d, file) \subseteq 1..Len(d.lines)
         /\ IsFiniteSet(LinesIn(d, file)) /\ Cardinality(LinesIn(d, file)) \in Nat
<1>1. Len(d.lines) \in Nat /\ DOMAIN d.lines = 1..Len(d.lines)
  BY LenProperties DEF DiskOK
<1>2. IsFiniteSet(1..Len(d.lines))
  <2>1. 1 \in Int /\ Len(d.lines) \in Int
    BY <1>1
  <2>2. QED
    BY ONLY <2>1, FS_Interval
<1>3. LinesIn(d, file) \subseteq 1..Len(d.lines)
  BY <1>1 DEF LinesIn
<1>4. QED
  BY <1>1, <1>2, <1>3, FS_Subset, FS_CardinalityType

LEMMA OpenedIndex ==
  ASSUME DiskInv(disk), second \in Seconds, IndexOK(disk), ~Reopens(disk)
  PROVE  IndexOK(Opened(disk))
<1>1. CASE ShouldRotate(disk)
  <2> DEFINE d == Opened(disk)
  <2>1. /\ d.lines = disk.lines /\ d.index = disk.index /\ d.current = second /\ d.offset = 0
    BY <1>1 DEF Opened, DiskInv, Recorded, Fields
  <2>2. \A file: LinesIn(d, file) = LinesIn(disk, file)
    BY <2>1 DEF LinesIn
  <2>3. \A i: Position(d, i) = Position(disk, i)
    BY <2>1, <2>2 DEF Position
  <2>4. LinesIn(d, second) = {}
    BY <1>1, <2>2 DEF Reopens
  <2> HIDE DEF d
  <2>5. Counted(d)
    BY <2>1, <2>4, FS_EmptySet DEF Counted
  <2>6. ASSUME NEW n \in DOMAIN d.index PROVE Found(d, n)
    <3>1. Found(disk, n)
      BY <2>1 DEF IndexOK
    <3>2. QED
      BY <2>1, <2>2, <2>3, <3>1 DEF Found
  <2>7. QED
    BY <2>5, <2>6 DEF IndexOK, d
<1>2. CASE ~ShouldRotate(disk)
  BY <1>2 DEF Opened
<1>3. QED
  BY <1>1, <1>2

LEMMA WrittenIndex ==
  ASSUME NEW d, DiskInv(d), d.current \in Seconds, NEW ns \in Seq(Ids), IndexOK(d)
  PROVE  IndexOK(Lined(Indexed(d, ns), ns))
<1> DEFINE e == Lined(Indexed(d, ns), ns)
           L == Len(d.lines)
           k == Len(ns)
           old == LinesIn(d, d.current)
           At(n) == [file |-> d.current, pos |-> d.offset + (CHOOSE i \in DOMAIN ns: ns[i] = n) - 1]
           dom   == DOMAIN d.index \cup {ns[i]: i \in DOMAIN ns}
           index == [n \in dom |-> IF In(n, ns) THEN At(n) ELSE d.index[n]]
           new   == [i \in DOMAIN ns |-> [id |-> ns[i], file |-> d.current]]
<1>1. /\ k \in Nat /\ DOMAIN ns = 1..k /\ L \in Nat /\ DOMAIN d.lines = 1..L
      /\ \A file: LinesIn(d, file) \subseteq 1..L
      /\ IsFiniteSet(old) /\ Cardinality(old) \in Nat /\ d.offset = Cardinality(old)
  <2>1. DiskOK(d) /\ d.current # 0
    BY DEF DiskInv, Seconds
  <2>2. d.offset = Cardinality(old)
    BY <2>1 DEF IndexOK, Counted
  <2>3. QED
    BY <2>1, <2>2, LinesFinite, LenProperties
<1>2. /\ e.index = index /\ e.current = d.current /\ e.offset = d.offset + k
      /\ e.lines = d.lines \o new
  <2>1. LET x == Indexed(d, ns)
        IN  /\ x.lines = d.lines /\ x.index = index /\ x.current = d.current
            /\ x.offset = d.offset + k /\ Recorded(x)
    <3>1. Indexed(d, ns) = [d EXCEPT !.offset = d.offset + k, !.index = index]
      BY DEF Indexed
    <3> HIDE DEF index, dom
    <3>2. QED
      BY <3>1 DEF DiskInv, Recorded, Fields
  <2> DEFINE x == Indexed(d, ns)
  <2>2. Lined(x, ns) = [x EXCEPT !.lines = d.lines \o new]
    BY <2>1 DEF Lined
  <2> HIDE DEF x, new, index
  <2>3. QED
    BY <2>1, <2>2 DEF Recorded, Fields, x
<1>3. /\ Len(e.lines) = L + k /\ DOMAIN e.lines = 1..L + k
      /\ \A i \in 1..L: e.lines[i] = d.lines[i]
      /\ \A i \in 1..k: e.lines[L + i].id = ns[i] /\ e.lines[L + i].file = d.current
  <2> DEFINE Line == [id: Ids, file: Seconds]
  <2>1. new \in Seq(Line) /\ Len(new) = k
        /\ \A i \in 1..k: new[i].id = ns[i] /\ new[i].file = d.current
    <3>1. \A i \in 1..k: ns[i] \in Ids
      BY <1>1, ElementOfSeq
    <3>2. new = [i \in 1..k |-> [id |-> ns[i], file |-> d.current]]
      BY <1>1
    <3>3. QED
      BY <1>1, <3>1, <3>2
  <2>2. d.lines \in Seq(Line)
    BY DEF DiskInv, DiskOK
  <2> DEFINE all == d.lines \o new
  <2>3. /\ all \in Seq(Line) /\ Len(all) = L + k
        /\ \A i \in 1..L + k: all[i] = IF i <= L THEN d.lines[i] ELSE new[i - L]
    <3>1. new \in Seq(Line) /\ d.lines \in Seq(Line) /\ Len(new) = k
      BY <2>1, <2>2
    <3> HIDE DEF new, Line, k
    <3>2. /\ all \in Seq(Line) /\ Len(all) = L + Len(new)
          /\ \A i \in 1..L + Len(new): all[i] = IF i <= L THEN d.lines[i] ELSE new[i - L]
      BY <3>1, ConcatProperties
    <3>3. QED
      BY <3>1, <3>2
  <2>4. DOMAIN all = 1..L + k
    BY <2>3, LenProperties
  <2>5. e.lines = all
    BY <1>2
  <2> HIDE DEF all, L, k, new, e
  <2>6. ASSUME NEW i \in 1..k PROVE all[L + i] = new[i]
    <3>1. L + i \in 1..L + k /\ ~(L + i <= L) /\ (L + i) - L = i
      BY <1>1
    <3>2. all[L + i] = new[(L + i) - L]
      BY <2>3, <3>1
    <3>3. QED
      BY <3>1, <3>2
  <2>7. \A i \in 1..L: all[i] = d.lines[i]
    BY <1>1, <2>3
  <2>8. \A i \in 1..k: all[L + i].id = ns[i] /\ all[L + i].file = d.current
    BY <2>1, <2>6
  <2>9. QED
    BY <2>3, <2>4, <2>5, <2>7, <2>8
<1> HIDE DEF e, L, k, index, old
<1>4. /\ \A file: file # d.current => LinesIn(e, file) = LinesIn(d, file)
      /\ LinesIn(e, d.current) = old \cup L + 1..L + k
  <2>1. \A i \in 1..L + k: i \in 1..L \/ (i - L \in 1..k /\ L + (i - L) = i)
    BY <1>1
  <2>2. ASSUME NEW i \in L + 1..L + k
        PROVE  e.lines[i].file = d.current /\ i \in 1..L + k /\ i \notin 1..L
    <3>1. i - L \in 1..k /\ L + (i - L) = i /\ i \in 1..L + k /\ i \notin 1..L
      BY <1>1
    <3>2. e.lines[L + (i - L)].file = d.current
      BY <1>3, <3>1
    <3>3. QED
      BY <3>1, <3>2
  <2>3. \A i \in 1..L: i \in 1..L + k /\ e.lines[i].file = d.lines[i].file
    BY <1>1, <1>3
  <2>4. \A i \in 1..L + k: i \in 1..L \/ i \in L + 1..L + k
    BY <1>1
  <2>5. /\ \A file: LinesIn(e, file) = {i \in 1..L + k: e.lines[i].file = file}
        /\ \A file: LinesIn(d, file) = {i \in 1..L: d.lines[i].file = file}
    BY <1>1, <1>3 DEF LinesIn
  <2>6. ASSUME NEW file, file # d.current PROVE LinesIn(e, file) = LinesIn(d, file)
    <3>1. \A i \in 1..L + k: e.lines[i].file = file => i \in 1..L
      BY <2>2, <2>4, <2>6
    <3>2. {i \in 1..L + k: e.lines[i].file = file} = {i \in 1..L: d.lines[i].file = file}
      BY <2>3, <3>1
    <3>3. QED
      BY <2>5, <3>2
  <2>7. LinesIn(e, d.current) = old \cup L + 1..L + k
    BY <2>2, <2>3, <2>4, <2>5 DEF old
  <2>8. QED
    BY <2>6, <2>7
(* The lines of the current file up to the i-th new one.                   *)
<1>5. ASSUME NEW i \in 0..k
      PROVE  /\ IsFiniteSet(old \cup L + 1..L + i)
             /\ Cardinality(old \cup L + 1..L + i) = d.offset + i
  <2>1. IsFiniteSet(L + 1..L + i) /\ Cardinality(L + 1..L + i) = i
    <3>1. L + 1 \in Int /\ L + i \in Int /\ (L + 1 > L + i <=> i = 0) /\ (L + i) - (L + 1) + 1 = i
      BY <1>1
    <3>2. QED
      BY ONLY <3>1, FS_Interval
  <2>2. old \cap L + 1..L + i = {}
    BY <1>1 DEF old
  <2>3. /\ IsFiniteSet(old \cup L + 1..L + i)
        /\ Cardinality(old \cup L + 1..L + i) = Cardinality(old) + i - Cardinality(old \cap L + 1..L + i)
    <3>1. IsFiniteSet(old)
      BY <1>1
    <3>2. QED
      BY <2>1, <3>1, FS_Union
  <2>4. Cardinality(old \cap L + 1..L + i) = 0
    BY <2>2, FS_EmptySet
  <2>5. QED
    BY <1>1, <2>3, <2>4
<1>6. Counted(e)
  <2>1. e.offset = Cardinality(LinesIn(e, d.current))
    <3>1. k \in 0..k
      BY <1>1
    <3>2. QED
      BY <1>2, <1>4, <1>5, <3>1
  <2>2. QED
    BY <1>2, <2>1 DEF Counted
<1>7. ASSUME NEW n \in dom, In(n, ns) PROVE Found(e, n)
  <2> DEFINE i == CHOOSE j \in DOMAIN ns: ns[j] = n
  <2>1. i \in 1..k /\ ns[i] = n
    BY <1>1, <1>7 DEF In
  <2>2. e.index[n].file = d.current /\ e.index[n].pos = d.offset + i - 1
    BY <1>2, <1>7 DEF index
  <2> HIDE DEF i
  <2>3. L + i \in LinesIn(e, d.current) /\ e.lines[L + i].id = n /\ e.lines[L + i].file = d.current
    <3>1. L + i \in L + 1..L + k
      BY <1>1, <2>1
    <3>2. QED
      BY <1>3, <1>4, <2>1, <3>1
  <2>4. Position(e, L + i) = d.offset + i - 1
    <3>1. {j \in LinesIn(e, d.current): j < L + i} = old \cup L + 1..L + (i - 1)
      <4>1. \A j \in old: j \in 1..L /\ j < L + i
        BY <1>1, <2>1 DEF old
      <4>2. \A j \in L + 1..L + k: j < L + i <=> j \in L + 1..L + (i - 1)
        BY <1>1, <2>1
      <4>3. \A j \in L + 1..L + (i - 1): j \in L + 1..L + k
        BY <1>1, <2>1
      <4>4. QED
        BY <1>4, <4>1, <4>2, <4>3
    <3>2. i - 1 \in 0..k /\ d.offset + (i - 1) = d.offset + i - 1
      BY <1>1, <2>1
    <3>3. QED
      BY <1>5, <2>3, <3>1, <3>2 DEF Position
  <2>5. QED
    BY <2>2, <2>3, <2>4 DEF Found
<1>8. ASSUME NEW n \in dom, ~In(n, ns) PROVE Found(e, n)
  <2>1. n \in DOMAIN d.index /\ e.index[n] = d.index[n]
    BY <1>2, <1>8 DEF In, index
  <2>2. PICK i \in LinesIn(d, d.index[n].file): d.lines[i].id = n /\ Position(d, i) = d.index[n].pos
    BY <2>1 DEF IndexOK, Found
  <2>3. i \in 1..L /\ i \in LinesIn(e, d.index[n].file) /\ e.lines[i] = d.lines[i]
    BY <1>1, <1>3, <1>4, <2>2 DEF old
  <2>4. Position(e, i) = Position(d, i)
    <3>1. {j \in LinesIn(e, d.lines[i].file): j < i} = {j \in LinesIn(d, d.lines[i].file): j < i}
      <4>1. \A j \in L + 1..L + k: ~(j < i)
        BY <1>1, <2>3
      <4>2. QED
        BY <1>4, <4>1 DEF old
    <3>2. QED
      BY <2>3, <3>1 DEF Position
  <2>5. QED
    BY <2>1, <2>2, <2>3, <2>4 DEF Found
<1>9. \A n \in DOMAIN e.index: Found(e, n)
  BY <1>2, <1>7, <1>8 DEF index
<1>10. QED
  BY <1>6, <1>9 DEF IndexOK, e

LEMMA WriteKeepsIndex ==
  ASSUME DiskInv(disk), second \in Seconds, IndexInv, NEW ns \in Seq(Ids), NEW ok \in BOOLEAN,
         \/ WriteBatch(ns, ok)
         \/ \E n \in Ids: ns = <<n>> /\ WriteEntry(n, ok)
  PROVE  IndexInv'
<1> SUFFICES ASSUME clean' PROVE IndexOK(disk')
  BY DEF IndexInv
<1> DEFINE d == Opened(disk)
<1>1. clean /\ ~Reopens(disk) /\ disk' = IF ok THEN Lined(Indexed(d, ns), ns) ELSE d
  <2>1. CASE WriteBatch(ns, ok)
    BY <2>1 DEF WriteBatch
  <2>2. CASE \E n \in Ids: ns = <<n>> /\ WriteEntry(n, ok)
    BY <2>2 DEF WriteEntry
  <2>3. QED
    BY <2>1, <2>2
<1>2. DiskInv(d) /\ d.current \in Seconds /\ IndexOK(d)
  BY <1>1, OpenedOK, OpenedIndex DEF IndexInv
<1> HIDE DEF d
<1>3. QED
  BY <1>1, <1>2, WrittenIndex

LEMMA RestartIndexes ==
  ASSUME DiskInv(disk),
         disk' = [disk EXCEPT !.index = IndexOf(disk), !.current = 0, !.offset = 0]
  PROVE  IndexOK(disk')
<1>1. /\ disk'.lines = disk.lines /\ disk'.index = IndexOf(disk) /\ disk'.current = 0
  BY DEF DiskInv, Recorded, Fields
<1>2. /\ \A file: LinesIn(disk', file) = LinesIn(disk, file)
      /\ \A i: Position(disk', i) = Position(disk, i)
  <2>1. \A file: LinesIn(disk', file) = LinesIn(disk, file)
    BY <1>1 DEF LinesIn
  <2>2. QED
    BY <1>1, <2>1 DEF Position
<1>3. ASSUME NEW n \in DOMAIN disk'.index PROVE Found(disk', n)
  <2> DEFINE i == CHOOSE j \in DOMAIN disk.lines: disk.lines[j].id = n
  <2>1. /\ n \in {disk.lines[j].id: j \in DOMAIN disk.lines}
        /\ disk'.index[n] = [file |-> disk.lines[i].file, pos |-> Position(disk, i)]
    BY <1>1 DEF IndexOf
  <2>2. i \in DOMAIN disk.lines /\ disk.lines[i].id = n
    <3>1. \E j \in DOMAIN disk.lines: disk.lines[j].id = n
      BY <2>1
    <3>2. QED
      BY <3>1
  <2> HIDE DEF i
  <2>3. i \in LinesIn(disk, disk.lines[i].file)
    BY <2>2 DEF LinesIn
  <2>4. QED
    BY <1>1, <1>2, <2>1, <2>2, <2>3 DEF Found
<1>4. QED
  BY <1>1, <1>3 DEF IndexOK, Counted

LEMMA IndexInit == Init => IndexInv
<1> SUFFICES ASSUME Init PROVE IndexInv
  OBVIOUS
<1>1. disk.current = 0 /\ DOMAIN disk.index = {}
  BY DEF Init
<1>2. QED
  BY <1>1 DEF IndexInv, IndexOK, Counted

LEMMA IndexStep == AuditAssumption /\ Inv /\ IndexInv /\ [Next]_vars => IndexInv'
<1> SUFFICES ASSUME AuditAssumption, Inv, IndexInv, [Next]_vars PROVE IndexInv'
  OBVIOUS
<1>0. DiskInv(disk) /\ second \in Seconds /\ buffer \in Seq(Ids) /\ 1..Len(entries) \subseteq Ids
  BY ParametersOK DEF Inv, TypeOK, DiskInv
<1>1. UNCHANGED disks => IndexInv'
  BY DEF disks, IndexInv
<1>2. ASSUME NEW t \in Threads, NEW ok \in BOOLEAN,
             BufferEntry(t) \/ DeliverToStorage(t, ok) \/ CompleteBatch(t, ok) \/ ForceFlush(t, ok)
      PROVE  IndexInv'
  <2> DEFINE n == mine[t]
  <2>1. n \in Ids
    BY <1>0, <1>2, DeliverMoves
  <2> HIDE DEF n
  <2>2. CASE BufferEntry(t)
    BY <1>1, <2>2 DEF BufferEntry
  <2>3. CASE DeliverToStorage(t, ok)
    <3>1. WriteEntry(n, ok) /\ <<n>> \in Seq(Ids)
      BY <2>1, <2>3 DEF DeliverToStorage, n
    <3>2. QED
      BY <1>0, <2>1, <3>1, WriteKeepsIndex
  <2>4. CASE CompleteBatch(t, ok)
    <3>1. WriteBatch(Append(buffer, n), ok) /\ Append(buffer, n) \in Seq(Ids)
      BY <1>0, <2>1, <2>4 DEF CompleteBatch, n
    <3>2. QED
      BY <1>0, <3>1, WriteKeepsIndex
  <2>5. CASE ForceFlush(t, ok)
    BY <1>0, <2>5, WriteKeepsIndex DEF ForceFlush
  <2>6. QED
    BY <1>2, <2>2, <2>3, <2>4, <2>5
<1>3. ASSUME NEW ok \in BOOLEAN, FlushLoop(ok) \/ Flush(ok) \/ Stop(ok) PROVE IndexInv'
  <2>1. CASE FlushBuffer(ok)
    BY <1>0, <2>1, WriteKeepsIndex DEF FlushBuffer
  <2>2. QED
    BY <1>1, <1>3, <2>1 DEF FlushLoop, Flush, Stop
<1>4. CASE Restart
  <2>1. IndexOK(disk')
    BY <1>0, <1>4, RestartIndexes DEF Restart
  <2>2. QED
    BY <2>1 DEF IndexInv
<1>5. ASSUME NEW t \in Threads, StartEntry(t) \/ LinkEntry(t) \/ SignEntry(t) \/ NameKey(t)
      PROVE  IndexInv'
  BY <1>1, <1>5 DEF StartEntry, LinkEntry, SignEntry, NameKey
<1>6. CASE StartRotation \/ FinishRotation \/ Tick \/ UNCHANGED vars
  BY <1>1, <1>6 DEF StartRotation, FinishRotation, Tick, vars, disks
<1>7. QED
  BY <1>2, <1>3, <1>4, <1>5, <1>6 DEF Next, Log

(* While no batch fails and no file name comes twice, the index leads to   *)
(* the line of the entry that was asked for, through single writes,        *)
(* batches, changes of file and restarts.                                  *)
THEOREM IndexFindsEntries == Spec => []ReadFindsEntry
<1>1. IndexInv => ReadFindsEntry
  BY DEF IndexInv, IndexOK, Found, ReadFindsEntry
<1>2. QED
  BY <1>1, InvInit, InvStep, IndexInit, IndexStep, AuditAssumption, PTL DEF Spec
================================================================================
