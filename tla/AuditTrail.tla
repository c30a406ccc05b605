------------------------------- MODULE AuditTrail -------------------------------
(***************************************************************************)
(* The audit log of model decisions: threads that log (link the entry to   *)
(* the hash chain, sign it, write or buffer it), the key rotation, the     *)
(* batch writer with its flush loop, and the append-only files with their  *)
(* index.  Only the buffer and the files are under a lock: chain and key   *)
(* are read and written by every thread as it comes.                       *)
(* An entry is named by the order of creation, its hash by the entry.      *)
(***************************************************************************)
EXTENDS Integers, Sequences, FiniteSets

CONSTANTS Threads,      \* threads that log decisions
          Modes,        \* how the log is configured and used
          FileLines,    \* lines that make a file reach max_file_size_mb
          MaxEntries,   \* bound: decisions logged
          MaxSecond     \* bound: the clock, in seconds

(* overlap: do log calls and rotations of several threads run at a time?   *)
(* rotations and restarts bound how many of them there are.                *)
Mode == [overlap: BOOLEAN, use_batch: SUBSET BOOLEAN \ {{}},
         batch_size: Nat \ {0}, max_buffer_size: Nat \ {0}, rotations: Nat, restarts: Nat]

ASSUME AuditAssumption ==
  /\ Modes \subseteq Mode
  /\ "rotator" \notin Threads
  /\ FileLines \in Nat \ {0}
  /\ MaxEntries \in Nat /\ MaxSecond \in Nat \ {0}

VARIABLES mode,     \* chosen at the start
          entries,  \* what each entry was made with, by creation
          last,     \* HashChain._last_hash: an entry, or 0 for the genesis hash
          key,      \* CryptographicSigner.signing_key
          keyId,    \* CryptographicSigner.key_id: 0 is "default", s is "key-<s>"
          history,  \* _key_history: the key of each id
          rotating, \* the id rotate_key has yet to set, or -1
          pc,       \* where each thread is, in log_decision or rotate_key
          mine,     \* the entry each thread is making
          buffer,   \* BatchAuditWriter._buffer
          running,  \* does the flush loop run?
          disk,     \* the files, their index and the position for the next line
          second,   \* the clock
          clean,    \* has every line gone where the index says, since the start?
          run,      \* starts of the process so far
          failed    \* has a write failed?

signer == <<key, keyId, history, rotating>>
env    == <<mode, second, run>>
vars   == <<entries, last, signer, pc, mine, buffer, running, disk, clean, failed, env>>

Genesis  == 0
Default  == 0
Seconds  == 1..MaxSecond
Ids      == 1..MaxEntries
Keys     == Nat \ {0}
KeyIds   == {Default} \cup Seconds
Entry    == [prev: {Genesis} \cup Ids, key: Nat, keyId: KeyIds, run: Nat]
Location == [file: Seconds, pos: Nat]
DiskOK(d) == /\ d.lines \in Seq([id: Ids, file: Seconds])
             /\ DOMAIN d.index \subseteq Ids /\ d.index \in [DOMAIN d.index -> Location]
             /\ d.current \in {0} \cup Seconds /\ d.offset \in Nat

TypeOK ==
  /\ mode \in Modes
  /\ entries \in Seq(Entry) /\ Len(entries) <= MaxEntries
  /\ last \in {Genesis} \cup 1..Len(entries)
  /\ key \in Keys /\ keyId \in KeyIds /\ rotating \in Seconds \cup {-1}
  /\ DOMAIN history \subseteq KeyIds /\ history \in [DOMAIN history -> Keys]
  /\ pc \in [Threads -> {"idle", "chained", "linked", "keyed", "signed"}]
  /\ mine \in [Threads -> {0} \cup 1..Len(entries)]
  /\ buffer \in Seq(1..Len(entries))
  /\ Len(buffer) < mode.batch_size /\ Len(buffer) <= mode.max_buffer_size
  /\ running \in BOOLEAN /\ clean \in BOOLEAN /\ failed \in BOOLEAN
  /\ DiskOK(disk)
  /\ second \in Seconds /\ run \in Nat \ {0}

In(n, s) == \E i \in DOMAIN s: s[i] = n
Stored  == [i \in DOMAIN disk.lines |-> disk.lines[i].id]

-----------------------------------------------------------------------------
(* LocalAppendOnlyStorage *)

LinesIn(d, file)  == {i \in DOMAIN d.lines: d.lines[i].file = file}
(* How far into its file a line is.                                        *)
Position(d, i) == Cardinality({j \in LinesIn(d, d.lines[i].file): j < i})

(* _initialize_index                                                       *)
IndexOf(d) == [n \in {d.lines[i].id: i \in DOMAIN d.lines} |->
                 LET i == CHOOSE j \in DOMAIN d.lines: d.lines[j].id = n
                 IN  [file |-> d.lines[i].file, pos |-> Position(d, i)]]

(* _get_current_file: a file is named after the second in which it was     *)
(* opened, and the position starts from 0 also when it is there already.   *)
ShouldRotate(d) == d.current = 0 \/ LinesIn(d, d.current) = {}
                     \/ Cardinality(LinesIn(d, d.current)) >= FileLines
Opened(d) == IF ShouldRotate(d) THEN [d EXCEPT !.current = second, !.offset = 0] ELSE d
Reopens(d) == ShouldRotate(d) /\ LinesIn(d, second) # {}

(* Mutant: the position is taken after the batch.                          *)
IndexedAfterwards(d, ns) ==
  [d EXCEPT !.offset = @ + Len(ns),
            !.index = [n \in DOMAIN @ \cup {ns[i]: i \in DOMAIN ns} |->
                         IF In(n, ns) THEN [file |-> d.current, pos |-> d.offset + Len(ns) - 1] ELSE @[n]]]

(* The index and the position are brought up to date before the lines of a *)
(* batch are written, and stay when that fails.                            *)
Indexed(d, ns) ==
  [d EXCEPT !.offset = @ + Len(ns),
            !.index = [n \in DOMAIN @ \cup {ns[i]: i \in DOMAIN ns} |->
                         IF In(n, ns) THEN [file |-> d.current,
                                            pos  |-> d.offset + (CHOOSE i \in DOMAIN ns: ns[i] = n) - 1]
                                      ELSE @[n]]]

Lined(d, ns) ==
  [d EXCEPT !.lines = @ \o [i \in DOMAIN ns |-> [id |-> ns[i], file |-> d.current]]]

(* write, which indexes the entry only once it is in the file.             *)
WriteEntry(n, ok) ==
  /\ disk' = IF ok THEN Lined(Indexed(Opened(disk), <<n>>), <<n>>) ELSE Opened(disk)
  /\ clean' = (clean /\ ~Reopens(disk))
  /\ failed' = (failed \/ ~ok)

WriteBatch(ns, ok) ==
  /\ disk' = IF ok THEN Lined(Indexed(Opened(disk), ns), ns) ELSE Indexed(Opened(disk), ns)
  /\ clean' = (clean /\ ok /\ ~Reopens(disk))
  /\ failed' = (failed \/ ~ok)

disks == <<disk, clean, failed>>

Init ==
  /\ mode \in Modes
  /\ entries = <<>> /\ last = Genesis
  /\ key = 1 /\ keyId = Default /\ history = [i \in {Default} |-> 1] /\ rotating = -1
  /\ pc = [t \in Threads |-> "idle"] /\ mine = [t \in Threads |-> 0]
  /\ buffer = <<>> /\ running = TRUE
  /\ disk = [lines |-> <<>>, index |-> [n \in {} |-> 0], current |-> 0, offset |-> 0]
  /\ second = 1 /\ run = 1
  /\ clean = TRUE /\ failed = FALSE

-----------------------------------------------------------------------------
(* log_decision *)

Alone == rotating = -1 /\ \A t \in Threads: pc[t] = "idle"
MayBegin == mode.overlap \/ Alone

(* The entry is created, and add_entry reads _last_hash into it.           *)
StartEntry(t) ==
  /\ pc[t] = "idle" /\ MayBegin
  /\ Len(entries) < MaxEntries
  /\ entries' = Append(entries, [prev |-> last, key |-> 0, keyId |-> Default, run |-> run])
  /\ mine' = [mine EXCEPT ![t] = Len(entries) + 1]
  /\ pc' = [pc EXCEPT ![t] = "chained"]
  /\ UNCHANGED <<last, signer, buffer, running, disks, env>>

(* Mutant: the chain keeps the first hash it was given.                     *)
LinkEntryOnce(t) ==
  /\ pc[t] = "chained"
  /\ last' = IF last = Genesis THEN mine[t] ELSE last
  /\ pc' = [pc EXCEPT ![t] = "linked"]
  /\ UNCHANGED <<entries, signer, mine, buffer, running, disks, env>>

LinkEntry(t) ==
  /\ pc[t] = "chained"
  /\ last' = mine[t]
  /\ pc' = [pc EXCEPT ![t] = "linked"]
  /\ UNCHANGED <<entries, signer, mine, buffer, running, disks, env>>

(* sign reads the key first and its id afterwards.                         *)
SignEntry(t) ==
  /\ pc[t] = "linked"
  /\ entries' = [entries EXCEPT ![mine[t]].key = key]
  /\ pc' = [pc EXCEPT ![t] = "keyed"]
  /\ UNCHANGED <<last, signer, mine, buffer, running, disks, env>>

NameKey(t) ==
  /\ pc[t] = "keyed"
  /\ entries' = [entries EXCEPT ![mine[t]].keyId = keyId]
  /\ pc' = [pc EXCEPT ![t] = "signed"]
  /\ UNCHANGED <<last, signer, mine, buffer, running, disks, env>>

Deliver(t) ==
  /\ pc[t] = "signed"
  /\ pc' = [pc EXCEPT ![t] = "idle"]
  /\ mine' = [mine EXCEPT ![t] = 0]
  /\ UNCHANGED <<entries, last, signer, running, env>>

DeliverToStorage(t, ok) ==
  /\ FALSE \in mode.use_batch
  /\ Deliver(t)
  /\ WriteEntry(mine[t], ok)
  /\ UNCHANGED buffer

(* Mutant: a batch is taken as full one entry late.                        *)
BufferEntryLate(t) ==
  /\ TRUE \in mode.use_batch
  /\ Deliver(t)
  /\ Len(buffer) < mode.max_buffer_size
  /\ Len(buffer) + 1 <= mode.batch_size
  /\ buffer' = Append(buffer, mine[t])
  /\ UNCHANGED disks

(* BatchAuditWriter.add, under the lock of the writer: a buffer that is    *)
(* full is flushed before, one that makes a batch is flushed after.        *)
BufferEntry(t) ==
  /\ TRUE \in mode.use_batch
  /\ Deliver(t)
  /\ Len(buffer) < mode.max_buffer_size
  /\ Len(buffer) + 1 < mode.batch_size
  /\ buffer' = Append(buffer, mine[t])
  /\ UNCHANGED disks

CompleteBatch(t, ok) ==
  /\ TRUE \in mode.use_batch
  /\ Deliver(t)
  /\ Len(buffer) < mode.max_buffer_size
  /\ Len(buffer) + 1 >= mode.batch_size
  /\ buffer' = <<>>
  /\ WriteBatch(Append(buffer, mine[t]), ok)

(* Mutant: the entry is dropped when the buffer is full.                   *)
ForceFlushOnly(t, ok) ==
  /\ TRUE \in mode.use_batch
  /\ Deliver(t)
  /\ Len(buffer) >= mode.max_buffer_size
  /\ buffer' = <<>>
  /\ WriteBatch(buffer, ok)

ForceFlush(t, ok) ==
  /\ TRUE \in mode.use_batch
  /\ Deliver(t)
  /\ Len(buffer) >= mode.max_buffer_size
  /\ buffer' = <<mine[t]>>
  /\ WriteBatch(buffer, ok)

(* Mutants: the buffer is not cleared, and is left to fill up.             *)
FlushAgain(ok) ==
  /\ buffer # <<>>
  /\ UNCHANGED buffer
  /\ WriteBatch(buffer, ok)
FlushFullBuffer(ok) ==
  /\ Len(buffer) + 1 >= mode.batch_size
  /\ buffer' = <<>>
  /\ WriteBatch(buffer, ok)

(* _flush_buffer, by the loop, by flush or by stop.                        *)
FlushBuffer(ok) ==
  /\ buffer # <<>>
  /\ buffer' = <<>>
  /\ WriteBatch(buffer, ok)

FlushLoop(ok) ==
  /\ running
  /\ FlushBuffer(ok)
  /\ UNCHANGED <<entries, last, signer, pc, mine, running, env>>

Flush(ok) ==
  /\ FlushBuffer(ok)
  /\ UNCHANGED <<entries, last, signer, pc, mine, running, env>>

(* stop ends the loop and flushes what is there; what is added afterwards  *)
(* waits for a full batch.                                                 *)
Stop(ok) ==
  /\ running
  /\ running' = FALSE
  /\ FlushBuffer(ok) \/ (buffer = <<>> /\ UNCHANGED <<buffer, disks>>)
  /\ UNCHANGED <<entries, last, signer, pc, mine, env>>

(* Mutant: the new key replaces the one that the id in use stands for.     *)
StartRotationInPlace ==
  /\ rotating = -1 /\ MayBegin
  /\ key < mode.rotations + run
  /\ key' = key + 1
  /\ history' = [history EXCEPT ![keyId] = key + 1]
  /\ rotating' = second
  /\ UNCHANGED <<entries, last, keyId, pc, mine, buffer, running, disks, env>>

(* rotate_key: the new key is known and used before its id is.             *)
StartRotation ==
  /\ rotating = -1 /\ MayBegin
  /\ key < mode.rotations + run
  /\ key' = key + 1
  /\ history' = [i \in DOMAIN history \cup {second} |-> IF i = second THEN key + 1 ELSE history[i]]
  /\ rotating' = second
  /\ UNCHANGED <<entries, last, keyId, pc, mine, buffer, running, disks, env>>

FinishRotation ==
  /\ rotating # -1
  /\ keyId' = rotating
  /\ rotating' = -1
  /\ UNCHANGED <<entries, last, key, history, pc, mine, buffer, running, disks, env>>

(* The process dies and create_default starts again over the same files,   *)
(* with a new chain and a new key; calls under way and the buffer are gone.*)
Restart ==
  /\ run <= mode.restarts
  /\ run' = run + 1
  /\ last' = Genesis
  /\ key' = key + 1 /\ keyId' = Default /\ history' = [i \in {Default} |-> key + 1]
  /\ rotating' = -1
  /\ pc' = [t \in Threads |-> "idle"] /\ mine' = [t \in Threads |-> 0]
  /\ buffer' = <<>> /\ running' = TRUE
  /\ disk' = [disk EXCEPT !.index = IndexOf(disk), !.current = 0, !.offset = 0]
  /\ clean' = TRUE
  /\ UNCHANGED <<entries, failed, mode, second>>

Tick ==
  /\ second < MaxSecond
  /\ second' = second + 1
  /\ UNCHANGED <<entries, last, signer, pc, mine, buffer, running, disks, mode, run>>

Log(t) ==
  \/ StartEntry(t) \/ LinkEntry(t) \/ SignEntry(t) \/ NameKey(t) \/ BufferEntry(t)
  \/ \E ok \in BOOLEAN: DeliverToStorage(t, ok) \/ CompleteBatch(t, ok) \/ ForceFlush(t, ok)

Next ==
  \/ \E t \in Threads: Log(t)
  \/ \E ok \in BOOLEAN: FlushLoop(ok) \/ Flush(ok) \/ Stop(ok)
  \/ StartRotation \/ FinishRotation
  \/ Restart
  \/ Tick

(* While it runs, the flush loop comes round every flush_interval_seconds. *)
Fairness == WF_vars(\E ok \in BOOLEAN: FlushLoop(ok))

Spec == Init /\ [][Next]_vars /\ Fairness
-----------------------------------------------------------------------------
(* Every interleaving of threads, flushes, failures and crashes is one of  *)
(* AuditLog: no entry is kept twice, out of the order of the buffer, or    *)
(* removed or replaced once it is in a file.                               *)
Abstract == INSTANCE AuditLog WITH stored <- Stored, pending <- buffer
IsAuditLog == Abstract!Spec

(* Short of a failed write or a crash nothing is lost: what this process   *)
(* logged is in a file, in the buffer, or still in the hands of a thread.  *)
NothingDropped ==
  ~failed => \A n \in DOMAIN entries:
    entries[n].run = run => \/ In(n, Stored) \/ In(n, buffer)
                            \/ \E t \in Threads: mine[t] = n

(* Calls one at a time, all of them buffered or none, and no failed write: *)
(* each entry in the files links to the one before (914), and the chain    *)
(* starts anew only where the process did.                                 *)
LinksAreAdjacent ==
  ~mode.overlap /\ Cardinality(mode.use_batch) = 1 /\ ~failed =>
    \A i \in DOMAIN Stored:
      entries[Stored[i]].prev =
        IF i > 1 /\ entries[Stored[i]].run = entries[Stored[i - 1]].run THEN Stored[i - 1] ELSE Genesis

(* Rotations one at a time with the calls, and at most one in a second:    *)
(* what this process signed still verifies after any number of them.       *)
SignaturesVerify ==
  ~mode.overlap /\ Cardinality(DOMAIN history) = key - history[Default] + 1 =>
    \A n \in DOMAIN entries:
      entries[n].run = run /\ (In(n, Stored) \/ In(n, buffer))
        => history[entries[n].keyId] = entries[n].key

(* Unless a batch failed or a file name came twice since the start, the    *)
(* index leads to the entry that was asked for, through rotations of the   *)
(* file and restarts.                                                      *)
ReadFindsEntry ==
  clean => \A n \in DOMAIN disk.index:
    \E i \in LinesIn(disk, disk.index[n].file):
      disk.lines[i].id = n /\ Position(disk, i) = disk.index[n].pos

(* Nothing waits for ever in the buffer of a writer that runs, however few *)
(* decisions follow (1671).                                                *)
BufferIsFlushed ==
  \A n \in Ids: In(n, buffer) /\ running ~> ~In(n, buffer) \/ ~running
================================================================================
