------------------------------ MODULE MCAuditTrail ------------------------------
(* Values for the constants of AuditTrail: calls that overlap and that do   *)
(* not, written directly, buffered or both, with a batch that fills up      *)
(* before the buffer and a buffer that does before the batch.               *)
EXTENDS AuditTrail

CONSTANTS t1, t2
MCThreads == {t1, t2}
MCSizes == {<<2, 3>>, <<3, 2>>}
MCMode(o, b, z) ==
  [overlap |-> o, use_batch |-> b, batch_size |-> z[1], max_buffer_size |-> z[2],
   rotations |-> IF o THEN 0 ELSE 2, restarts |-> 1]
MCModes ==
  {MCMode(o, b, z): o \in BOOLEAN, b \in {{TRUE}, {TRUE, FALSE}}, z \in MCSizes}
    \cup {MCMode(o, {FALSE}, <<2, 3>>): o \in BOOLEAN}
================================================================================
