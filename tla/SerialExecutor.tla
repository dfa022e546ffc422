--------------------------- MODULE SerialExecutor ---------------------------
(***************************************************************************)
(* What the asynchronous database promises whoever queues an operation: it *)
(* is executed once, and operations with the same non-zero serial id are   *)
(* executed in the order they were queued.  Operations with serial id 0    *)
(* are executed in any order.                                              *)
(***************************************************************************)
EXTENDS Naturals

CONSTANT Op  \* records with an id, growing in queueing order, and a serial

VARIABLE pending  \* the operations queued and not executed yet

Init == pending = {}

Queue(op) ==
  /\ \A q \in pending : q.id < op.id
  /\ pending' = pending \cup {op}

Execute(op) ==
  /\ op \in pending
  /\ op.serial # 0 => \A q \in pending : q.serial = op.serial => op.id <= q.id
  /\ pending' = pending \ {op}

Next == \E op \in Op : Queue(op) \/ Execute(op)

Spec == Init /\ [][Next]_pending
=============================================================================
