------------------------ MODULE AsyncDatabaseProofs ------------------------
(***************************************************************************)
(* The queues of the asynchronous database keep the order of every serial  *)
(* id and are empty when the workers are gone: proofs of ImplementsExecutor*)
(* and HaltDrains, for any number of workers, producers, serial ids and    *)
(* operations.                                                             *)
(***************************************************************************)
EXTENDS AsyncDatabase, TLAPS

USE DatabaseAssumption DEF Worker

Stations == {"loop", "shared", "serial", "executeShared", "executeSerial",
             "doneShared", "doneSerial", "exited", "gone"}

\* The part of TypeOK the queues depend on.
QueueType ==
  /\ trans \in [Producer -> Serial \cup {0, None}]
  /\ delayQueue \in Seq(Op)
  /\ serialQueue \in [Worker -> Seq(Op)]
  /\ pc \in [Worker -> Stations]
  /\ hand \in [Worker -> {<<>>} \cup {<<op>> : op \in Op}]
  /\ next \in Nat \ {0}

\* Who works when, and what a worker holds.
StageInv ==
  /\ numWorkers = IF main \in {"cancel", "stopped"} THEN 0 ELSE Workers
  /\ main \in {"join", "drain"} => Workers # 0
  /\ main \in {"cancel", "stopped"} => \A w \in Worker : pc[w] = "gone"
  /\ \A w \in Worker :
       pc[w] \in {"executeShared", "executeSerial", "doneShared", "doneSerial"} =>
         hand[w] \in {<<op>> : op \in Op}

Ascending(queue) == \A i, j \in 1..Len(queue) : i < j => queue[i].id < queue[j].id

\* What may be in the serial queue of w.
Belongs(op, w) == op.serial # 0 /\ op.serial % Workers = w /\ op.kind # "notify"

\* Each queue is in queueing order, each operation in the queue of its serial id,
\* and what a worker executes was queued before what it left in the queue.
OrderInv ==
  /\ Ascending(delayQueue)
  /\ \A op \in ToSet(delayQueue) : op.id < next /\ (numWorkers # 0 => op.serial = 0)
  /\ \A w \in Worker :
       /\ Ascending(serialQueue[w])
       /\ \A op \in ToSet(serialQueue[w]) : op.id < next /\ Belongs(op, w)
       /\ pc[w] = "executeShared" =>
            /\ Current(w).id < next /\ Current(w).serial = 0
            /\ \A op \in ToSet(delayQueue) : Current(w).id < op.id
            /\ \A v \in Worker \ {w} : pc[v] = "executeShared" => Current(v) # Current(w)
       /\ pc[w] = "executeSerial" =>
            /\ Current(w).id < next
            /\ \A op \in ToSet(serialQueue[w]) : Current(w).id < op.id
       /\ pc[w] \in {"executeSerial", "doneSerial"} => Belongs(Current(w), w)

\* While the bodies are destroyed: one after the other, and whoever left the
\* shared queue left it empty for good.
Late == {"serial", "executeSerial", "doneSerial", "loop", "gone"}

DrainInv ==
  main = "drain" =>
    /\ \A v, w \in Worker : v < w => pc[v] = "gone" \/ pc[w] = "exited"
    /\ \A w \in Worker : pc[w] \in {"loop", "gone"} => serialQueue[w] = <<>>
    /\ (\E w \in Worker : pc[w] \in Late) =>
         /\ delayQueue = <<>>
         /\ \A w \in Worker : pc[w] \notin {"executeShared", "doneShared"}

QueueInv == QueueType /\ StageInv /\ OrderInv /\ DrainInv

----------------------------------------------------------------------------
\* Appending an operation adds it to the queue's elements; it keeps the order if it
\* is the newest.
LEMMA AppendedOp ==
  ASSUME NEW q \in Seq(Op), NEW op \in Op
  PROVE  /\ Append(q, op) \in Seq(Op)
         /\ ToSet(Append(q, op)) = ToSet(q) \cup {op}
         /\ ToSet(q) \subseteq Op
         /\ Ascending(q) /\ (\A x \in ToSet(q) : x.id < op.id) => Ascending(Append(q, op))
<1>1. /\ Append(q, op) \in Seq(Op) /\ Len(q) \in Nat /\ Len(Append(q, op)) = Len(q) + 1
      /\ \A i \in 1..Len(q) : Append(q, op)[i] = q[i] /\ q[i] \in Op
      /\ Append(q, op)[Len(q) + 1] = op
      /\ DOMAIN q = 1..Len(q) /\ DOMAIN Append(q, op) = 1..(Len(q) + 1)
  OBVIOUS
<1> DEFINE r == Append(q, op)
           n == Len(q)
<1> HIDE DEF r, n
<1>2. /\ n \in Nat /\ Len(r) = n + 1 /\ DOMAIN r = 1..(n + 1) /\ DOMAIN q = 1..n
      /\ r[n + 1] = op /\ \A i \in 1..n : r[i] = q[i] /\ q[i] \in Op
  BY <1>1 DEF r, n
<1>3. ToSet(r) = ToSet(q) \cup {op} /\ ToSet(q) \subseteq Op
  BY <1>2 DEF ToSet
<1>4. ASSUME Ascending(q), \A x \in ToSet(q) : x.id < op.id
      PROVE  Ascending(r)
  <2>1. ASSUME NEW i \in 1..(n + 1), NEW j \in 1..(n + 1), i < j
        PROVE  r[i].id < r[j].id
    <3>1. i \in 1..n /\ q[i] \in ToSet(q) /\ r[i] = q[i]
      BY <1>2, <2>1 DEF ToSet
    <3>2. CASE j = n + 1
      BY <1>2, <1>4, <3>1, <3>2
    <3>3. CASE j # n + 1
      BY <1>2, <1>4, <2>1, <3>1, <3>3 DEF Ascending, n
    <3> QED
      BY <3>2, <3>3
  <2> QED
    BY <1>2, <2>1 DEF Ascending
<1> QED
  BY <1>1, <1>3, <1>4 DEF r

\* Taking the head of an ordered queue takes its oldest element, which is not
\* left in it.
LEMMA PoppedOp ==
  ASSUME NEW q \in Seq(Op), q # <<>>, Ascending(q)
  PROVE  /\ Head(q) \in Op /\ Tail(q) \in Seq(Op) /\ Ascending(Tail(q))
         /\ ToSet(q) = ToSet(Tail(q)) \cup {Head(q)}
         /\ \A x \in ToSet(Tail(q)) : Head(q).id < x.id
<1> DEFINE r == Tail(q)
           n == Len(q)
<1>1. /\ n \in Nat \ {0} /\ r \in Seq(Op) /\ Len(r) = n - 1 /\ Head(q) = q[1]
      /\ DOMAIN q = 1..n /\ DOMAIN r = 1..(n - 1)
      /\ \A i \in 1..(n - 1) : r[i] = q[i + 1]
      /\ \A i \in 1..n : q[i] \in Op
  OBVIOUS
<1> HIDE DEF r, n
<1>2. \A i \in 1..(n - 1) : i + 1 \in 1..n /\ q[1].id < q[i + 1].id
  BY <1>1 DEF Ascending, n
<1>3. Ascending(r)
  <2> SUFFICES ASSUME NEW i \in 1..(n - 1), NEW j \in 1..(n - 1), i < j
               PROVE  r[i].id < r[j].id
    BY <1>1 DEF Ascending
  <2>1. i + 1 \in 1..n /\ j + 1 \in 1..n /\ i + 1 < j + 1
    BY <1>1
  <2>2. q[i + 1].id < q[j + 1].id
    BY <2>1 DEF Ascending, n
  <2> QED
    BY <1>1, <2>2
<1>4. ToSet(q) = ToSet(r) \cup {Head(q)}
  <2>1. ToSet(q) \subseteq ToSet(r) \cup {Head(q)}
    <3> SUFFICES ASSUME NEW i \in 1..n, i # 1 PROVE q[i] \in ToSet(r)
      BY <1>1 DEF ToSet
    <3>1. i - 1 \in 1..(n - 1) /\ (i - 1) + 1 = i
      BY <1>1
    <3>2. r[i - 1] = q[i]
      BY <1>1, <3>1
    <3> QED
      BY <1>1, <3>1, <3>2 DEF ToSet
  <2>2. ToSet(r) \cup {Head(q)} \subseteq ToSet(q)
    BY <1>1, <1>2 DEF ToSet
  <2> QED
    BY <2>1, <2>2
<1>5. \A x \in ToSet(r) : Head(q).id < x.id
  BY <1>1, <1>2 DEF ToSet
<1> QED
  BY <1>1, <1>3, <1>4, <1>5 DEF r

\* An empty queue has no elements.
LEMMA EmptyQueue == ToSet(<<>>) = {} /\ Ascending(<<>>) /\ <<>> \in Seq(Op)
<1>1. Len(<<>>) = 0 /\ DOMAIN <<>> = {} /\ <<>> \in Seq(Op)
  OBVIOUS
<1> QED
  BY <1>1 DEF ToSet, Ascending

----------------------------------------------------------------------------
\* A worker's current operation is one of the operations.
LEMMA CurrentOp ==
  ASSUME QueueInv, NEW w \in Worker,
         pc[w] \in {"executeShared", "executeSerial", "doneShared", "doneSerial"}
  PROVE  Current(w) \in Op /\ hand[w] = <<Current(w)>>
<1>1. PICK op \in Op : hand[w] = <<op>>
  BY DEF QueueInv, StageInv
<1> QED
  BY <1>1 DEF Current

\* Nothing is taken from a queue, and no worker begins an operation.
Aside ==
  \A w \in Worker :
    \/ pc'[w] = pc[w] /\ hand'[w] = hand[w]
    \/ pc'[w] \notin {"executeShared", "executeSerial", "doneSerial"}
    \/ pc[w] = "executeSerial" /\ pc'[w] = "doneSerial" /\ hand'[w] = hand[w]

\* The order is kept when the queues get newer operations at most.
LEMMA AsideKeepsOrder ==
  ASSUME QueueInv, QueueType', Aside, next' >= next, numWorkers' \in {0, numWorkers},
         Ascending(delayQueue'),
         \A op \in ToSet(delayQueue') : op \in ToSet(delayQueue) \/
           (op.id >= next /\ op.id < next' /\ (numWorkers' # 0 => op.serial = 0)),
         \A w \in Worker : Ascending(serialQueue'[w]),
         \A w \in Worker : \A op \in ToSet(serialQueue'[w]) : op \in ToSet(serialQueue[w]) \/
           (op.id >= next /\ op.id < next' /\ Belongs(op, w))
  PROVE  OrderInv'
<1>1. next \in Nat /\ next' \in Nat /\ \A op \in Op : op.id \in Nat
  BY DEF QueueInv, QueueType, Op, Id
<1>2. /\ ToSet(delayQueue') \subseteq Op /\ ToSet(delayQueue) \subseteq Op
      /\ \A w \in Worker : ToSet(serialQueue'[w]) \subseteq Op /\ ToSet(serialQueue[w]) \subseteq Op
  BY DEF QueueInv, QueueType, ToSet
<1>3. \A op \in ToSet(delayQueue') : op.id < next' /\ (numWorkers' # 0 => op.serial = 0)
  BY <1>1, <1>2 DEF QueueInv, OrderInv
<1>4. ASSUME NEW w \in Worker
      PROVE  \A op \in ToSet(serialQueue'[w]) : op.id < next' /\ Belongs(op, w)
  BY <1>1, <1>2 DEF QueueInv, OrderInv
<1>5. ASSUME NEW w \in Worker, pc'[w] \in {"executeShared", "executeSerial", "doneSerial"}
      PROVE  /\ pc[w] = pc'[w] \/ (pc[w] = "executeSerial" /\ pc'[w] = "doneSerial")
             /\ hand'[w] = hand[w] /\ Current(w)' = Current(w) /\ Current(w) \in Op
  <2>1. /\ pc[w] = pc'[w] \/ (pc[w] = "executeSerial" /\ pc'[w] = "doneSerial")
        /\ hand'[w] = hand[w]
    BY <1>5 DEF Aside
  <2>2. Current(w)' = Current(w)
    BY <2>1 DEF Current
  <2> QED
    BY <1>5, <2>1, <2>2, CurrentOp
<1>6. ASSUME NEW w \in Worker, pc'[w] = "executeShared"
      PROVE  /\ Current(w)'.id < next' /\ Current(w)'.serial = 0
             /\ \A op \in ToSet(delayQueue') : Current(w)'.id < op.id
             /\ \A v \in Worker \ {w} : pc'[v] = "executeShared" => Current(v)' # Current(w)'
  <2>1. pc[w] = "executeShared" /\ Current(w)' = Current(w) /\ Current(w).id \in Nat
    BY <1>1, <1>5, <1>6
  <2>2. /\ Current(w).id < next /\ Current(w).serial = 0
        /\ \A op \in ToSet(delayQueue) : Current(w).id < op.id
        /\ \A v \in Worker \ {w} : pc[v] = "executeShared" => Current(v) # Current(w)
    BY <2>1 DEF QueueInv, OrderInv
  <2>3. \A op \in ToSet(delayQueue') : Current(w).id < op.id
    BY <1>1, <1>2, <2>1, <2>2
  <2>4. ASSUME NEW v \in Worker \ {w}, pc'[v] = "executeShared"
        PROVE  Current(v)' # Current(w)'
    <3>1. pc[v] = "executeShared" /\ Current(v)' = Current(v)
      BY <1>5, <2>4
    <3> QED
      BY <2>1, <2>2, <3>1
  <2> QED
    BY <1>1, <2>1, <2>2, <2>3, <2>4
<1>7. ASSUME NEW w \in Worker, pc'[w] = "executeSerial"
      PROVE  /\ Current(w)'.id < next'
             /\ \A op \in ToSet(serialQueue'[w]) : Current(w)'.id < op.id
  <2>1. pc[w] = "executeSerial" /\ Current(w)' = Current(w) /\ Current(w).id \in Nat
    BY <1>1, <1>5, <1>7
  <2>2. /\ Current(w).id < next
        /\ \A op \in ToSet(serialQueue[w]) : Current(w).id < op.id
    BY <2>1 DEF QueueInv, OrderInv
  <2>3. \A op \in ToSet(serialQueue'[w]) : Current(w).id < op.id
    BY <1>1, <1>2, <2>1, <2>2
  <2> QED
    BY <1>1, <2>1, <2>2, <2>3
<1>8. ASSUME NEW w \in Worker, pc'[w] \in {"executeSerial", "doneSerial"}
      PROVE  Belongs(Current(w)', w)
  <2>1. pc[w] \in {"executeSerial", "doneSerial"} /\ Current(w)' = Current(w)
    BY <1>5, <1>8
  <2> QED
    BY <2>1 DEF QueueInv, OrderInv
<1> QED
  BY <1>3, <1>4, <1>6, <1>7, <1>8 DEF OrderInv

----------------------------------------------------------------------------
(* Queueing. *)

\* An operation in the shared queue: any while there are no workers, else one
\* without a serial id.
LEMMA EnqueueShared ==
  ASSUME QueueInv, NEW op \in Op, op.id = next, numWorkers # 0 => op.serial = 0,
         AddToDelayQueue(op), Aside, numWorkers' = numWorkers,
         trans' \in [Producer -> Serial \cup {0, None}], pc' \in [Worker -> Stations],
         hand' \in [Worker -> {<<>>} \cup {<<o>> : o \in Op}]
  PROVE  QueueType' /\ OrderInv'
<1>1. /\ next' = next + 1 /\ delayQueue' = Append(delayQueue, op)
      /\ serialQueue' = serialQueue /\ next \in Nat \ {0}
      /\ delayQueue \in Seq(Op) /\ Ascending(delayQueue)
      /\ \A x \in ToSet(delayQueue) : x.id < op.id
  BY DEF AddToDelayQueue, QueueInv, QueueType, OrderInv
<1>2. /\ delayQueue' \in Seq(Op) /\ Ascending(delayQueue')
      /\ ToSet(delayQueue') = ToSet(delayQueue) \cup {op}
  BY <1>1, AppendedOp
<1>3. QueueType'
  BY <1>1, <1>2 DEF QueueInv, QueueType
<1>4. \A w \in Worker : Ascending(serialQueue'[w])
  BY <1>1 DEF QueueInv, OrderInv
<1> QED
  BY <1>1, <1>2, <1>3, <1>4, AsideKeepsOrder

\* Every serial id has a worker.
LEMMA SerialWorker ==
  ASSUME NEW op \in Op, Workers # 0
  PROVE  op.serial % Workers \in Worker
<1>1. op.serial \in Serial \cup {0}
  BY DEF Op
<1>2. Serial \cup {0} \subseteq Nat
  OBVIOUS
<1>3. \A n \in Nat : n % Workers \in 0..(Workers - 1)
  OBVIOUS
<1>4. op.serial \in Nat
  BY <1>1, <1>2, Zenon
<1> QED
  BY <1>3, <1>4

\* An operation in the queue its serial id asks for.
LEMMA EnqueueSerial ==
  ASSUME QueueInv, NEW op \in Op, op.id = next, op.kind # "notify",
         AddToSerialDelayQueue(op), numWorkers' = numWorkers,
         trans' \in [Producer -> Serial \cup {0, None}], UNCHANGED <<pc, hand>>
  PROVE  QueueType' /\ OrderInv'
<1>1. Aside /\ pc' \in [Worker -> Stations] /\ hand' \in [Worker -> {<<>>} \cup {<<o>> : o \in Op}]
  BY DEF Aside, QueueInv, QueueType
<1>2. CASE op.serial = 0 \/ numWorkers = 0
  <2>1. AddToDelayQueue(op)
    BY <1>2 DEF AddToSerialDelayQueue
  <2> QED
    BY <1>1, <1>2, <2>1, EnqueueShared
<1>3. CASE ~(op.serial = 0 \/ numWorkers = 0)
  <2> DEFINE w == op.serial % Workers
  <2>1. numWorkers = Workers /\ Workers # 0
    BY <1>3 DEF QueueInv, StageInv
  <2>2. w \in Worker
    BY <2>1, SerialWorker
  <2>3. /\ next' = next + 1 /\ delayQueue' = delayQueue /\ next \in Nat \ {0}
        /\ serialQueue' = [serialQueue EXCEPT ![w] = Append(@, op)]
    BY <1>3, <2>1 DEF AddToSerialDelayQueue, QueueInv, QueueType
  <2> HIDE DEF w
  <2>4. /\ serialQueue \in [Worker -> Seq(Op)] /\ serialQueue[w] \in Seq(Op)
        /\ Ascending(serialQueue[w]) /\ \A x \in ToSet(serialQueue[w]) : x.id < op.id
    BY <2>2 DEF QueueInv, QueueType, OrderInv
  <2>5. /\ serialQueue'[w] = Append(serialQueue[w], op)
        /\ \A v \in Worker \ {w} : serialQueue'[v] = serialQueue[v]
    BY <2>2, <2>3, <2>4
  <2>6. /\ serialQueue'[w] \in Seq(Op) /\ Ascending(serialQueue'[w])
        /\ ToSet(serialQueue'[w]) = ToSet(serialQueue[w]) \cup {op}
    BY <2>4, <2>5, AppendedOp
  <2>7. serialQueue' \in [Worker -> Seq(Op)]
    BY <2>2, <2>3, <2>4, <2>5, <2>6
  <2>8. QueueType'
    BY <1>1, <2>3, <2>7 DEF QueueInv, QueueType
  <2>9. Belongs(op, w)
    BY <1>3 DEF Belongs, w
  <2>10. /\ \A v \in Worker : Ascending(serialQueue'[v])
         /\ \A v \in Worker : \A o \in ToSet(serialQueue'[v]) : o \in ToSet(serialQueue[v]) \/
              (o.id >= next /\ o.id < next' /\ Belongs(o, v))
    BY <2>3, <2>5, <2>6, <2>9 DEF QueueInv, OrderInv
  <2>11. Ascending(delayQueue')
    BY <2>3 DEF QueueInv, OrderInv
  <2> QED
    BY <1>1, <2>3, <2>8, <2>10, <2>11, AsideKeepsOrder
<1> QED
  BY <1>2, <1>3

\* The operations that are queued are operations.
LEMMA NewOpType ==
  ASSUME QueueInv, next <= MaxOp, NEW s \in Serial \cup {0}, NEW k \in Kind \cup {"write"}
  PROVE  NewOp(s, k) \in Op /\ NewOp(s, k).id = next /\ NewOp(s, k).kind = k
         /\ NewOp(s, k).serial = s
BY DEF NewOp, Op, Id, QueueInv, QueueType

\* A step of a thread that queues operations keeps the invariant.
LEMMA ProducerKeeps ==
  ASSUME QueueInv, NEW p \in Producer, ProducerStep(p)
  PROVE  QueueInv'
<1>1. MayQueue(p) /\ UNCHANGED <<pc, hand, numWorkers, main>>
  BY DEF ProducerStep, Execute, CommitTransaction, RollbackTransaction, AsyncQuery,
     BeginTransaction, DelayQueryHolder, workerVars
<1>2. main # "drain"
  BY <1>1 DEF MayQueue
<1>3. StageInv' /\ DrainInv'
  BY <1>1, <1>2 DEF QueueInv, StageInv, DrainInv
<1> SUFFICES QueueType' /\ OrderInv'
  BY <1>3 DEF QueueInv
<1>4. /\ Aside /\ pc' \in [Worker -> Stations]
      /\ hand' \in [Worker -> {<<>>} \cup {<<o>> : o \in Op}]
      /\ trans \in [Producer -> Serial \cup {0, None}]
  BY <1>1 DEF Aside, QueueInv, QueueType
<1>5. ASSUME UNCHANGED <<next, delayQueue, serialQueue>>,
             trans' \in [Producer -> Serial \cup {0, None}]
      PROVE  QueueType' /\ OrderInv'
  <2>1. QueueType'
    BY <1>4, <1>5 DEF QueueInv, QueueType
  <2>2. next' >= next
    BY <1>5 DEF QueueInv, QueueType
  <2>3. Ascending(delayQueue') /\ \A w \in Worker : Ascending(serialQueue'[w])
    BY <1>5 DEF QueueInv, OrderInv
  <2> QED
    BY <1>1, <1>4, <1>5, <2>1, <2>2, <2>3, AsideKeepsOrder
<1>6. ASSUME NEW k \in Kind, AddToDelayQueue(NewOp(0, k)), trans' = trans
      PROVE  QueueType' /\ OrderInv'
  <2>1. next <= MaxOp
    BY <1>6 DEF AddToDelayQueue
  <2> QED
    BY <1>1, <1>4, <1>6, <2>1, NewOpType, EnqueueShared
<1>7. ASSUME NEW s \in Serial \cup {0}, NEW k \in Kind \cup {"write"}, k # "notify",
             AddToSerialDelayQueue(NewOp(s, k)), trans' \in [Producer -> Serial \cup {0, None}]
      PROVE  QueueType' /\ OrderInv'
  <2>1. next <= MaxOp
    BY <1>7 DEF AddToSerialDelayQueue, AddToDelayQueue
  <2> QED
    BY <1>1, <1>7, <2>1, NewOpType, EnqueueSerial
<1>8. CASE Execute(p)
  BY <1>6, <1>8 DEF Execute
<1>9. CASE AsyncQuery(p)
  BY <1>6, <1>9 DEF AsyncQuery
<1>10. CASE CommitTransaction(p)
  <2>1. trans[p] \in Serial \cup {0} /\ trans' \in [Producer -> Serial \cup {0, None}]
    BY <1>4, <1>10 DEF CommitTransaction
  <2>2. CASE allowAsync
    BY <1>7, <1>10, <2>1, <2>2 DEF CommitTransaction
  <2>3. CASE ~allowAsync
    BY <1>5, <1>10, <2>1, <2>3 DEF CommitTransaction, queueVars
  <2> QED
    BY <2>2, <2>3
<1>11. CASE RollbackTransaction(p)
  BY <1>4, <1>5, <1>11 DEF RollbackTransaction, queueVars
<1>12. ASSUME NEW s \in Serial \cup {0}, BeginTransaction(p, s)
       PROVE  QueueType' /\ OrderInv'
  <2>1. trans' \in [Producer -> Serial \cup {0, None}]
    BY <1>4, <1>12 DEF BeginTransaction
  <2> QED
    BY <1>5, <1>12, <2>1 DEF BeginTransaction, queueVars
<1>13. ASSUME NEW s \in Serial \cup {0}, DelayQueryHolder(p, s)
       PROVE  QueueType' /\ OrderInv'
  <2>1. PICK k \in {"safe", "unsafe"} \cap Kind : AddToSerialDelayQueue(NewOp(s, k))
    BY <1>13 DEF DelayQueryHolder
  <2>2. trans' \in [Producer -> Serial \cup {0, None}]
    BY <1>4, <1>13 DEF DelayQueryHolder
  <2> QED
    BY <1>7, <2>1, <2>2
<1> QED
  BY <1>8, <1>9, <1>10, <1>11, <1>12, <1>13 DEF ProducerStep

----------------------------------------------------------------------------
(* The workers. *)

\* Where a worker still works, so do the others, and the number of workers is known.
LEMMA AtWork ==
  ASSUME QueueInv, NEW w \in Worker, pc[w] # "gone"
  PROVE  main \notin {"cancel", "stopped"} /\ numWorkers = Workers /\ Workers # 0
<1>1. main \notin {"cancel", "stopped"}
  BY DEF QueueInv, StageInv
<1>2. Workers # 0
  OBVIOUS
<1> QED
  BY <1>1, <1>2 DEF QueueInv, StageInv

\* One worker's step keeps the drain's invariant if the shared queue stays empty
\* once a worker has left it.
LEMMA DrainStep ==
  ASSUME QueueInv, NEW w \in Worker, pc[w] \notin {"gone", "exited"},
         NEW l \in Stations, pc' = [pc EXCEPT ![w] = l], main' = main,
         \A v \in Worker \ {w} : serialQueue'[v] = serialQueue[v],
         main = "drain" =>
           /\ l # "exited"
           /\ l \in {"loop", "gone"} => serialQueue'[w] = <<>>
           /\ l \in Late \/ (\E v \in Worker \ {w} : pc[v] = "gone") =>
                delayQueue' = <<>> /\ l \notin {"executeShared", "doneShared"}
  PROVE  DrainInv'
<1> SUFFICES ASSUME main = "drain"
             PROVE  DrainInv'
  BY DEF DrainInv
<1>1. pc'[w] = l /\ \A v \in Worker \ {w} : pc'[v] = pc[v]
  BY DEF QueueInv, QueueType
<1>2. \A v \in Worker \ {w} : (v < w => pc[v] = "gone") /\ (w < v => pc[v] = "exited")
  BY DEF QueueInv, DrainInv
<1>3. \A v \in Worker \ {w} : pc[v] \in {"gone", "exited"}
  BY <1>2
<1>4. \A v, u \in Worker : v < u => pc'[v] = "gone" \/ pc'[u] = "exited"
  BY <1>1, <1>2 DEF QueueInv, DrainInv
<1>5. \A v \in Worker : pc'[v] \in {"loop", "gone"} => serialQueue'[v] = <<>>
  BY <1>1 DEF QueueInv, DrainInv
<1>6. ASSUME NEW v \in Worker, pc'[v] \in Late
      PROVE  delayQueue' = <<>> /\ \A u \in Worker : pc'[u] \notin {"executeShared", "doneShared"}
  <2>1. l \in Late \/ (\E u \in Worker \ {w} : pc[u] = "gone")
    BY <1>1, <1>3, <1>6 DEF Late
  <2> QED
    BY <1>1, <1>3, <2>1
<1> QED
  BY <1>4, <1>5, <1>6 DEF DrainInv

\* A step that changes one worker's place, and what it holds at most by dropping it,
\* keeps the queues and the stages.
LEMMA PlaceStep ==
  ASSUME QueueInv, NEW w \in Worker, pc[w] \notin {"gone", "exited"},
         NEW l \in Stations \ {"executeShared", "executeSerial"},
         pc' = [pc EXCEPT ![w] = l],
         l = "doneSerial" => pc[w] = "executeSerial",
         l = "doneShared" => pc[w] = "executeShared",
         hand' \in {hand, [hand EXCEPT ![w] = <<>>]},
         l \in {"doneSerial", "doneShared"} => hand' = hand,
         UNCHANGED <<main, numWorkers>>
  PROVE  /\ Aside /\ StageInv' /\ pc' \in [Worker -> Stations]
         /\ hand' \in [Worker -> {<<>>} \cup {<<op>> : op \in Op}]
<1>1. /\ pc \in [Worker -> Stations] /\ pc' \in [Worker -> Stations]
      /\ pc'[w] = l /\ \A v \in Worker \ {w} : pc'[v] = pc[v]
  BY DEF QueueInv, QueueType
<1>2. hand \in [Worker -> {<<>>} \cup {<<op>> : op \in Op}]
  BY DEF QueueInv, QueueType
<1>3. /\ hand' \in [Worker -> {<<>>} \cup {<<op>> : op \in Op}]
      /\ \A v \in Worker \ {w} : hand'[v] = hand[v]
  BY <1>2
<1>4. Aside
  BY <1>1, <1>3 DEF Aside
<1>5. main \notin {"cancel", "stopped"}
  BY AtWork
<1>6. ASSUME NEW v \in Worker,
             pc'[v] \in {"executeShared", "executeSerial", "doneShared", "doneSerial"}
      PROVE  hand'[v] \in {<<op>> : op \in Op}
  BY <1>1, <1>3, <1>6 DEF QueueInv, StageInv
<1>7. StageInv'
  BY <1>5, <1>6 DEF QueueInv, StageInv
<1> QED
  BY <1>1, <1>3, <1>4, <1>7

\* Nothing queued: the order is kept.
LEMMA QuietStep ==
  ASSUME QueueInv, Aside, UNCHANGED <<delayQueue, serialQueue, next, trans>>,
         numWorkers' \in {0, numWorkers}, pc' \in [Worker -> Stations],
         hand' \in [Worker -> {<<>>} \cup {<<op>> : op \in Op}]
  PROVE  QueueType' /\ OrderInv'
<1>1. QueueType'
  BY DEF QueueInv, QueueType
<1>2. next' >= next
  BY DEF QueueInv, QueueType
<1>3. Ascending(delayQueue') /\ \A w \in Worker : Ascending(serialQueue'[w])
  BY DEF QueueInv, OrderInv
<1> QED
  BY <1>1, <1>2, <1>3, AsideKeepsOrder

\* The loop of run() ends, in the drain, only with empty queues.
LEMMA LoopKeeps ==
  ASSUME QueueInv, NEW w \in Worker, Loop(w)
  PROVE  QueueInv'
<1> DEFINE l == IF running[w] THEN "shared" ELSE IF main = "drain" THEN "gone" ELSE "exited"
<1>1. /\ pc[w] = "loop" /\ pc' = [pc EXCEPT ![w] = l]
      /\ UNCHANGED <<hand, delayQueue, serialQueue, next, trans, main, numWorkers>>
  BY DEF Loop, Goto, clientVars, queueVars
<1>2. l \in {"shared", "gone", "exited"} /\ (main = "drain" => l # "exited")
  OBVIOUS
<1> HIDE DEF l
<1>3. main = "drain" => delayQueue = <<>> /\ serialQueue[w] = <<>>
  BY <1>1 DEF QueueInv, DrainInv, Late
<1>4. DrainInv'
  BY <1>1, <1>2, <1>3, DrainStep DEF Stations
<1>5. /\ Aside /\ StageInv' /\ pc' \in [Worker -> Stations]
      /\ hand' \in [Worker -> {<<>>} \cup {<<op>> : op \in Op}]
  BY <1>1, <1>2, PlaceStep DEF Stations
<1> QED
  BY <1>1, <1>4, <1>5, QuietStep DEF QueueInv

\* An operation is executed by the worker that holds it.
LEMMA ExecuteKeeps ==
  ASSUME QueueInv, NEW w \in Worker, ExecuteOperation(w)
  PROVE  QueueInv'
<1> DEFINE l == IF pc[w] = "executeShared" THEN "doneShared" ELSE "doneSerial"
<1>1. /\ pc[w] \in {"executeShared", "executeSerial"} /\ pc' = [pc EXCEPT ![w] = l]
      /\ UNCHANGED <<hand, delayQueue, serialQueue, next, trans, main, numWorkers>>
  BY DEF ExecuteOperation, Goto, clientVars, queueVars
<1>2. /\ l \in {"doneShared", "doneSerial"}
      /\ l = "doneShared" <=> pc[w] = "executeShared"
  OBVIOUS
<1> HIDE DEF l
<1>3. /\ main = "drain" /\ l = "doneSerial" => delayQueue = <<>>
      /\ main = "drain" /\ l = "doneShared" => \A v \in Worker : pc[v] # "gone"
  BY <1>1, <1>2 DEF QueueInv, DrainInv, Late
<1>4. DrainInv'
  <2>1. ASSUME main = "drain", l \in Late \/ (\E v \in Worker \ {w} : pc[v] = "gone")
        PROVE  delayQueue' = <<>> /\ l \notin {"executeShared", "doneShared"}
    BY <1>1, <1>2, <1>3, <2>1 DEF Late
  <2> QED
    BY <1>1, <1>2, <2>1, DrainStep DEF Stations
<1>5. /\ Aside /\ StageInv' /\ pc' \in [Worker -> Stations]
      /\ hand' \in [Worker -> {<<>>} \cup {<<op>> : op \in Op}]
  BY <1>1, <1>2, PlaceStep DEF Stations
<1> QED
  BY <1>1, <1>4, <1>5, QuietStep DEF QueueInv

\* What an operation queues when it is done goes to the shared queue, and never
\* after the drain has left it.
LEMMA FinishKeeps ==
  ASSUME QueueInv, NEW w \in Worker, Finish(w)
  PROVE  QueueInv'
<1> DEFINE l == IF pc[w] = "doneShared" THEN "shared" ELSE "serial"
<1>1. /\ pc[w] \in {"doneShared", "doneSerial"} /\ pc' = [pc EXCEPT ![w] = l]
      /\ hand' = [hand EXCEPT ![w] = <<>>] /\ UNCHANGED <<trans, main, numWorkers>>
  BY DEF Finish, Goto
<1>2. l \in {"shared", "serial"} /\ (l = "shared" <=> pc[w] = "doneShared")
  OBVIOUS
<1> HIDE DEF l
<1>3. /\ Aside /\ StageInv' /\ pc' \in [Worker -> Stations]
      /\ hand' \in [Worker -> {<<>>} \cup {<<op>> : op \in Op}]
  BY <1>1, <1>2, PlaceStep DEF Stations
<1>4. CASE Current(w).kind = "notify" /\ next <= MaxOp
  <2>1. AddToDelayQueue(NewOp(0, "write")) /\ serialQueue' = serialQueue
    BY <1>4 DEF Finish, AddToDelayQueue
  <2>2. QueueType' /\ OrderInv'
    <3>1. /\ NewOp(0, "write") \in Op /\ NewOp(0, "write").id = next
          /\ NewOp(0, "write").serial = 0
      BY <1>4, NewOpType
    <3>2. trans' \in [Producer -> Serial \cup {0, None}]
      BY <1>1 DEF QueueInv, QueueType
    <3> QED
      BY <1>1, <1>3, <2>1, <3>1, <3>2, EnqueueShared
  <2>3. l = "shared"
    BY <1>1, <1>2, <1>4 DEF QueueInv, OrderInv, Belongs
  <2>4. main = "drain" => \A v \in Worker : pc[v] # "gone"
    BY <1>1, <1>2, <2>3 DEF QueueInv, DrainInv, Late
  <2>5. DrainInv'
    <3>1. l \notin Late
      BY <2>3 DEF Late
    <3> QED
      BY <1>1, <2>1, <2>3, <2>4, <3>1, DrainStep DEF Stations
  <2> QED
    BY <1>3, <2>2, <2>5 DEF QueueInv
<1>5. CASE ~(Current(w).kind = "notify" /\ next <= MaxOp)
  <2>1. UNCHANGED <<next, delayQueue, serialQueue>>
    BY <1>5 DEF Finish, queueVars
  <2>2. QueueType' /\ OrderInv'
    BY <1>1, <1>3, <2>1, QuietStep
  <2>3. /\ main = "drain" /\ l = "serial" => delayQueue = <<>>
        /\ main = "drain" /\ l = "shared" => \A v \in Worker : pc[v] # "gone"
    BY <1>1, <1>2 DEF QueueInv, DrainInv, Late
  <2>4. DrainInv'
    <3>1. ASSUME main = "drain", l \in Late \/ (\E v \in Worker \ {w} : pc[v] = "gone")
          PROVE  delayQueue' = <<>> /\ l \notin {"executeShared", "doneShared"}
      BY <1>2, <2>1, <2>3, <3>1 DEF Late
    <3> QED
      BY <1>1, <1>2, <2>1, <3>1, DrainStep DEF Stations
  <2> QED
    BY <1>3, <2>2, <2>4 DEF QueueInv
<1> QED
  BY <1>4, <1>5

\* What a worker takes from the shared queue is older than what it leaves there.
LEMMA NextSharedKeeps ==
  ASSUME QueueInv, NEW w \in Worker, NextShared(w)
  PROVE  QueueInv'
<1>1. /\ pc[w] = "shared" /\ UNCHANGED <<serialQueue, next, trans, main, numWorkers>>
      /\ pc \in [Worker -> Stations] /\ hand \in [Worker -> {<<>>} \cup {<<op>> : op \in Op}]
      /\ delayQueue \in Seq(Op) /\ Ascending(delayQueue)
  BY DEF NextShared, clientVars, queueVars, QueueInv, QueueType, OrderInv
<1>2. main \notin {"cancel", "stopped"} /\ numWorkers # 0
  BY <1>1, AtWork
<1>3. CASE delayQueue = <<>>
  <2>1. pc' = [pc EXCEPT ![w] = "serial"] /\ UNCHANGED <<hand, delayQueue>>
    BY <1>3 DEF NextShared, Goto, queueVars
  <2>2. DrainInv'
    BY <1>1, <1>3, <2>1, DrainStep DEF Stations
  <2>3. /\ Aside /\ StageInv' /\ pc' \in [Worker -> Stations]
        /\ hand' \in [Worker -> {<<>>} \cup {<<op>> : op \in Op}]
    BY <1>1, <2>1, PlaceStep DEF Stations
  <2> QED
    BY <1>1, <2>1, <2>2, <2>3, QuietStep DEF QueueInv
<1>4. CASE delayQueue # <<>>
  <2> DEFINE h == Head(delayQueue)
  <2>1. /\ pc' = [pc EXCEPT ![w] = "executeShared"] /\ delayQueue' = Tail(delayQueue)
        /\ hand' = [hand EXCEPT ![w] = <<h>>]
    BY <1>4 DEF NextShared, Goto
  <2>2. /\ h \in Op /\ delayQueue' \in Seq(Op) /\ Ascending(delayQueue')
        /\ ToSet(delayQueue) = ToSet(delayQueue') \cup {h}
        /\ \A op \in ToSet(delayQueue') : h.id < op.id
    BY <1>1, <1>4, <2>1, PoppedOp
  <2> HIDE DEF h
  <2>3. /\ pc'[w] = "executeShared" /\ hand'[w] = <<h>> /\ Current(w)' = h
        /\ \A v \in Worker \ {w} : pc'[v] = pc[v] /\ hand'[v] = hand[v]
                                   /\ Current(v)' = Current(v)
        /\ pc' \in [Worker -> Stations]
        /\ hand' \in [Worker -> {<<>>} \cup {<<op>> : op \in Op}]
    BY <1>1, <2>1, <2>2 DEF Stations, Current
  <2>4. QueueType'
    BY <1>1, <2>2, <2>3 DEF QueueInv, QueueType
  <2>5. StageInv'
    BY <1>1, <1>2, <2>2, <2>3 DEF QueueInv, StageInv
  <2>6. DrainInv'
    <3>1. main = "drain" => \A v \in Worker : pc[v] # "gone"
      BY <1>4 DEF QueueInv, DrainInv, Late
    <3>2. "executeShared" \notin Late
      BY DEF Late
    <3> QED
      BY <1>1, <2>1, <3>1, <3>2, DrainStep DEF Stations
  <2>7. h.id < next /\ h.serial = 0
    BY <1>2, <2>2 DEF QueueInv, OrderInv
  <2>8. ASSUME NEW v \in Worker \ {w}, pc[v] = "executeShared"
        PROVE  Current(v) # h
    <3>1. Current(v).id < h.id /\ Current(v) \in Op
      BY <2>2, <2>8, CurrentOp DEF QueueInv, OrderInv
    <3> QED
      BY <2>2, <3>1 DEF Op, Id
  <2>9. \A op \in ToSet(delayQueue') : op.id < next' /\ (numWorkers' # 0 => op.serial = 0)
    BY <1>1, <2>2 DEF QueueInv, OrderInv
  <2>10. ASSUME NEW v \in Worker, pc'[v] = "executeShared"
         PROVE  /\ Current(v)'.id < next' /\ Current(v)'.serial = 0
                /\ \A op \in ToSet(delayQueue') : Current(v)'.id < op.id
                /\ \A u \in Worker \ {v} : pc'[u] = "executeShared" => Current(u)' # Current(v)'
    <3>1. CASE v = w
      BY <1>1, <2>2, <2>3, <2>7, <2>8, <3>1
    <3>2. CASE v # w
      <4>1. pc[v] = "executeShared" /\ Current(v)' = Current(v) /\ Current(v) # h
        BY <2>3, <2>8, <2>10, <3>2
      <4>2. /\ Current(v).id < next /\ Current(v).serial = 0
            /\ \A op \in ToSet(delayQueue) : Current(v).id < op.id
            /\ \A u \in Worker \ {v} : pc[u] = "executeShared" => Current(u) # Current(v)
        BY <4>1 DEF QueueInv, OrderInv
      <4>3. \A u \in Worker \ {v} : pc'[u] = "executeShared" => Current(u)' # Current(v)'
        BY <2>3, <4>1, <4>2
      <4> QED
        BY <1>1, <2>2, <4>1, <4>2, <4>3
    <3> QED
      BY <3>1, <3>2
  <2>11. ASSUME NEW v \in Worker
         PROVE  /\ Ascending(serialQueue'[v])
                /\ \A op \in ToSet(serialQueue'[v]) : op.id < next' /\ Belongs(op, v)
                /\ pc'[v] = "executeSerial" =>
                     /\ Current(v)'.id < next'
                     /\ \A op \in ToSet(serialQueue'[v]) : Current(v)'.id < op.id
                /\ pc'[v] \in {"executeSerial", "doneSerial"} => Belongs(Current(v)', v)
    <3>1. pc'[v] \in {"executeSerial", "doneSerial"} => pc'[v] = pc[v] /\ Current(v)' = Current(v)
      BY <2>3
    <3> QED
      BY <1>1, <3>1 DEF QueueInv, OrderInv
  <2>12. OrderInv'
    BY <2>2, <2>9, <2>10, <2>11 DEF OrderInv
  <2> QED
    BY <2>4, <2>5, <2>6, <2>12 DEF QueueInv
<1> QED
  BY <1>3, <1>4

\* What a worker takes from its own queue is older than what it leaves there.
LEMMA NextSerialKeeps ==
  ASSUME QueueInv, NEW w \in Worker, NextSerial(w)
  PROVE  QueueInv'
<1>1. /\ pc[w] = "serial" /\ UNCHANGED <<delayQueue, next, trans, main, numWorkers>>
      /\ pc \in [Worker -> Stations] /\ hand \in [Worker -> {<<>>} \cup {<<op>> : op \in Op}]
      /\ serialQueue \in [Worker -> Seq(Op)]
      /\ serialQueue[w] \in Seq(Op) /\ Ascending(serialQueue[w])
  BY DEF NextSerial, clientVars, queueVars, QueueInv, QueueType, OrderInv
<1>2. main \notin {"cancel", "stopped"}
  BY <1>1, AtWork
<1>3. main = "drain" => delayQueue = <<>>
  BY <1>1 DEF QueueInv, DrainInv, Late
<1>4. CASE serialQueue[w] = <<>>
  <2>1. pc' = [pc EXCEPT ![w] = "loop"] /\ UNCHANGED <<hand, serialQueue>>
    BY <1>4 DEF NextSerial, Goto, queueVars
  <2>2. DrainInv'
    BY <1>1, <1>3, <1>4, <2>1, DrainStep DEF Stations
  <2>3. /\ Aside /\ StageInv' /\ pc' \in [Worker -> Stations]
        /\ hand' \in [Worker -> {<<>>} \cup {<<op>> : op \in Op}]
    BY <1>1, <2>1, PlaceStep DEF Stations
  <2> QED
    BY <1>1, <2>1, <2>2, <2>3, QuietStep DEF QueueInv
<1>5. CASE serialQueue[w] # <<>>
  <2> DEFINE h == Head(serialQueue[w])
             rest == Tail(serialQueue[w])
  <2>1. /\ pc' = [pc EXCEPT ![w] = "executeSerial"]
        /\ serialQueue' = [serialQueue EXCEPT ![w] = rest]
        /\ hand' = [hand EXCEPT ![w] = <<h>>]
    BY <1>5 DEF NextSerial, Goto
  <2>2. /\ h \in Op /\ rest \in Seq(Op) /\ Ascending(rest)
        /\ ToSet(serialQueue[w]) = ToSet(rest) \cup {h}
        /\ \A op \in ToSet(rest) : h.id < op.id
    BY <1>1, <1>5, PoppedOp
  <2> HIDE DEF h, rest
  <2>3. /\ pc'[w] = "executeSerial" /\ hand'[w] = <<h>> /\ Current(w)' = h
        /\ \A v \in Worker \ {w} : pc'[v] = pc[v] /\ hand'[v] = hand[v]
                                   /\ Current(v)' = Current(v)
        /\ pc' \in [Worker -> Stations]
        /\ hand' \in [Worker -> {<<>>} \cup {<<op>> : op \in Op}]
    BY <1>1, <2>1, <2>2 DEF Stations, Current
  <2>4. /\ serialQueue'[w] = rest /\ \A v \in Worker \ {w} : serialQueue'[v] = serialQueue[v]
        /\ serialQueue' \in [Worker -> Seq(Op)]
    BY <1>1, <2>1, <2>2
  <2>5. QueueType'
    BY <1>1, <2>3, <2>4 DEF QueueInv, QueueType
  <2>6. StageInv'
    BY <1>1, <1>2, <2>2, <2>3 DEF QueueInv, StageInv
  <2>7. DrainInv'
    BY <1>1, <1>3, <2>1, <2>4, DrainStep DEF Stations
  <2>8. h.id < next /\ Belongs(h, w)
    BY <2>2 DEF QueueInv, OrderInv
  <2>9. ASSUME NEW v \in Worker
        PROVE  /\ Ascending(serialQueue'[v])
               /\ \A op \in ToSet(serialQueue'[v]) : op.id < next' /\ Belongs(op, v)
               /\ pc'[v] = "executeSerial" =>
                    /\ Current(v)'.id < next'
                    /\ \A op \in ToSet(serialQueue'[v]) : Current(v)'.id < op.id
               /\ pc'[v] \in {"executeSerial", "doneSerial"} => Belongs(Current(v)', v)
    <3>1. CASE v = w
      BY <1>1, <2>2, <2>3, <2>4, <2>8, <3>1 DEF QueueInv, OrderInv
    <3>2. CASE v # w
      BY <1>1, <2>3, <2>4, <3>2 DEF QueueInv, OrderInv
    <3> QED
      BY <3>1, <3>2
  <2>10. ASSUME NEW v \in Worker, pc'[v] = "executeShared"
         PROVE  /\ Current(v)'.id < next' /\ Current(v)'.serial = 0
                /\ \A op \in ToSet(delayQueue') : Current(v)'.id < op.id
                /\ \A u \in Worker \ {v} : pc'[u] = "executeShared" => Current(u)' # Current(v)'
    <3>1. \A u \in Worker : pc'[u] = "executeShared" =>
            pc[u] = "executeShared" /\ Current(u)' = Current(u)
      BY <2>3
    <3> QED
      BY <1>1, <2>10, <3>1 DEF QueueInv, OrderInv
  <2>11. OrderInv'
    <3>1. /\ Ascending(delayQueue')
          /\ \A op \in ToSet(delayQueue') : op.id < next' /\ (numWorkers' # 0 => op.serial = 0)
      BY <1>1 DEF QueueInv, OrderInv
    <3> QED
      BY <2>9, <2>10, <3>1 DEF OrderInv
  <2> QED
    BY <2>5, <2>6, <2>7, <2>11 DEF QueueInv
<1> QED
  BY <1>4, <1>5

\* A worker's step keeps the invariant.
LEMMA WorkerKeeps ==
  ASSUME QueueInv, NEW w \in Worker, WorkerStep(w)
  PROVE  QueueInv'
BY LoopKeeps, NextSharedKeeps, NextSerialKeeps, ExecuteKeeps, FinishKeeps DEF WorkerStep

----------------------------------------------------------------------------
(* The world thread, and the invariant as a whole. *)

\* A step that touches neither queues nor workers, outside the drain.
LEMMA ElsewhereKeeps ==
  ASSUME QueueInv, UNCHANGED <<delayQueue, serialQueue, next, trans, pc, hand, numWorkers>>,
         main' = main \/ (main \in {"run", "collect", "callbacks", "wait"}
                          /\ main' \in {"run", "collect", "callbacks", "wait", "cancel", "join"}
                          /\ (main' = "cancel" => Workers = 0)
                          /\ (main' = "join" => Workers # 0))
                      \/ (main = "cancel" /\ main' = "stopped")
  PROVE  QueueInv'
<1>1. Aside /\ pc' \in [Worker -> Stations]
      /\ hand' \in [Worker -> {<<>>} \cup {<<op>> : op \in Op}]
  BY DEF Aside, QueueInv, QueueType
<1>2. QueueType' /\ OrderInv'
  BY <1>1, QuietStep
<1>3. StageInv'
  BY DEF QueueInv, StageInv
<1>4. DrainInv'
  BY DEF QueueInv, DrainInv
<1> QED
  BY <1>2, <1>3, <1>4 DEF QueueInv

\* The bodies are destroyed once all of them have left run(), each only when those
\* before it are gone.
LEMMA DestroyBodyKeeps ==
  ASSUME QueueInv, NEW w \in Worker, DestroyBody(w)
  PROVE  QueueInv'
<1>1. /\ main = "drain" /\ pc[w] = "exited" /\ pc' = [pc EXCEPT ![w] = "shared"]
      /\ \A v \in 0..(w - 1) : pc[v] = "gone"
      /\ UNCHANGED <<delayQueue, serialQueue, next, trans, hand, numWorkers, main>>
      /\ pc \in [Worker -> Stations] /\ hand \in [Worker -> {<<>>} \cup {<<op>> : op \in Op}]
  BY DEF DestroyBody, Goto, clientVars, queueVars, QueueInv, QueueType
<1>2. /\ pc'[w] = "shared" /\ \A v \in Worker \ {w} : pc'[v] = pc[v]
      /\ pc' \in [Worker -> Stations]
  BY <1>1 DEF Stations
<1>3. QueueType' /\ OrderInv'
  <2>1. Aside
    BY <1>1, <1>2 DEF Aside
  <2> QED
    BY <1>1, <1>2, <2>1, QuietStep
<1>4. StageInv'
  BY <1>1, <1>2 DEF QueueInv, StageInv
<1>5. DrainInv'
  <2>1. ASSUME NEW v \in Worker, NEW u \in Worker, v < u
        PROVE  pc'[v] = "gone" \/ pc'[u] = "exited"
    <3>1. CASE u = w
      BY <1>1, <1>2, <2>1, <3>1
    <3>2. CASE v = w
      BY <1>1, <1>2, <2>1, <3>2 DEF QueueInv, DrainInv
    <3>3. CASE v # w /\ u # w
      BY <1>1, <1>2, <2>1, <3>3 DEF QueueInv, DrainInv
    <3> QED
      BY <3>1, <3>2, <3>3
  <2>2. \A v \in Worker : pc'[v] \in {"loop", "gone"} => serialQueue'[v] = <<>>
    BY <1>1, <1>2 DEF QueueInv, DrainInv
  <2>3. ASSUME NEW v \in Worker, pc'[v] \in Late
        PROVE  delayQueue' = <<>> /\ \A u \in Worker : pc'[u] \notin {"executeShared", "doneShared"}
    <3>1. pc[v] \in Late
      BY <1>2, <2>3 DEF Late
    <3>2. delayQueue = <<>> /\ \A u \in Worker : pc[u] \notin {"executeShared", "doneShared"}
      BY <1>1, <3>1 DEF QueueInv, DrainInv
    <3> QED
      BY <1>1, <1>2, <3>2
  <2> QED
    BY <2>1, <2>2, <2>3 DEF DrainInv
<1> QED
  BY <1>3, <1>4, <1>5 DEF QueueInv

\* The server stops: the workers leave, are destroyed, and nobody works any more.
LEMMA StopKeeps ==
  ASSUME QueueInv, StopStep \/ Halt
  PROVE  QueueInv'
<1>1. CASE Halt
  BY <1>1, ElsewhereKeeps DEF Halt, clientVars, queueVars
<1>2. CASE CancelNext \/ StopServer
  BY <1>2, ElsewhereKeeps DEF CancelNext, StopServer, clientVars, queueVars, workerVars
<1>3. CASE JoinWorkers \/ EndHalt
  <2>1. UNCHANGED <<delayQueue, serialQueue, next, trans, pc, hand>>
    BY <1>3 DEF JoinWorkers, EndHalt, clientVars, queueVars, workerVars
  <2>2. \/ /\ main = "join" /\ main' = "drain" /\ numWorkers' = numWorkers
           /\ \A w \in Worker : pc[w] = "exited"
        \/ /\ main = "drain" /\ main' = "cancel" /\ numWorkers' = 0
           /\ \A w \in Worker : pc[w] = "gone"
    BY <1>3 DEF JoinWorkers, EndHalt
  <2>3. Aside /\ pc' \in [Worker -> Stations]
        /\ hand' \in [Worker -> {<<>>} \cup {<<op>> : op \in Op}]
    BY <2>1 DEF Aside, QueueInv, QueueType
  <2>4. QueueType' /\ OrderInv'
    BY <2>1, <2>2, <2>3, QuietStep
  <2>5. StageInv'
    BY <2>1, <2>2 DEF QueueInv, StageInv
  <2>6. DrainInv'
    BY <2>1, <2>2 DEF DrainInv, Late
  <2> QED
    BY <2>4, <2>5, <2>6 DEF QueueInv
<1> QED
  BY <1>1, <1>2, <1>3, DestroyBodyKeeps DEF StopStep

\* A tick touches the result queue only.
LEMMA TickKeeps ==
  ASSUME QueueInv, UpdateStep \/ AllowAsyncTransactions \/ Stopped \/ UNCHANGED vars
                   \/ (\E t \in Id : RunSafe(t))
  PROVE  QueueInv'
<1>1. UNCHANGED <<delayQueue, serialQueue, next, trans, pc, hand, numWorkers>>
  BY DEF UpdateStep, CollectResult, ProcessWorkload, RunUnsafe, EndUnsafe, WaitForPool,
     AllowAsyncTransactions, Stopped, RunSafe, vars, clientVars, queueVars, workerVars
<1>2. main' = main \/ (main \in {"run", "collect", "callbacks", "wait"}
                       /\ main' \in {"run", "collect", "callbacks", "wait"})
  BY DEF UpdateStep, CollectResult, ProcessWorkload, RunUnsafe, EndUnsafe, WaitForPool,
     AllowAsyncTransactions, Stopped, RunSafe, vars
<1> QED
  BY <1>1, <1>2, ElsewhereKeeps

\* Nothing is queued in the beginning.
LEMMA QueueInit == Init => QueueInv
<1> SUFFICES ASSUME Init PROVE QueueInv
  OBVIOUS
<1>1. delayQueue = <<>> /\ \A w \in Worker : serialQueue[w] = <<>> /\ pc[w] = "loop"
  BY DEF Init
<1>2. QueueType
  BY EmptyQueue DEF Init, QueueType, Stations
<1>3. StageInv
  BY DEF Init, StageInv
<1>4. OrderInv
  BY <1>1, EmptyQueue DEF OrderInv
<1>5. DrainInv
  BY DEF Init, DrainInv
<1> QED
  BY <1>2, <1>3, <1>4, <1>5 DEF QueueInv

\* Every step keeps the invariant.
LEMMA QueueStep ==
  ASSUME QueueInv, [Next]_vars
  PROVE  QueueInv'
<1>1. ASSUME NEW p \in Producer, ProducerStep(p) PROVE QueueInv'
  BY <1>1, ProducerKeeps
<1>2. ASSUME NEW w \in Worker, WorkerStep(w) PROVE QueueInv'
  BY <1>2, WorkerKeeps
<1> QED
  BY <1>1, <1>2, StopKeeps, TickKeeps DEF Next

\* The inductive invariant of the queues.
THEOREM QueueInvHolds == Spec => []QueueInv
BY QueueInit, QueueStep, PTL DEF Spec

\* HaltDelayThread() leaves no operation behind: the last body that is destroyed has
\* emptied the shared queue, and each its own.
THEOREM HaltDrainsHolds == Spec => HaltDrains
<1>1. ASSUME QueueInv, [Next]_vars, main = "drain", main' = "cancel"
      PROVE  Pending = {}
  <2>1. EndHalt
    <3>1. UNCHANGED main \/ EndHalt \/ main # "drain"
      BY <1>1 DEF Next, ProducerStep, Execute, CommitTransaction, RollbackTransaction, AsyncQuery,
         BeginTransaction, DelayQueryHolder, WorkerStep, Loop, NextShared, NextSerial,
         ExecuteOperation, Finish, UpdateStep, CollectResult, ProcessWorkload, RunUnsafe,
         EndUnsafe, WaitForPool, AllowAsyncTransactions, Stopped, RunSafe, Halt, StopStep, JoinWorkers, CancelNext,
         StopServer, DestroyBody, vars
    <3> QED
      BY <1>1, <3>1
  <2>2. \A w \in Worker : pc[w] = "gone" /\ serialQueue[w] = <<>>
    BY <1>1, <2>1 DEF EndHalt, QueueInv, DrainInv
  <2>3. 0 \in Worker
    <3>1. Workers # 0
      BY <1>1 DEF QueueInv, StageInv
    <3> QED
      BY <3>1
  <2>4. delayQueue = <<>>
    BY <1>1, <2>2, <2>3 DEF QueueInv, DrainInv, Late
  <2>5. InHand = {}
    BY <2>2 DEF InHand
  <2> QED
    BY <2>2, <2>4, <2>5, EmptyQueue DEF Pending
<1>2. QueueInv /\ [Next]_vars => [main = "drain" /\ main' = "cancel" => Pending = {}]_vars
  BY <1>1
<1> QED
  BY <1>2, QueueInvHolds, PTL DEF Spec, HaltDrains

----------------------------------------------------------------------------
(* The queues implement a serial executor. *)

Executing == {"executeShared", "executeSerial"}

\* Where an operation is that was queued and is not executed yet.
LEMMA PendingPlaces ==
  \A op : op \in Pending <=>
    \/ op \in ToSet(delayQueue)
    \/ \E w \in Worker : op \in ToSet(serialQueue[w])
    \/ \E w \in Worker : pc[w] \in Executing /\ Current(w) = op
BY DEF Pending, InHand, Executing

\* What is pending was queued before the next operation.
LEMMA PendingOlder ==
  ASSUME QueueInv
  PROVE  \A op \in Pending : op.id < next
<1>1. \A w \in Worker : pc[w] \in Executing => Current(w).id < next
  BY DEF Executing, QueueInv, OrderInv
<1> QED
  BY <1>1, PendingPlaces DEF QueueInv, OrderInv

\* Nobody begins or ends the execution of an operation.
SameHands ==
  \A w \in Worker :
    /\ pc'[w] \in Executing <=> pc[w] \in Executing
    /\ pc[w] \in Executing => hand'[w] = hand[w]

\* Appending to the shared queue queues the operation.
LEMMA SharedQueues ==
  ASSUME QueueInv, NEW op \in Op, op.id = next, AddToDelayQueue(op), SameHands
  PROVE  Executor!Queue(op)
<1>1. /\ delayQueue' = Append(delayQueue, op) /\ serialQueue' = serialQueue
      /\ delayQueue \in Seq(Op)
  BY DEF AddToDelayQueue, QueueInv, QueueType
<1>2. ToSet(delayQueue') = ToSet(delayQueue) \cup {op}
  BY <1>1, AppendedOp
<1>3. \A w \in Worker : pc[w] \in Executing => Current(w)' = Current(w)
  BY DEF SameHands, Current
<1>4. \A x : x \in Pending' <=>
        \/ x \in ToSet(delayQueue')
        \/ \E w \in Worker : x \in ToSet(serialQueue'[w])
        \/ \E w \in Worker : pc'[w] \in Executing /\ Current(w)' = x
  BY DEF Pending, InHand, Executing
<1>5. \A x : x \in Pending' <=> x \in Pending \/ x = op
  BY <1>1, <1>2, <1>3, <1>4, PendingPlaces DEF SameHands
<1> QED
  BY <1>5, PendingOlder DEF Executor!Queue

\* So does appending to the queue of its serial id.
LEMMA SerialQueues ==
  ASSUME QueueInv, NEW op \in Op, op.id = next, AddToSerialDelayQueue(op), SameHands
  PROVE  Executor!Queue(op)
<1>1. CASE op.serial = 0 \/ numWorkers = 0
  BY <1>1, SharedQueues DEF AddToSerialDelayQueue
<1>2. CASE ~(op.serial = 0 \/ numWorkers = 0)
  <2> DEFINE v == op.serial % Workers
  <2>1. numWorkers = Workers /\ Workers # 0
    BY <1>2 DEF QueueInv, StageInv
  <2>2. v \in Worker
    BY <2>1, SerialWorker
  <2>3. /\ serialQueue' = [serialQueue EXCEPT ![v] = Append(@, op)]
        /\ delayQueue' = delayQueue /\ serialQueue \in [Worker -> Seq(Op)]
    BY <1>2, <2>1 DEF AddToSerialDelayQueue, QueueInv, QueueType
  <2> HIDE DEF v
  <2>4. /\ serialQueue'[v] = Append(serialQueue[v], op) /\ serialQueue[v] \in Seq(Op)
        /\ \A w \in Worker \ {v} : serialQueue'[w] = serialQueue[w]
    BY <2>2, <2>3
  <2>5. ToSet(serialQueue'[v]) = ToSet(serialQueue[v]) \cup {op}
    BY <2>4, AppendedOp
  <2>6. \A x : (\E w \in Worker : x \in ToSet(serialQueue'[w])) <=>
               (\E w \in Worker : x \in ToSet(serialQueue[w])) \/ x = op
    BY <2>2, <2>4, <2>5
  <2>7. \A w \in Worker : pc[w] \in Executing => Current(w)' = Current(w)
    BY DEF SameHands, Current
  <2>8. \A x : x \in Pending' <=>
          \/ x \in ToSet(delayQueue')
          \/ \E w \in Worker : x \in ToSet(serialQueue'[w])
          \/ \E w \in Worker : pc'[w] \in Executing /\ Current(w)' = x
    BY DEF Pending, InHand, Executing
  <2>9. \A x : (\E w \in Worker : pc'[w] \in Executing /\ Current(w)' = x) <=>
               (\E w \in Worker : pc[w] \in Executing /\ Current(w) = x)
    BY <2>7 DEF SameHands
  <2>10. \A x : x \in Pending' <=> x \in Pending \/ x = op
    BY <2>3, <2>6, <2>8, <2>9, PendingPlaces
  <2> QED
    BY <2>10, PendingOlder DEF Executor!Queue
<1> QED
  BY <1>1, <1>2

\* A step that leaves the queues and the hands alone leaves what is pending alone.
LEMMA SamePending ==
  ASSUME UNCHANGED queueVars, SameHands
  PROVE  Pending' = Pending
<1>1. \A w \in Worker : pc[w] \in Executing => Current(w)' = Current(w)
  BY DEF SameHands, Current
<1>2. \A x : x \in Pending' <=>
        \/ x \in ToSet(delayQueue')
        \/ \E w \in Worker : x \in ToSet(serialQueue'[w])
        \/ \E w \in Worker : pc'[w] \in Executing /\ Current(w)' = x
  BY DEF Pending, InHand, Executing
<1>3. \A x : x \in Pending' <=> x \in Pending
  BY <1>1, <1>2, PendingPlaces DEF SameHands, queueVars
<1> QED
  BY <1>3

\* A step that queues the operation op, which is a query if it is asked for.
Queues(op) ==
  /\ op \in Op /\ op.id = next /\ Executor!Queue(op) /\ next' = next + 1
  /\ asked' \in {asked, asked \cup {next}}
  /\ asked' # asked => op.kind \in {"safe", "unsafe"}

\* A thread that queues operations queues one or none.
LEMMA ProducerQueues ==
  ASSUME QueueInv, NEW p \in Producer, ProducerStep(p)
  PROVE  (\E op : Queues(op)) \/ UNCHANGED <<Pending, next, asked>>
<1>1. SameHands
  BY DEF SameHands, ProducerStep, Execute, CommitTransaction, RollbackTransaction, AsyncQuery,
     BeginTransaction, DelayQueryHolder, workerVars
<1>2. ASSUME NEW k \in Kind, AddToDelayQueue(NewOp(0, k)),
             asked' = asked \/ (asked' = asked \cup {next} /\ k \in {"safe", "unsafe"})
      PROVE  \E op : Queues(op)
  <2>1. next <= MaxOp /\ next' = next + 1
    BY <1>2 DEF AddToDelayQueue
  <2>2. NewOp(0, k) \in Op /\ NewOp(0, k).id = next /\ NewOp(0, k).kind = k
    BY <2>1, NewOpType
  <2>3. Executor!Queue(NewOp(0, k))
    BY <1>1, <1>2, <2>2, SharedQueues
  <2> QED
    BY <1>2, <2>1, <2>2, <2>3 DEF Queues
<1>3. ASSUME NEW s \in Serial \cup {0}, NEW k \in Kind \cup {"write"},
             AddToSerialDelayQueue(NewOp(s, k)),
             asked' = asked \/ (asked' = asked \cup {next} /\ k \in {"safe", "unsafe"})
      PROVE  \E op : Queues(op)
  <2>1. next <= MaxOp /\ next' = next + 1
    BY <1>3 DEF AddToSerialDelayQueue, AddToDelayQueue
  <2>2. NewOp(s, k) \in Op /\ NewOp(s, k).id = next /\ NewOp(s, k).kind = k
    BY <2>1, NewOpType
  <2>3. Executor!Queue(NewOp(s, k))
    BY <1>1, <1>3, <2>2, SerialQueues
  <2> QED
    BY <1>3, <2>1, <2>2, <2>3 DEF Queues
<1>4. CASE Execute(p) \/ AsyncQuery(p)
  BY <1>2, <1>4 DEF Execute, AsyncQuery
<1>5. ASSUME NEW s \in Serial \cup {0}, DelayQueryHolder(p, s)
      PROVE  \E op : Queues(op)
  BY <1>3, <1>5 DEF DelayQueryHolder
<1>6. CASE CommitTransaction(p)
  <2>1. trans[p] \in Serial \cup {0} /\ asked' = asked
    BY <1>6 DEF CommitTransaction, QueueInv, QueueType
  <2>2. AddToSerialDelayQueue(NewOp(trans[p], "write")) \/ UNCHANGED <<next, queueVars>>
    BY <1>6 DEF CommitTransaction
  <2> QED
    BY <1>1, <1>3, <2>1, <2>2, SamePending
<1>7. ASSUME RollbackTransaction(p) \/ (\E s \in Serial \cup {0} : BeginTransaction(p, s))
      PROVE  UNCHANGED <<Pending, next, asked>>
  BY <1>1, <1>7, SamePending DEF RollbackTransaction, BeginTransaction
<1> QED
  BY <1>4, <1>5, <1>6, <1>7 DEF ProducerStep

\* A worker takes an operation from a queue into its hand: it is still pending.
LEMMA NextRefines ==
  ASSUME QueueInv, NEW w \in Worker, NextShared(w) \/ NextSerial(w)
  PROVE  Pending' = Pending
<1>1. /\ pc \in [Worker -> Stations] /\ hand \in [Worker -> {<<>>} \cup {<<op>> : op \in Op}]
      /\ serialQueue \in [Worker -> Seq(Op)] /\ serialQueue[w] \in Seq(Op)
      /\ delayQueue \in Seq(Op) /\ Ascending(delayQueue) /\ Ascending(serialQueue[w])
      /\ pc[w] \notin Executing
  BY DEF QueueInv, QueueType, OrderInv, NextShared, NextSerial, Executing
<1>2. CASE pc'[w] \notin Executing
  <2>1. UNCHANGED <<queueVars, hand>> /\ \A v \in Worker \ {w} : pc'[v] = pc[v]
    BY <1>1, <1>2 DEF NextShared, NextSerial, Goto, Executing
  <2>2. SameHands
    BY <1>1, <1>2, <2>1 DEF SameHands
  <2> QED
    BY <2>1, <2>2, SamePending
<1>3. CASE pc'[w] \in Executing
  <2>1. PICK h :
          /\ hand' = [hand EXCEPT ![w] = <<h>>]
          /\ \A v \in Worker \ {w} : pc'[v] = pc[v]
          /\ \/ /\ ToSet(delayQueue) = ToSet(delayQueue') \cup {h}
                /\ serialQueue' = serialQueue
             \/ /\ ToSet(serialQueue[w]) = ToSet(serialQueue'[w]) \cup {h}
                /\ \A v \in Worker \ {w} : serialQueue'[v] = serialQueue[v]
                /\ delayQueue' = delayQueue
    <3>1. CASE NextShared(w)
      <4>1. /\ delayQueue # <<>> /\ delayQueue' = Tail(delayQueue) /\ serialQueue' = serialQueue
            /\ hand' = [hand EXCEPT ![w] = <<Head(delayQueue)>>]
            /\ pc' = [pc EXCEPT ![w] = "executeShared"]
        BY <1>1, <1>3, <3>1 DEF NextShared, Goto, Executing
      <4>2. ToSet(delayQueue) = ToSet(delayQueue') \cup {Head(delayQueue)}
        BY <1>1, <4>1, PoppedOp
      <4>3. \A v \in Worker \ {w} : pc'[v] = pc[v]
        BY <1>1, <4>1
      <4> QED
        BY <4>1, <4>2, <4>3
    <3>2. CASE NextSerial(w)
      <4>1. /\ serialQueue[w] # <<>> /\ delayQueue' = delayQueue
            /\ serialQueue' = [serialQueue EXCEPT ![w] = Tail(@)]
            /\ hand' = [hand EXCEPT ![w] = <<Head(serialQueue[w])>>]
            /\ pc' = [pc EXCEPT ![w] = "executeSerial"]
        BY <1>1, <1>3, <3>2 DEF NextSerial, Goto, Executing
      <4>2. /\ serialQueue'[w] = Tail(serialQueue[w])
            /\ \A v \in Worker \ {w} : serialQueue'[v] = serialQueue[v] /\ pc'[v] = pc[v]
        BY <1>1, <4>1
      <4>3. ToSet(serialQueue[w]) = ToSet(serialQueue'[w]) \cup {Head(serialQueue[w])}
        BY <1>1, <4>1, <4>2, PoppedOp
      <4> QED
        BY <4>1, <4>2, <4>3
    <3> QED
      BY <3>1, <3>2
  <2>2. /\ Current(w)' = h
        /\ \A v \in Worker \ {w} : Current(v)' = Current(v)
    BY <1>1, <2>1 DEF Current
  <2>3. \A x : (\E v \in Worker : pc'[v] \in Executing /\ Current(v)' = x) <=>
               (\E v \in Worker : pc[v] \in Executing /\ Current(v) = x) \/ x = h
    BY <1>1, <1>3, <2>1, <2>2
  <2>4. \A x : x \in ToSet(delayQueue) \/ (\E v \in Worker : x \in ToSet(serialQueue[v])) <=>
               x \in ToSet(delayQueue') \/ (\E v \in Worker : x \in ToSet(serialQueue'[v])) \/ x = h
    BY <2>1
  <2>5. \A x : x \in Pending' <=>
          \/ x \in ToSet(delayQueue')
          \/ \E v \in Worker : x \in ToSet(serialQueue'[v])
          \/ \E v \in Worker : pc'[v] \in Executing /\ Current(v)' = x
    BY DEF Pending, InHand, Executing
  <2>6. \A x : x \in Pending' <=> x \in Pending
    BY <2>3, <2>4, <2>5, PendingPlaces
  <2> QED
    BY <2>6
<1> QED
  BY <1>2, <1>3

\* What a worker executes is pending once, and oldest of its serial id.
LEMMA CurrentOldest ==
  ASSUME QueueInv, NEW w \in Worker, pc[w] \in Executing
  PROVE  /\ Current(w) \in Op /\ Current(w) \notin ToSet(delayQueue)
         /\ \A v \in Worker : Current(w) \notin ToSet(serialQueue[v])
         /\ \A v \in Worker \ {w} : pc[v] \in Executing => Current(v) # Current(w)
         /\ Current(w).serial # 0 =>
              \A q \in Pending : q.serial = Current(w).serial => Current(w).id <= q.id
<1>1. Current(w) \in Op /\ numWorkers # 0 /\ \A op \in Op : op.id \in Nat
  BY CurrentOp, AtWork DEF Executing, Op, Id
<1>2. \A op \in ToSet(delayQueue) : op.serial = 0
  BY <1>1 DEF QueueInv, OrderInv
<1>3. \A v \in Worker : \A op \in ToSet(serialQueue[v]) : Belongs(op, v)
  BY DEF QueueInv, OrderInv
<1>4. CASE pc[w] = "executeShared"
  <2>1. /\ Current(w).serial = 0
        /\ \A op \in ToSet(delayQueue) : Current(w).id < op.id
        /\ \A v \in Worker \ {w} : pc[v] = "executeShared" => Current(v) # Current(w)
    BY <1>4 DEF QueueInv, OrderInv
  <2>2. \A v \in Worker : pc[v] = "executeSerial" => Belongs(Current(v), v)
    BY DEF QueueInv, OrderInv
  <2> QED
    BY <1>1, <1>3, <2>1, <2>2 DEF Belongs, Executing
<1>5. CASE pc[w] = "executeSerial"
  <2>1. /\ Belongs(Current(w), w)
        /\ \A op \in ToSet(serialQueue[w]) : Current(w).id < op.id
    BY <1>5 DEF QueueInv, OrderInv
  <2>2. ASSUME NEW v \in Worker \ {w}, pc[v] \in Executing
        PROVE  ~(Current(v).serial = Current(w).serial /\ Current(w).serial # 0)
    <3>1. pc[v] = "executeShared" => Current(v).serial = 0
      BY DEF QueueInv, OrderInv
    <3>2. pc[v] = "executeSerial" => Belongs(Current(v), v)
      BY DEF QueueInv, OrderInv
    <3> QED
      BY <2>1, <2>2, <3>1, <3>2 DEF Belongs, Executing
  <2>3. ASSUME NEW q \in Pending, q.serial = Current(w).serial
        PROVE  Current(w).id <= q.id
    <3>1. CASE q \in ToSet(delayQueue)
      BY <1>2, <2>1, <2>3, <3>1 DEF Belongs
    <3>2. ASSUME NEW v \in Worker, q \in ToSet(serialQueue[v])
          PROVE  Current(w).id <= q.id
      <4>1. v = w
        BY <1>3, <2>1, <2>3, <3>2 DEF Belongs
      <4>2. q \in Op
        BY <3>2 DEF QueueInv, QueueType, ToSet
      <4> QED
        BY <1>1, <2>1, <3>2, <4>1, <4>2
    <3>3. ASSUME NEW v \in Worker, pc[v] \in Executing, Current(v) = q
          PROVE  Current(w).id <= q.id
      <4>1. v = w
        BY <2>1, <2>2, <2>3, <3>3 DEF Belongs
      <4> QED
        BY <1>1, <3>3, <4>1
    <3> QED
      BY <2>3, <3>1, <3>2, <3>3, PendingPlaces
  <2>4. \A v \in Worker : Current(w) \notin ToSet(serialQueue[v])
    BY <1>1, <1>3, <2>1 DEF Belongs
  <2> QED
    BY <1>1, <1>2, <2>1, <2>2, <2>3, <2>4 DEF Belongs
<1> QED
  BY <1>4, <1>5 DEF Executing

\* Executing an operation ends it, and only it.
LEMMA ExecuteTakes ==
  ASSUME QueueInv, NEW w \in Worker, ExecuteOperation(w)
  PROVE  Current(w) \in Op /\ Executor!Execute(Current(w))
<1>1. /\ pc[w] \in Executing /\ pc'[w] \notin Executing
      /\ \A v \in Worker \ {w} : pc'[v] = pc[v]
      /\ UNCHANGED <<hand, delayQueue, serialQueue>>
  BY DEF ExecuteOperation, Goto, queueVars, Executing, QueueInv, QueueType
<1>2. \A v \in Worker : Current(v)' = Current(v)
  BY <1>1 DEF Current
<1>3. \A x : x \in Pending' <=>
        \/ x \in ToSet(delayQueue')
        \/ \E v \in Worker : x \in ToSet(serialQueue'[v])
        \/ \E v \in Worker : pc'[v] \in Executing /\ Current(v)' = x
  BY DEF Pending, InHand, Executing
<1>4. \A x : (\E v \in Worker : pc'[v] \in Executing /\ Current(v)' = x) <=>
             (\E v \in Worker : pc[v] \in Executing /\ Current(v) = x) /\ x # Current(w)
  BY <1>1, <1>2, CurrentOldest
<1>5. \A x : x \in Pending' <=> x \in Pending /\ x # Current(w)
  BY <1>1, <1>3, <1>4, CurrentOldest, PendingPlaces
<1>6. Current(w) \in Pending
  BY <1>1, PendingPlaces
<1>7. Executor!Execute(Current(w))
  BY <1>1, <1>5, <1>6, CurrentOldest DEF Executor!Execute
<1> QED
  BY <1>1, <1>7, CurrentOldest

\* When an operation is done it is no longer pending; it may have queued one.
LEMMA FinishQueues ==
  ASSUME QueueInv, NEW w \in Worker, Finish(w)
  PROVE  (\E op : Queues(op)) \/ UNCHANGED <<Pending, next, asked>>
<1>1. SameHands /\ asked' = asked
  BY DEF Finish, Goto, SameHands, Executing, QueueInv, QueueType
<1>2. CASE AddToDelayQueue(NewOp(0, "write"))
  <2>1. next <= MaxOp /\ next' = next + 1
    BY <1>2 DEF AddToDelayQueue
  <2>2. NewOp(0, "write") \in Op /\ NewOp(0, "write").id = next
    BY <2>1, NewOpType
  <2>3. Executor!Queue(NewOp(0, "write"))
    BY <1>1, <1>2, <2>2, SharedQueues
  <2> QED
    BY <1>1, <2>1, <2>2, <2>3 DEF Queues
<1>3. CASE UNCHANGED <<next, queueVars>>
  BY <1>1, <1>3, SamePending
<1> QED
  BY <1>2, <1>3 DEF Finish

\* What the other steps leave alone.
LEMMA QuietPending ==
  ASSUME QueueInv, [Next]_vars
  PROVE  \/ \E p \in Producer : ProducerStep(p)
         \/ \E w \in Worker : NextShared(w) \/ NextSerial(w) \/ ExecuteOperation(w) \/ Finish(w)
         \/ UNCHANGED <<Pending, next, asked>>
<1>1. ASSUME NEW w \in Worker, Loop(w) \/ DestroyBody(w)
      PROVE  UNCHANGED <<Pending, next, asked>>
  <2>1. SameHands /\ UNCHANGED <<queueVars, next, asked>>
    BY <1>1 DEF Loop, DestroyBody, Goto, SameHands, Executing, QueueInv, QueueType, clientVars
  <2> QED
    BY <2>1, SamePending
<1>2. \/ \E p \in Producer : ProducerStep(p)
      \/ \E w \in Worker : WorkerStep(w) \/ DestroyBody(w)
      \/ UNCHANGED <<queueVars, pc, hand, next, asked>>
  BY DEF Next, UpdateStep, CollectResult, ProcessWorkload, RunUnsafe, EndUnsafe, WaitForPool,
     AllowAsyncTransactions, Stopped, RunSafe, Halt, StopStep, JoinWorkers, EndHalt, CancelNext,
     StopServer, workerVars, clientVars, vars
<1>3. CASE UNCHANGED <<queueVars, pc, hand, next, asked>>
  BY <1>3, SamePending DEF SameHands
<1> QED
  BY <1>1, <1>2, <1>3 DEF WorkerStep

\* Every step queues an operation, executes the oldest of its serial id, or leaves
\* what is pending alone.
LEMMA StepRefines ==
  ASSUME QueueInv, [Next]_vars
  PROVE  [Executor!Next]_Pending
<1>1. ASSUME NEW op, Queues(op) PROVE Executor!Next
  BY <1>1 DEF Queues, Executor!Next
<1>2. ASSUME NEW w \in Worker, ExecuteOperation(w) PROVE Executor!Next
  BY <1>2, ExecuteTakes DEF Executor!Next
<1> QED
  BY <1>1, <1>2, QuietPending, ProducerQueues, NextRefines, FinishQueues

\* Operations with one serial id reach the database one after the other, in the order
\* they were queued: the queues, the workers and the shutdown implement SerialExecutor.
THEOREM ImplementsExecutorHolds == Spec => ImplementsExecutor
<1>1. Init => Executor!Init
  BY EmptyQueue DEF Init, Executor!Init, Pending, InHand
<1>2. QueueInv /\ [Next]_vars => [Executor!Next]_Pending
  BY StepRefines
<1> QED
  BY <1>1, <1>2, QueueInvHolds, PTL DEF Spec, ImplementsExecutor, Executor!Spec
=============================================================================
