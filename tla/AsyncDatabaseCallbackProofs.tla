--------------------- MODULE AsyncDatabaseCallbackProofs ---------------------
(***************************************************************************)
(* The callbacks of the asynchronous queries: proofs of TypeOK,            *)
(* CallbackOnce and CallbackOrder, for any number of workers, producers,   *)
(* serial ids and operations.                                              *)
(***************************************************************************)
EXTENDS AsyncDatabaseProofs

USE DatabaseAssumption DEF Worker

\* The part of TypeOK the callbacks depend on.
ResultType ==
  /\ allowAsync \in BOOLEAN
  /\ running \in [Worker -> BOOLEAN]
  /\ results \in Seq(Op)
  /\ waiting \in Seq(Op)
  /\ workload \in SUBSET Id
  /\ phase \in {"idle", "running"}
  /\ todo \in SUBSET Id
  /\ main \in {"run", "collect", "callbacks", "wait", "join", "drain", "cancel", "stopped"}
  /\ next <= MaxOp + 1
  /\ asked \in SUBSET Id
  /\ called \in Seq(Id)

\* The pool runs a job only between processWorkload() and the end of job.wait(), and
\* the workload is filled only while the results are collected.
PoolInv ==
  /\ main \notin {"callbacks", "wait"} => phase = "idle"
  /\ phase = "idle" => todo = {}
  /\ main # "collect" => workload = {}

PendingIds == {op.id : op \in Pending}
DistinctIds(queue) == \A i, j \in 1..Len(queue) : queue[i].id = queue[j].id => i = j

\* An operation is in one place only: it is pending, or its callback is in one of the
\* queues or with the pool, or it ran.  A query is in one of these places.
PlaceInv ==
  /\ \A x, y \in Pending : x.id = y.id => x = y
  /\ DistinctIds(results)
  /\ DistinctIds(waiting)
  /\ IsInjective(called)
  /\ PendingIds \cap (Ids(results) \cup Ids(waiting) \cup workload \cup todo \cup ToSet(called)) = {}
  /\ Ids(results) \cap (Ids(waiting) \cup workload \cup todo \cup ToSet(called)) = {}
  /\ Ids(waiting) \cap (workload \cup todo \cup ToSet(called)) = {}
  /\ workload \cap (todo \cup ToSet(called)) = {}
  /\ todo \cap ToSet(called) = {}
  /\ \A i \in Ids(results) \cup Ids(waiting) \cup workload \cup todo \cup ToSet(called) : i < next
  /\ asked \subseteq PendingIds \cup Ids(results) \cup Ids(waiting) \cup workload \cup todo
                       \cup ToSet(called)
  /\ \A op \in Pending : op.id \in asked => op.kind \in {"safe", "unsafe"}

\* The operations of S were queued before those of T with the same serial id.
Before(S, T) == \A x \in S, y \in T : x.serial = y.serial /\ x.serial # 0 => x.id < y.id

SerialOrdered(queue) ==
  \A i, j \in 1..Len(queue) :
    i < j /\ queue[i].serial = queue[j].serial /\ queue[i].serial # 0 => queue[i].id < queue[j].id

\* Per serial id, operations reach the result queue, and from there the world thread's
\* own queue, in the order they were queued.
ArrivalInv ==
  /\ SerialOrdered(waiting)
  /\ SerialOrdered(results)
  /\ Before(ToSet(waiting), ToSet(results))
  /\ Before(ToSet(waiting) \cup ToSet(results), Pending)

CallbackInv == ResultType /\ PoolInv /\ PlaceInv /\ ArrivalInv

----------------------------------------------------------------------------
(* Result queues. *)

\* Appending a result adds its id; ids stay distinct if it is new, and the order of each
\* serial id is kept if the results of its own are older.
LEMMA AppendedResult ==
  ASSUME NEW q \in Seq(Op), NEW op \in Op
  PROVE  /\ Append(q, op) \in Seq(Op)
         /\ ToSet(Append(q, op)) = ToSet(q) \cup {op}
         /\ Ids(Append(q, op)) = Ids(q) \cup {op.id}
         /\ DistinctIds(q) /\ op.id \notin Ids(q) => DistinctIds(Append(q, op))
         /\ SerialOrdered(q) /\ Before(ToSet(q), {op}) => SerialOrdered(Append(q, op))
<1> DEFINE r == Append(q, op)
           n == Len(q)
<1>1. /\ r \in Seq(Op) /\ n \in Nat /\ Len(r) = n + 1
      /\ \A i \in 1..n : r[i] = q[i] /\ q[i] \in ToSet(q)
      /\ r[n + 1] = op
  BY DEF ToSet
<1>2. ToSet(r) = ToSet(q) \cup {op}
  BY AppendedOp
<1>3. Ids(r) = Ids(q) \cup {op.id}
  BY <1>2 DEF Ids
<1> HIDE DEF r, n
<1>4. \A i \in 1..(n + 1) : i \in 1..n \/ i = n + 1
  BY <1>1
<1>5. ASSUME DistinctIds(q), op.id \notin Ids(q) PROVE DistinctIds(r)
  <2>1. \A i \in 1..n : q[i].id # op.id
    BY <1>1, <1>5 DEF Ids
  <2>2. \A i, j \in 1..n : q[i].id = q[j].id => i = j
    BY <1>5 DEF DistinctIds, n
  <2> QED
    BY <1>1, <1>4, <2>1, <2>2 DEF DistinctIds
<1>6. ASSUME SerialOrdered(q), Before(ToSet(q), {op}) PROVE SerialOrdered(r)
  <2>1. \A i \in 1..n : q[i].serial = op.serial /\ q[i].serial # 0 => q[i].id < op.id
    BY <1>1, <1>6 DEF Before
  <2>2. \A i, j \in 1..n : i < j /\ q[i].serial = q[j].serial /\ q[i].serial # 0 => q[i].id < q[j].id
    BY <1>6 DEF SerialOrdered, n
  <2>3. SUFFICES ASSUME NEW i \in 1..(n + 1), NEW j \in 1..(n + 1), i < j,
                        r[i].serial = r[j].serial, r[i].serial # 0
                 PROVE  r[i].id < r[j].id
    BY <1>1 DEF SerialOrdered
  <2>4. i \in 1..n
    BY <1>1, <2>3
  <2>5. CASE j \in 1..n
    BY <1>1, <2>2, <2>3, <2>4, <2>5
  <2>6. CASE j = n + 1
    BY <1>1, <2>1, <2>3, <2>4, <2>6
  <2> QED
    BY <1>4, <2>5, <2>6
<1> QED
  BY <1>1, <1>2, <1>3, <1>5, <1>6 DEF r

\* Popping a result removes its id, and it was the oldest of its serial id.
LEMMA PoppedResult ==
  ASSUME NEW q \in Seq(Op), q # <<>>, DistinctIds(q), SerialOrdered(q)
  PROVE  /\ Head(q) \in Op /\ Tail(q) \in Seq(Op)
         /\ ToSet(q) = ToSet(Tail(q)) \cup {Head(q)}
         /\ Ids(q) = Ids(Tail(q)) \cup {Head(q).id}
         /\ Head(q).id \notin Ids(Tail(q))
         /\ DistinctIds(Tail(q)) /\ SerialOrdered(Tail(q))
         /\ Before({Head(q)}, ToSet(Tail(q)))
<1> DEFINE r == Tail(q)
           n == Len(q)
<1>1. /\ n \in Nat \ {0} /\ r \in Seq(Op) /\ Len(r) = n - 1 /\ Head(q) = q[1]
      /\ DOMAIN q = 1..n /\ DOMAIN r = 1..(n - 1)
      /\ \A i \in 1..(n - 1) : r[i] = q[i + 1]
      /\ \A i \in 1..n : q[i] \in Op
  OBVIOUS
<1>2. /\ \A i, j \in 1..n : q[i].id = q[j].id => i = j
      /\ \A i, j \in 1..n : i < j /\ q[i].serial = q[j].serial /\ q[i].serial # 0 => q[i].id < q[j].id
  BY DEF DistinctIds, SerialOrdered
<1> HIDE DEF r, n
<1>3. ToSet(q) = ToSet(r) \cup {q[1]}
  <2>1. \A i \in 1..n : i = 1 \/ (i - 1 \in 1..(n - 1) /\ r[i - 1] = q[i])
    BY <1>1
  <2>2. \A i \in 1..(n - 1) : i + 1 \in 1..n /\ r[i] = q[i + 1]
    BY <1>1
  <2>3. 1 \in 1..n
    BY <1>1
  <2>4. /\ \A x : x \in ToSet(q) <=> \E i \in 1..n : x = q[i]
        /\ \A x : x \in ToSet(r) <=> \E i \in 1..(n - 1) : x = r[i]
    BY <1>1 DEF ToSet
  <2>5. ASSUME NEW x \in ToSet(q) PROVE x \in ToSet(r) \/ x = q[1]
    BY <2>1, <2>4, <2>5
  <2>6. ASSUME NEW x \in ToSet(r) PROVE x \in ToSet(q)
    BY <2>2, <2>4, <2>6
  <2> QED
    BY <2>3, <2>4, <2>5, <2>6
<1>4. \A x \in ToSet(r) : \E i \in 1..(n - 1) : x = q[i + 1]
  BY <1>1 DEF ToSet
<1>5. \A i \in 1..(n - 1) : i + 1 \in 1..n /\ 1 \in 1..n /\ 1 < i + 1 /\ i + 1 # 1
  BY <1>1
<1>6. q[1].id \notin Ids(r)
  BY <1>2, <1>4, <1>5 DEF Ids
<1>7. DistinctIds(r)
  <2>1. \A i, j \in 1..(n - 1) : i + 1 = j + 1 => i = j
    OBVIOUS
  <2> QED
    BY <1>1, <1>2, <1>5, <2>1 DEF DistinctIds
<1>8. SerialOrdered(r)
  <2>1. \A i, j \in 1..(n - 1) : i < j => i + 1 < j + 1
    BY <1>1
  <2> QED
    BY <1>1, <1>2, <1>5, <2>1 DEF SerialOrdered
<1>9. Before({q[1]}, ToSet(r))
  BY <1>2, <1>4, <1>5 DEF Before
<1>10. Ids(q) = Ids(r) \cup {q[1].id}
  BY <1>3 DEF Ids
<1> QED
  BY <1>1, <1>3, <1>6, <1>7, <1>8, <1>9, <1>10 DEF r

\* A callback that has not run yet runs.
LEMMA Calling ==
  ASSUME called \in Seq(Id), IsInjective(called), NEW t \in Id, t \notin ToSet(called),
         called' = Append(called, t)
  PROVE  called' \in Seq(Id) /\ IsInjective(called') /\ ToSet(called') = ToSet(called) \cup {t}
<1> DEFINE n == Len(called)
<1>1. /\ called' \in Seq(Id) /\ n \in Nat
      /\ DOMAIN called = 1..n /\ DOMAIN called' = 1..(n + 1)
      /\ \A i \in 1..n : called'[i] = called[i]
      /\ called'[n + 1] = t
  OBVIOUS
<1>2. \A i \in 1..n : called[i] # t
  BY <1>1 DEF ToSet
<1>3. \A i, j \in 1..n : called[i] = called[j] => i = j
  BY <1>1 DEF IsInjective
<1> HIDE DEF n
<1>4. \A i \in 1..(n + 1) : i \in 1..n \/ i = n + 1
  BY <1>1
<1>5. 1..n \subseteq 1..(n + 1) /\ n + 1 \in 1..(n + 1)
  BY <1>1
<1> QED
  BY <1>1, <1>2, <1>3, <1>4, <1>5 DEF IsInjective, ToSet

----------------------------------------------------------------------------
(* How the operations move from one place to the next. *)

\* What is pending is an operation.
LEMMA PendingOp ==
  ASSUME QueueInv
  PROVE  Pending \subseteq Op
<1>1. ToSet(delayQueue) \subseteq Op /\ \A w \in Worker : ToSet(serialQueue[w]) \subseteq Op
  BY DEF QueueInv, QueueType, ToSet
<1>2. \A w \in Worker : pc[w] \in Executing => Current(w) \in Op
  BY CurrentOp DEF Executing
<1> QED
  BY <1>1, <1>2, PendingPlaces

\* What has left the workers is known by the ids of operations.
LEMMA PlacesType ==
  ASSUME CallbackInv
  PROVE  Ids(results) \cup Ids(waiting) \cup workload \cup todo \cup ToSet(called) \subseteq Id
<1>1. \A q \in Seq(Op) : Ids(q) \subseteq Id
  <2>1. \A q \in Seq(Op) : ToSet(q) \subseteq Op
    BY AppendedOp DEF ToSet
  <2> QED
    BY <2>1 DEF Ids, Op
<1>2. ToSet(called) \subseteq Id
  BY DEF CallbackInv, ResultType, ToSet
<1> QED
  BY <1>1, <1>2 DEF CallbackInv, ResultType

\* An operation that is queued is new in every place, and younger than every other.
LEMMA QueuingKeeps ==
  ASSUME QueueInv, CallbackInv, NEW op, Queues(op),
         UNCHANGED <<results, waiting, workload, todo, called>>
  PROVE  PlaceInv' /\ ArrivalInv'
<1>1. /\ op \in Op /\ op.id = next /\ next' = next + 1 /\ next \in Nat
      /\ Pending' = Pending \cup {op} /\ \A x \in Pending : x.id < next
      /\ asked' \in {asked, asked \cup {next}}
      /\ asked' # asked => op.kind \in {"safe", "unsafe"}
  BY DEF Queues, Executor!Queue, QueueInv, QueueType
<1>2. PlaceInv
  BY DEF CallbackInv
<1>3. PendingIds' = PendingIds \cup {next} /\ next \notin PendingIds
  BY <1>1 DEF PendingIds
<1> DEFINE others == Ids(results) \cup Ids(waiting) \cup workload \cup todo \cup ToSet(called)
<1>4. others' = others /\ next \notin others
  BY <1>1, <1>2 DEF PlaceInv
<1>5. next \notin asked
  BY <1>2, <1>3, <1>4 DEF PlaceInv
<1>6. \A i \in others : i < next'
  <2>1. others \subseteq Nat
    BY PlacesType DEF Id
  <2> QED
    BY <1>1, <1>2, <2>1 DEF PlaceInv
<1>7. \A x, y \in Pending' : x.id = y.id => x = y
  BY <1>1, <1>2 DEF PlaceInv
<1>8. \A x \in Pending' : x.id \in asked' => x.kind \in {"safe", "unsafe"}
  BY <1>1, <1>2, <1>5 DEF PlaceInv
<1>9. PlaceInv'
  BY <1>1, <1>2, <1>3, <1>4, <1>6, <1>7, <1>8 DEF PlaceInv
<1>10. ArrivalInv'
  <2>1. \A x \in ToSet(waiting) \cup ToSet(results) : x.id < next
    BY <1>2 DEF PlaceInv, Ids
  <2> QED
    BY <1>1, <2>1 DEF CallbackInv, ArrivalInv, Before
<1> QED
  BY <1>9, <1>10

\* A query's callback goes from the worker's hand to the end of the result queue; another
\* operation just leaves.
LEMMA AnsweringKeeps ==
  ASSUME QueueInv, CallbackInv, NEW w \in Worker, ExecuteOperation(w)
  PROVE  ResultType' /\ PlaceInv' /\ ArrivalInv'
<1> DEFINE op == Current(w)
<1>1. /\ op \in Op /\ op \in Pending /\ Pending' = Pending \ {op}
      /\ op.serial # 0 => \A x \in Pending : x.serial = op.serial => op.id <= x.id
  BY ExecuteTakes DEF Executor!Execute
<1>2. /\ UNCHANGED <<waiting, workload, todo, called, next, asked>>
      /\ results' = IF op.kind \in {"safe", "unsafe"} THEN Append(results, op) ELSE results
  BY DEF ExecuteOperation, clientVars
<1>3. PlaceInv /\ ArrivalInv /\ results \in Seq(Op)
  BY DEF CallbackInv, ResultType
<1>4. Pending \subseteq Op /\ \A x \in Pending : x.id < next
  BY PendingOp, PendingOlder
<1> HIDE DEF op
<1>5. \A x \in Pending' : x.id # op.id /\ (x.serial = op.serial /\ x.serial # 0 => op.id < x.id)
  BY <1>1, <1>3, <1>4 DEF PlaceInv, Op, Id
<1>6. PendingIds = PendingIds' \cup {op.id} /\ op.id \notin PendingIds'
  BY <1>1, <1>5 DEF PendingIds
<1>7. \A x, y \in Pending' : x.id = y.id => x = y
  BY <1>1, <1>3 DEF PlaceInv
<1>8. \A x \in Pending' : x.id \in asked => x.kind \in {"safe", "unsafe"}
  BY <1>1, <1>3 DEF PlaceInv
<1>9. op.id < next /\ op.id \notin Ids(results)
  BY <1>1, <1>3, <1>4, <1>6 DEF PlaceInv
<1>10. CASE op.kind \in {"safe", "unsafe"}
  <2>1. Before(ToSet(results), {op})
    BY <1>1, <1>3 DEF ArrivalInv, Before
  <2>2. /\ results' \in Seq(Op) /\ ToSet(results') = ToSet(results) \cup {op}
        /\ Ids(results') = Ids(results) \cup {op.id}
        /\ DistinctIds(results') /\ SerialOrdered(results')
    BY <1>1, <1>2, <1>3, <1>9, <1>10, <2>1, AppendedResult DEF PlaceInv, ArrivalInv
  <2>3. PlaceInv'
    BY <1>2, <1>3, <1>6, <1>7, <1>8, <1>9, <2>2 DEF PlaceInv
  <2>4. Pending' \subseteq Pending
    BY <1>1
  <2>5. /\ Before(ToSet(waiting), ToSet(results'))
        /\ Before(ToSet(waiting) \cup ToSet(results'), Pending')
    BY <1>1, <1>3, <1>5, <2>2, <2>4 DEF ArrivalInv, Before
  <2>6. ArrivalInv'
    BY <1>2, <1>3, <2>2, <2>5 DEF ArrivalInv
  <2> QED
    BY <2>2, <2>3, <2>6 DEF CallbackInv, ResultType, ExecuteOperation, clientVars
<1>11. CASE op.kind \notin {"safe", "unsafe"}
  <2>1. results' = results
    BY <1>2, <1>11
  <2>2. op.id \notin asked
    BY <1>1, <1>3, <1>11 DEF PlaceInv
  <2>3. PlaceInv'
    BY <1>2, <1>3, <1>6, <1>7, <1>8, <2>1, <2>2 DEF PlaceInv
  <2>4. ArrivalInv'
    BY <1>1, <1>2, <1>3, <2>1 DEF ArrivalInv, Before
  <2> QED
    BY <2>1, <2>3, <2>4 DEF CallbackInv, ResultType, ExecuteOperation, clientVars
<1> QED
  BY <1>10, <1>11

\* The head of the result queue goes to the end of the world thread's own queue, or into
\* the workload.
LEMMA CollectKeeps ==
  ASSUME QueueInv, CallbackInv, CollectResult, Pending' = Pending
  PROVE  CallbackInv'
<1> DEFINE op == Head(results)
           rest == Tail(results)
<1>1. /\ main \in {"run", "collect"} /\ main' = "collect" /\ results # <<>> /\ results' = rest
      /\ IF op.kind = "unsafe"
           THEN waiting' = Append(waiting, op) /\ workload' = workload
           ELSE workload' = workload \cup {op.id} /\ waiting' = waiting
      /\ UNCHANGED <<phase, todo, called, allowAsync, next, asked, running>>
  BY DEF CollectResult, IsUnsafe, clientVars, workerVars
<1>2. ResultType /\ PoolInv /\ PlaceInv /\ ArrivalInv
  BY DEF CallbackInv
<1>3. /\ op \in Op /\ rest \in Seq(Op)
      /\ ToSet(results) = ToSet(rest) \cup {op}
      /\ Ids(results) = Ids(rest) \cup {op.id} /\ op.id \notin Ids(rest)
      /\ DistinctIds(rest) /\ SerialOrdered(rest)
      /\ Before({op}, ToSet(rest))
  BY <1>1, <1>2, PoppedResult DEF ResultType, PlaceInv, ArrivalInv
<1> HIDE DEF op, rest
<1>4. PoolInv'
  BY <1>1, <1>2 DEF PoolInv
<1>5. PendingIds' = PendingIds
  BY DEF PendingIds
<1>6. CASE op.kind = "unsafe"
  <2>1. Before(ToSet(waiting), {op}) /\ op.id \notin Ids(waiting)
    BY <1>2, <1>3 DEF ArrivalInv, PlaceInv, Before
  <2> DEFINE queue == Append(waiting, op)
  <2>2. /\ queue \in Seq(Op) /\ ToSet(queue) = ToSet(waiting) \cup {op}
        /\ Ids(queue) = Ids(waiting) \cup {op.id}
        /\ DistinctIds(queue) /\ SerialOrdered(queue)
    <3>1. waiting \in Seq(Op) /\ DistinctIds(waiting) /\ SerialOrdered(waiting)
      BY <1>2 DEF ResultType, PlaceInv, ArrivalInv
    <3> QED
      BY <1>3, <2>1, <3>1, AppendedResult
  <2>3. waiting' = queue
    BY <1>1, <1>6
  <2> HIDE DEF queue
  <2>4. /\ waiting' \in Seq(Op) /\ ToSet(waiting') = ToSet(waiting) \cup {op}
        /\ Ids(waiting') = Ids(waiting) \cup {op.id}
        /\ DistinctIds(waiting') /\ SerialOrdered(waiting')
    BY <2>2, <2>3
  <2>5. ResultType'
    BY <1>1, <1>2, <1>3, <1>6, <2>4 DEF ResultType
  <2>6. PlaceInv'
    BY <1>1, <1>2, <1>3, <1>5, <1>6, <2>4 DEF PlaceInv
  <2>7. /\ Before(ToSet(waiting'), ToSet(rest))
        /\ Before(ToSet(waiting') \cup ToSet(rest), Pending)
    BY <1>2, <1>3, <2>4 DEF ArrivalInv, Before
  <2>8. ArrivalInv'
    BY <1>1, <1>3, <2>4, <2>7 DEF ArrivalInv
  <2> QED
    BY <1>4, <2>5, <2>6, <2>8 DEF CallbackInv
<1>7. CASE op.kind # "unsafe"
  <2>1. ResultType'
    BY <1>1, <1>2, <1>3, <1>7 DEF ResultType, Op
  <2>2. PlaceInv'
    BY <1>1, <1>2, <1>3, <1>5, <1>7 DEF PlaceInv
  <2>3. /\ Before(ToSet(waiting), ToSet(rest))
        /\ Before(ToSet(waiting) \cup ToSet(rest), Pending)
    BY <1>2, <1>3 DEF ArrivalInv, Before
  <2>4. ArrivalInv'
    BY <1>1, <1>2, <1>3, <1>7, <2>3 DEF ArrivalInv
  <2> QED
    BY <1>4, <2>1, <2>2, <2>4 DEF CallbackInv
<1> QED
  BY <1>6, <1>7

\* The workload becomes the pool's job.
LEMMA SubmitKeeps ==
  ASSUME QueueInv, CallbackInv, ProcessWorkload, Pending' = Pending
  PROVE  CallbackInv'
<1>1. /\ main \in {"run", "collect"} /\ main' = "callbacks" /\ workload' = {}
      /\ UNCHANGED <<results, waiting, called, allowAsync, next, asked, running>>
  BY DEF ProcessWorkload, clientVars, workerVars
<1>2. ResultType /\ PoolInv /\ PlaceInv /\ ArrivalInv
  BY DEF CallbackInv
<1>3. phase = "idle" /\ todo = {} /\ todo' = workload /\ phase' \in {"idle", "running"}
      /\ (phase' = "idle" => todo' = {})
  BY <1>1, <1>2 DEF PoolInv, ProcessWorkload, Pool!Submit
<1>4. PendingIds' = PendingIds
  BY DEF PendingIds
<1>5. ResultType' /\ PoolInv'
  BY <1>1, <1>2, <1>3 DEF ResultType, PoolInv
<1>6. PlaceInv'
  BY <1>1, <1>2, <1>3, <1>4 DEF PlaceInv
<1>7. ArrivalInv'
  BY <1>1, <1>2 DEF ArrivalInv
<1> QED
  BY <1>5, <1>6, <1>7 DEF CallbackInv

\* The world thread runs the first of its callbacks.
LEMMA RunUnsafeKeeps ==
  ASSUME QueueInv, CallbackInv, RunUnsafe, Pending' = Pending
  PROVE  CallbackInv'
<1> DEFINE op == Head(waiting)
           rest == Tail(waiting)
<1>1. /\ main = "callbacks" /\ main' \in {"callbacks", "wait"} /\ waiting # <<>> /\ waiting' = rest
      /\ called' = Append(called, op.id)
      /\ UNCHANGED <<results, workload, phase, todo, allowAsync, next, asked, running>>
  BY DEF RunUnsafe, clientVars, workerVars
<1>2. ResultType /\ PoolInv /\ PlaceInv /\ ArrivalInv
  BY DEF CallbackInv
<1>3. /\ op \in Op /\ rest \in Seq(Op)
      /\ ToSet(waiting) = ToSet(rest) \cup {op}
      /\ Ids(waiting) = Ids(rest) \cup {op.id} /\ op.id \notin Ids(rest)
      /\ DistinctIds(rest) /\ SerialOrdered(rest)
  BY <1>1, <1>2, PoppedResult DEF ResultType, PlaceInv, ArrivalInv
<1> HIDE DEF op, rest
<1>4. /\ called' \in Seq(Id) /\ IsInjective(called')
      /\ ToSet(called') = ToSet(called) \cup {op.id}
  <2>1. op.id \in Id /\ op.id \notin ToSet(called)
    BY <1>2, <1>3 DEF PlaceInv, Op
  <2> QED
    BY <1>1, <1>2, <2>1, Calling DEF ResultType, PlaceInv
<1>5. PendingIds' = PendingIds
  BY DEF PendingIds
<1>6. ResultType' /\ PoolInv'
  BY <1>1, <1>2, <1>3, <1>4 DEF ResultType, PoolInv
<1>7. PlaceInv'
  BY <1>1, <1>2, <1>3, <1>4, <1>5 DEF PlaceInv
<1>8. Before(ToSet(rest), ToSet(results)) /\ Before(ToSet(rest) \cup ToSet(results), Pending)
  BY <1>2, <1>3 DEF ArrivalInv, Before
<1>9. ArrivalInv'
  BY <1>1, <1>2, <1>3, <1>8 DEF ArrivalInv
<1> QED
  BY <1>6, <1>7, <1>9 DEF CallbackInv

\* A thread of the pool runs one of the job's callbacks.
LEMMA RunSafeKeeps ==
  ASSUME QueueInv, CallbackInv, NEW t \in Id, RunSafe(t), Pending' = Pending
  PROVE  CallbackInv'
<1>1. /\ phase = "running" /\ t \in todo /\ todo' = todo \ {t} /\ phase' = phase
      /\ called' = Append(called, t)
      /\ UNCHANGED <<results, waiting, workload, allowAsync, next, asked, running, main>>
  BY DEF RunSafe, Pool!Execute, clientVars, workerVars
<1>2. ResultType /\ PoolInv /\ PlaceInv /\ ArrivalInv
  BY DEF CallbackInv
<1>3. /\ called' \in Seq(Id) /\ IsInjective(called')
      /\ ToSet(called') = ToSet(called) \cup {t}
  <2>1. t \notin ToSet(called)
    BY <1>1, <1>2 DEF PlaceInv
  <2> QED
    BY <1>1, <1>2, <2>1, Calling DEF ResultType, PlaceInv
<1>4. PendingIds' = PendingIds
  BY DEF PendingIds
<1>5. ResultType' /\ PoolInv'
  BY <1>1, <1>2, <1>3 DEF ResultType, PoolInv
<1>6. PlaceInv'
  BY <1>1, <1>2, <1>3, <1>4 DEF PlaceInv
<1>7. ArrivalInv'
  BY <1>1, <1>2 DEF ArrivalInv
<1> QED
  BY <1>5, <1>6, <1>7 DEF CallbackInv

\* At the shutdown the callbacks left in the result queue run on the stopping thread.
LEMMA CancelKeeps ==
  ASSUME QueueInv, CallbackInv, CancelNext, Pending' = Pending
  PROVE  CallbackInv'
<1> DEFINE op == Head(results)
           rest == Tail(results)
<1>1. /\ main = "cancel" /\ results # <<>> /\ results' = rest
      /\ called' = Append(called, op.id)
      /\ UNCHANGED <<waiting, workload, phase, todo, allowAsync, next, asked, running, main>>
  BY DEF CancelNext, clientVars, workerVars
<1>2. ResultType /\ PoolInv /\ PlaceInv /\ ArrivalInv
  BY DEF CallbackInv
<1>3. /\ op \in Op /\ rest \in Seq(Op)
      /\ ToSet(results) = ToSet(rest) \cup {op}
      /\ Ids(results) = Ids(rest) \cup {op.id} /\ op.id \notin Ids(rest)
      /\ DistinctIds(rest) /\ SerialOrdered(rest)
  BY <1>1, <1>2, PoppedResult DEF ResultType, PlaceInv, ArrivalInv
<1> HIDE DEF op, rest
<1>4. /\ called' \in Seq(Id) /\ IsInjective(called')
      /\ ToSet(called') = ToSet(called) \cup {op.id}
  <2>1. op.id \in Id /\ op.id \notin ToSet(called)
    BY <1>2, <1>3 DEF PlaceInv, Op
  <2> QED
    BY <1>1, <1>2, <2>1, Calling DEF ResultType, PlaceInv
<1>5. PendingIds' = PendingIds
  BY DEF PendingIds
<1>6. ResultType' /\ PoolInv'
  BY <1>1, <1>2, <1>3, <1>4 DEF ResultType, PoolInv
<1>7. PlaceInv'
  BY <1>1, <1>2, <1>3, <1>4, <1>5 DEF PlaceInv
<1>8. Before(ToSet(waiting), ToSet(rest)) /\ Before(ToSet(waiting) \cup ToSet(rest), Pending)
  BY <1>2, <1>3 DEF ArrivalInv, Before
<1>9. ArrivalInv'
  BY <1>1, <1>2, <1>3, <1>8 DEF ArrivalInv
<1> QED
  BY <1>6, <1>7, <1>9 DEF CallbackInv

----------------------------------------------------------------------------
(* The invariant as a whole. *)

\* Where the world thread goes when no callback moves.
OtherStep ==
  \/ AllowAsyncTransactions \/ EndUnsafe \/ WaitForPool \/ Halt \/ JoinWorkers \/ EndHalt
  \/ StopServer \/ Stopped \/ UNCHANGED vars

\* These steps move no callback.
LEMMA OtherKeeps ==
  ASSUME QueueInv, CallbackInv, OtherStep, Pending' = Pending
  PROVE  CallbackInv'
<1>1. ResultType /\ PoolInv /\ PlaceInv /\ ArrivalInv
  BY DEF CallbackInv
<1>2. /\ UNCHANGED <<results, waiting, workload, todo, called, next, asked>>
      /\ allowAsync' \in BOOLEAN /\ running' \in [Worker -> BOOLEAN]
  BY <1>1 DEF OtherStep, AllowAsyncTransactions, EndUnsafe, WaitForPool, Pool!Collect, Halt,
     JoinWorkers, EndHalt, StopServer, Stopped, ResultType, resultVars, clientVars, workerVars, vars
<1>3. ResultType' /\ PoolInv'
  <2>1. CASE WaitForPool
    BY <1>1, <1>2, <2>1 DEF WaitForPool, Pool!Collect, ResultType, PoolInv
  <2>2. CASE EndUnsafe
    BY <1>1, <1>2, <2>2 DEF EndUnsafe, ResultType, PoolInv, resultVars
  <2>3. CASE Halt
    BY <1>1, <1>2, <2>3 DEF Halt, ResultType, PoolInv, resultVars
  <2>4. CASE JoinWorkers \/ EndHalt \/ StopServer
    BY <1>1, <1>2, <2>4 DEF JoinWorkers, EndHalt, StopServer, ResultType, PoolInv, resultVars
  <2>5. CASE AllowAsyncTransactions \/ Stopped \/ UNCHANGED vars
    BY <1>1, <1>2, <2>5 DEF AllowAsyncTransactions, Stopped, ResultType, PoolInv, resultVars, vars
  <2> QED
    BY <2>1, <2>2, <2>3, <2>4, <2>5 DEF OtherStep
<1>4. PendingIds' = PendingIds
  BY DEF PendingIds
<1>5. PlaceInv'
  BY <1>1, <1>2, <1>4 DEF PlaceInv
<1>6. ArrivalInv'
  BY <1>1, <1>2 DEF ArrivalInv
<1> QED
  BY <1>3, <1>5, <1>6 DEF CallbackInv

\* A step of a thread that queues operations, or of a worker.
LEMMA ThreadKeeps ==
  ASSUME QueueInv, CallbackInv,
         (\E p \in Producer : ProducerStep(p))
           \/ (\E w \in Worker : WorkerStep(w) \/ DestroyBody(w))
  PROVE  CallbackInv'
<1>1. ASSUME (\E op : Queues(op)) \/ UNCHANGED <<Pending, next, asked>>,
             UNCHANGED <<resultVars, main, allowAsync, running>>,
             next' = next \/ next <= MaxOp
      PROVE  CallbackInv'
  <2>1. ResultType /\ PoolInv /\ PlaceInv /\ ArrivalInv /\ next \in Nat \ {0}
    BY DEF CallbackInv, QueueInv, QueueType
  <2>2. CASE \E op : Queues(op)
    <3>1. next' = next + 1 /\ asked' \in {asked, asked \cup {next}} /\ next <= MaxOp
      BY <1>1, <2>1, <2>2 DEF Queues
    <3>2. asked' \in SUBSET Id /\ next' <= MaxOp + 1
      BY <2>1, <3>1 DEF ResultType, Id
    <3>3. ResultType' /\ PoolInv'
      BY <1>1, <2>1, <3>2 DEF ResultType, PoolInv, resultVars
    <3>4. PlaceInv' /\ ArrivalInv'
      BY <1>1, <2>2, QueuingKeeps DEF resultVars
    <3> QED
      BY <3>3, <3>4 DEF CallbackInv
  <2>3. CASE UNCHANGED <<Pending, next, asked>>
    <3>1. PendingIds' = PendingIds
      BY <2>3 DEF PendingIds
    <3>2. ResultType' /\ PoolInv' /\ ArrivalInv'
      BY <1>1, <2>1, <2>3 DEF ResultType, PoolInv, ArrivalInv, resultVars
    <3>3. PlaceInv'
      BY <1>1, <2>1, <2>3, <3>1 DEF PlaceInv, resultVars
    <3> QED
      BY <3>2, <3>3 DEF CallbackInv
  <2> QED
    BY <1>1, <2>2, <2>3
<1>2. ASSUME NEW p \in Producer, ProducerStep(p) PROVE CallbackInv'
  <2>1. UNCHANGED <<resultVars, main, allowAsync, running>>
    BY <1>2 DEF ProducerStep, Execute, CommitTransaction, RollbackTransaction, AsyncQuery,
       BeginTransaction, DelayQueryHolder, workerVars
  <2>2. next' = next \/ next <= MaxOp
    BY <1>2 DEF ProducerStep, Execute, CommitTransaction, RollbackTransaction, AsyncQuery,
       BeginTransaction, DelayQueryHolder, AddToDelayQueue, AddToSerialDelayQueue
  <2> QED
    BY <1>1, <1>2, <2>1, <2>2, ProducerQueues
<1>3. ASSUME NEW w \in Worker, Finish(w) PROVE CallbackInv'
  <2>1. UNCHANGED <<resultVars, main, allowAsync, running>> /\ (next' = next \/ next <= MaxOp)
    BY <1>3 DEF Finish
  <2> QED
    BY <1>1, <1>3, <2>1, FinishQueues
<1>4. ASSUME NEW w \in Worker, NextShared(w) \/ NextSerial(w) PROVE CallbackInv'
  <2>1. UNCHANGED <<resultVars, main, allowAsync, running, next, asked>>
    BY <1>4 DEF NextShared, NextSerial, clientVars
  <2> QED
    BY <1>1, <1>4, <2>1, NextRefines
<1>5. ASSUME NEW w \in Worker, Loop(w) \/ DestroyBody(w) PROVE CallbackInv'
  <2>1. UNCHANGED <<resultVars, main, allowAsync, running, next, asked, queueVars>>
    BY <1>5 DEF Loop, DestroyBody, clientVars
  <2>2. SameHands
    BY <1>5 DEF Loop, DestroyBody, Goto, SameHands, Executing, QueueInv, QueueType
  <2> QED
    BY <1>1, <2>1, <2>2, SamePending
<1>6. ASSUME NEW w \in Worker, ExecuteOperation(w) PROVE CallbackInv'
  <2>1. PoolInv'
    BY <1>6 DEF ExecuteOperation, CallbackInv, PoolInv
  <2> QED
    BY <1>6, <2>1, AnsweringKeeps DEF CallbackInv
<1> QED
  BY <1>2, <1>3, <1>4, <1>5, <1>6 DEF WorkerStep

\* At the start there is no callback anywhere.
LEMMA CallbackInit == Init => CallbackInv
<1> SUFFICES ASSUME Init PROVE CallbackInv
  OBVIOUS
<1>1. Pending = {}
  BY EmptyQueue DEF Init, Pending, InHand
<1>2. <<>> \in Seq(Id) /\ Len(<<>>) = 0 /\ DOMAIN <<>> = {}
  OBVIOUS
<1>3. ResultType
  <2>1. running \in [Worker -> BOOLEAN]
    BY DEF Init
  <2>2. next = 1 /\ next <= MaxOp + 1
    BY DEF Init
  <2>3. /\ allowAsync = FALSE /\ results = <<>> /\ waiting = <<>> /\ workload = {}
        /\ phase = "idle" /\ todo = {} /\ main = "run" /\ asked = {} /\ called = <<>>
    BY DEF Init, Pool!Init
  <2> QED
    BY <1>2, <2>1, <2>2, <2>3, EmptyQueue DEF ResultType
<1>4. PoolInv
  BY DEF Init, Pool!Init, PoolInv
<1>5. PlaceInv
  BY <1>1, <1>2, EmptyQueue DEF Init, Pool!Init, PlaceInv, PendingIds, Ids, DistinctIds, IsInjective
<1>6. ArrivalInv
  BY <1>1, <1>2, EmptyQueue DEF Init, ArrivalInv, Before, SerialOrdered
<1> QED
  BY <1>3, <1>4, <1>5, <1>6 DEF CallbackInv

\* Every step keeps the invariant.
LEMMA CallbackStep ==
  ASSUME QueueInv, CallbackInv, [Next]_vars
  PROVE  CallbackInv'
<1>1. CASE (\E p \in Producer : ProducerStep(p))
             \/ (\E w \in Worker : WorkerStep(w) \/ DestroyBody(w))
  BY <1>1, ThreadKeeps
<1>2. ASSUME CollectResult \/ ProcessWorkload \/ RunUnsafe \/ CancelNext \/ OtherStep
             \/ \E t \in Id : RunSafe(t)
      PROVE  CallbackInv'
  <2>1. UNCHANGED queueVars /\ UNCHANGED <<pc, hand>>
    BY <1>2 DEF CollectResult, ProcessWorkload, RunUnsafe, CancelNext, RunSafe, OtherStep,
       AllowAsyncTransactions, EndUnsafe, WaitForPool, Halt, JoinWorkers, EndHalt, StopServer,
       Stopped, vars, workerVars
  <2>2. Pending' = Pending
    BY <2>1, SamePending DEF SameHands
  <2> QED
    BY <1>2, <2>2, CollectKeeps, SubmitKeeps, RunUnsafeKeeps, CancelKeeps, OtherKeeps, RunSafeKeeps
<1> QED
  BY <1>1, <1>2 DEF Next, UpdateStep, StopStep, OtherStep

\* The inductive invariant of the callbacks.
THEOREM CallbackInvHolds == Spec => [](QueueInv /\ CallbackInv)
<1>1. QueueInv /\ CallbackInv /\ [Next]_vars => CallbackInv'
  BY CallbackStep
<1> QED
  BY <1>1, CallbackInit, QueueInvHolds, PTL DEF Spec

\* The two invariants hold every conjunct of TypeOK.
LEMMA InvTypes ==
  ASSUME QueueInv, CallbackInv
  PROVE  TypeOK
<1>1. next \in 1..(MaxOp + 1)
  BY DEF QueueInv, QueueType, CallbackInv, ResultType
<1>2. numWorkers \in {0, Workers}
  BY DEF QueueInv, StageInv
<1> QED
  BY <1>1, <1>2 DEF TypeOK, QueueInv, QueueType, Stations, CallbackInv, ResultType

\* Every variable stays in its range.
THEOREM TypeOKHolds == Spec => []TypeOK
<1>1. QueueInv /\ CallbackInv => TypeOK
  BY InvTypes
<1> QED
  BY <1>1, CallbackInvHolds, PTL

\* No query is forgotten, and no callback runs twice.
THEOREM CallbackOnceHolds == Spec => []CallbackOnce
<1>1. QueueInv /\ CallbackInv => CallbackOnce
  <2> SUFFICES ASSUME QueueInv, CallbackInv PROVE CallbackOnce
    OBVIOUS
  <2>1. PlaceInv /\ TypeOK
    BY InvTypes DEF CallbackInv
  <2> QED
    BY <2>1 DEF PlaceInv, PendingIds, CallbackOnce
<1> QED
  BY <1>1, CallbackInvHolds, PTL

\* The world thread's own queue keeps the order of every serial id.
THEOREM CallbackOrderHolds == Spec => []CallbackOrder
<1>1. CallbackInv => CallbackOrder
  BY DEF CallbackInv, ArrivalInv, SerialOrdered, CallbackOrder
<1> QED
  BY <1>1, CallbackInvHolds, PTL
=============================================================================
