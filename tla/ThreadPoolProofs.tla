-------------------------- MODULE ThreadPoolProofs --------------------------
(***************************************************************************)
(* Proofs about the worker pool, for any number of workers, either kind of *)
(* worker, any clear mode, any error handling and any set of tasks that    *)
(* throw.                                                                  *)
(***************************************************************************)
EXTENDS ThreadPool, FiniteSetTheorems, TLAPS

----------------------------------------------------------------------------
(* Arithmetic of worker_mq's stride. *)

\* The worker that runs task number k of the workload, k % m_size, is a worker.
LEMMA SlotIsWorker ==
  ASSUME NEW N \in Nat \ {0}, NEW k \in Nat
  PROVE  k % N \in 0..(N - 1) /\ k % N <= k
<1>1. k = N * (k \div N) + (k % N) /\ k % N \in 0..(N - 1)
  OBVIOUS
<1>2. k \div N \in Nat
  OBVIOUS
<1>3. N * (k \div N) >= 0
  BY <1>2
<1> QED
  BY <1>1, <1>3

\* Advancing by m_size keeps the worker's residue.
LEMMA StrideKeepsSlot ==
  ASSUME NEW N \in Nat \ {0}, NEW k \in Nat
  PROVE  (k + N) % N = k % N
<1> DEFINE p == k \div N
           q == (k + N) \div N
<1>1. k = N * p + (k % N) /\ p \in Int /\ k % N \in 0..(N - 1)
  OBVIOUS
<1>2. k + N = N * q + ((k + N) % N) /\ q \in Int /\ (k + N) % N \in 0..(N - 1)
  OBVIOUS
<1>3. N * (q - p - 1) = (k % N) - ((k + N) % N)
  BY <1>1, <1>2
<1>4. CASE q - p - 1 = 0
  BY <1>1, <1>2, <1>3, <1>4
<1>5. CASE q - p - 1 >= 1
  BY <1>1, <1>2, <1>3, <1>5
<1>6. CASE q - p - 1 <= -1
  BY <1>1, <1>2, <1>3, <1>6
<1> QED
  BY <1>1, <1>2, <1>4, <1>5, <1>6

\* Two positions of one worker are equal or at least m_size apart.
LEMMA StrideApart ==
  ASSUME NEW N \in Nat \ {0}, NEW a \in Nat, NEW b \in Nat,
         a <= b, a % N = b % N
  PROVE  a = b \/ a + N <= b
<1> DEFINE p == a \div N
           q == b \div N
<1>1. a = N * p + (a % N) /\ b = N * q + (b % N) /\ p \in Int /\ q \in Int
  OBVIOUS
<1>2. b - a = N * (q - p)
  BY <1>1
<1>3. CASE q - p <= 0
  BY <1>2, <1>3, <1>1
<1>4. CASE q - p >= 1
  BY <1>2, <1>4, <1>1
<1> QED
  BY <1>1, <1>3, <1>4

----------------------------------------------------------------------------
(* The inductive invariant: one lemma per action. *)

USE PoolAssumption DEF Worker, Task

\* Sets of workers are finite, so the set of engaged workers can be counted.
LEMMA WorkersFinite ==
  ASSUME NEW S \in SUBSET Worker
  PROVE  /\ IsFiniteSet(S)
         /\ Cardinality(S) \in Nat
         /\ Cardinality(S) = 0 <=> S = {}
<1>1. IsFiniteSet(0..(Size - 1))
  BY FS_Interval
<1>2. IsFiniteSet(S)
  BY <1>1, FS_Subset
<1> QED
  BY <1>2, FS_EmptySet, FS_CardinalityType

\* A step that moves one worker neither into, out of, nor past the job, and
\* touches nothing of the job, keeps the invariant.
LEMMA IdleStepKeeps ==
  ASSUME JobInv, NEW w \in Worker,
         pc[w] \in {"check", "asleep", "woken", "fetch", "post"},
         NEW l \in {"check", "asleep", "woken", "exited", "fetch", "release"},
         pc' = [pc EXCEPT ![w] = l],
         l = "woken" => busy[w] \/ status = "TERMINATING",
         l = "fetch" => busy[w],
         l = "release" => pc[w] = "post",
         UNCHANGED <<poolVars, busy, it, cursor, ownerVars, history>>
  PROVE  JobInv'
<1> USE DEF JobInv, poolVars, ownerVars, history
<1>1. TypeOK'
  BY DEF TypeOK, Labels
<1>2. Engaged' = Engaged /\ Finishing' = Finishing
  BY DEF Engaged, Finishing, TypeOK
<1>3. Doomed => Doomed'
  BY DEF Doomed, TypeOK
<1>4. BusyInv'
  BY DEF BusyInv, TypeOK, PhaseInv, Engaged
<1>5. PhaseInv'
  BY <1>2, <1>3 DEF PhaseInv, TypeOK
<1>6. FinishInv'
  BY <1>2 DEF FinishInv
<1>7. CoverInv'
  <2> SUFFICES ASSUME Unfinished'
               PROVE  CoverInv'
    BY DEF CoverInv
  <2>1. Unfinished
    BY <1>2, <1>3 DEF Unfinished
  <2>2. \A i \in 1..Len(workload) : Remaining(i) => Remaining(i)'
    BY DEF Remaining, Front, Slot, TypeOK
  <2>3. \A v \in Worker : Drained(v) => Drained(v)'
    BY DEF Drained, Front
  <2> QED
    BY <2>1, <2>2, <2>3 DEF CoverInv, TypeOK
<1>8. JobDone'
  BY <1>2 DEF JobDone
<1> QED
  BY <1>1, <1>4, <1>5, <1>6, <1>7, <1>8

\* A worker that evaluates its wait condition, and sleeps or wakes, keeps the
\* invariant: it claims no task before it is woken.
LEMMA WaitForWorkKeeps ==
  ASSUME JobInv, NEW w \in Worker, WaitForWork(w)
  PROVE  JobInv'
<1>1. CASE busy[w] \/ status = "TERMINATING"
  BY <1>1, IdleStepKeeps DEF WaitForWork, Goto
<1>2. CASE ~(busy[w] \/ status = "TERMINATING")
  BY <1>2, IdleStepKeeps DEF WaitForWork, Goto
<1> QED
  BY <1>1, <1>2

\* A spurious wakeup keeps the invariant: the condition is evaluated again.
LEMMA SpuriousWakeupKeeps ==
  ASSUME JobInv, NEW w \in Worker, SpuriousWakeup(w)
  PROVE  JobInv'
BY IdleStepKeeps DEF SpuriousWakeup, Goto

\* A worker that leaves waitForWork() keeps the invariant: it enters doWork only
\* when it was made busy.
LEMMA BeginKeeps ==
  ASSUME JobInv, NEW w \in Worker, Begin(w)
  PROVE  JobInv'
<1>1. CASE status = "TERMINATING"
  BY <1>1, IdleStepKeeps DEF Begin, Goto
<1>2. CASE status # "TERMINATING"
  <2>1. busy[w]
    BY <1>2 DEF Begin, JobInv, BusyInv
  <2> QED
    BY <1>2, <2>1, IdleStepKeeps DEF Begin, Goto
<1> QED
  BY <1>1, <1>2

\* The return of post() keeps the invariant.
LEMMA PostKeeps ==
  ASSUME JobInv, NEW w \in Worker, Post(w)
  PROVE  JobInv'
BY IdleStepKeeps DEF Post, Goto

\* Outside a job no worker is engaged, finishing or doomed.
LEMMA OutsideJob ==
  ASSUME JobInv, owner \notin {"await", "aborted"}
  PROVE  /\ Engaged = {}
         /\ Finishing = {}
         /\ \A w \in Worker :
              /\ ~busy[w]
              /\ pc[w] \in {"unborn", "check", "asleep", "woken", "exited"}
<1>1. Engaged = {} /\ Finishing = {}
  BY DEF JobInv, PhaseInv, FinishInv
<1> QED
  BY <1>1 DEF JobInv, TypeOK, Labels, BusyInv, Engaged, Finishing

\* start() keeps the invariant: no job exists while the pool is STOPPED and idle.
LEMMA StartKeeps ==
  ASSUME JobInv, Start
  PROVE  JobInv'
<1> USE DEF JobInv, poolVars, workerVars, ownerVars, history, Start
<1>1. TypeOK'
  BY DEF TypeOK, Labels
<1>2. Engaged' = {} /\ Finishing' = {}
  BY OutsideJob DEF Engaged, Finishing
<1>3. BusyInv'
  BY OutsideJob DEF BusyInv
<1>4. PhaseInv' /\ FinishInv' /\ CoverInv' /\ JobDone'
  BY <1>2 DEF PhaseInv, FinishInv, CoverInv, Unfinished, JobDone
<1> QED
  BY <1>1, <1>3, <1>4

\* A workload that is emptied, or kept, is still a sequence of tasks.
LEMMA KeptWorkload ==
  ASSUME TypeOK, NEW stale
  PROVE  (IF stale THEN <<>> ELSE workload) \in Seq(Task)
<1>1. <<>> \in Seq(Task) /\ workload \in Seq(Task)
  BY DEF TypeOK
<1>2. CASE stale
  BY <1>1, <1>2, Zenon
<1>3. CASE ~stale
  BY <1>1, <1>3, Zenon
<1> QED
  BY <1>2, <1>3, Zenon

\* operator<< keeps the invariant: the owner adds tasks between two jobs only.
LEMMA AddTaskKeeps ==
  ASSUME JobInv, AddTask
  PROVE  JobInv'
<1> USE DEF JobInv, poolVars, workerVars, ownerVars, history, AddTask
<1> DEFINE stale == ClearMode = "AT_NEXT_WORKLOAD" /\ dirty
           kept == IF stale THEN <<>> ELSE workload
<1>1. next \in Task /\ dirty' \in BOOLEAN /\ next' \in 1..(MaxTask + 1)
  BY DEF TypeOK
<1>2. TypeOK'
  <2>1. workload' = Append(kept, next)
    OBVIOUS
  <2>2. workload' \in Seq(Task)
    <3>1. kept \in Seq(Task)
      BY KeptWorkload, Zenon
    <3>2. \A s \in Seq(Task), t \in Task : Append(s, t) \in Seq(Task)
      OBVIOUS
    <3> HIDE DEF kept, AddTask
    <3> QED
      BY <1>1, <2>1, <3>1, <3>2, Zenon
  <2> QED
    BY <1>1, <2>2 DEF TypeOK
<1>3. Engaged' = {} /\ Finishing' = {}
  BY OutsideJob DEF Engaged, Finishing
<1>4. BusyInv'
  BY OutsideJob DEF BusyInv, TypeOK
<1>5. PhaseInv' /\ FinishInv' /\ CoverInv' /\ JobDone'
  BY <1>3 DEF PhaseInv, FinishInv, CoverInv, Unfinished, JobDone
<1> QED
  BY <1>2, <1>4, <1>5

\* Both overloads of processWorkload come down to Publish.
LEMMA PublishKeeps ==
  ASSUME JobInv, owner = "idle",
         NEW load \in Seq(Task), Publish(load),
         dirty' \in BOOLEAN, next' \in 1..(MaxTask + 1),
         UNCHANGED <<errors, workerVars, ran>>
  PROVE  JobInv'
<1> USE DEF JobInv, poolVars, workerVars, ownerVars, history
<1>1. Engaged' = {} /\ Finishing' = {}
  BY OutsideJob DEF Engaged, Finishing
<1>2. BusyInv'
  BY OutsideJob, status' = "TERMINATING" <=> status = "TERMINATING"
  DEF BusyInv, Publish, TypeOK
<1>3. CASE status # "READY" \/ load = <<>>
  <2>1. TypeOK'
    BY <1>3 DEF TypeOK, Publish
  <2>2. PhaseInv' /\ FinishInv' /\ CoverInv' /\ JobDone'
    BY <1>1, <1>3 DEF PhaseInv, FinishInv, CoverInv, Unfinished, JobDone, Publish
  <2> QED
    BY <1>2, <2>1, <2>2
<1>4. CASE ~(status # "READY" \/ load = <<>>)
  <2>1. TypeOK'
    <3>1. /\ workload' = load /\ Len(load) \in Nat
          /\ active' = Minimum(Size, Len(load)) /\ index' = 0
          /\ promise' = "pending" /\ status' = "PROCESSING" /\ owner' = "dispatch"
          /\ owed' = {load[i] : i \in 1..Len(load)}
      BY <1>4 DEF Publish
    <3>2. active' \in Nat
      BY <3>1 DEF Minimum
    <3>3. owed' \in SUBSET Task
      BY <3>1
    <3> QED
      BY <3>1, <3>2, <3>3 DEF TypeOK
  <2>2. PhaseInv'
    BY <1>1, <1>4 DEF PhaseInv, Publish
  <2>3. FinishInv' /\ CoverInv' /\ JobDone'
    BY <1>1, <1>4 DEF FinishInv, CoverInv, Unfinished, JobDone, Publish
  <2> QED
    BY <1>2, <2>1, <2>2, <2>3
<1> QED
  BY <1>3, <1>4

\* processWorkload(pre, post) keeps the invariant.
LEMMA ProcessKeeps ==
  ASSUME JobInv, Process
  PROVE  JobInv'
<1> DEFINE stale == ClearMode = "AT_NEXT_WORKLOAD" /\ status = "READY" /\ dirty
           load == IF stale THEN <<>> ELSE workload
<1>1. load \in Seq(Task)
  BY KeptWorkload, Zenon DEF JobInv
<1>2. Publish(load) /\ owner = "idle"
  BY DEF Process
<1>3. dirty' \in BOOLEAN /\ next' \in 1..(MaxTask + 1)
  BY DEF Process, JobInv, TypeOK
<1>4. UNCHANGED <<errors, workerVars, ran>>
  BY DEF Process
<1> HIDE DEF load
<1> QED
  BY <1>1, <1>2, <1>3, <1>4, PublishKeeps

\* processWorkload(workload, pre, post) keeps the invariant.
LEMMA ProcessNewKeeps ==
  ASSUME JobInv, NEW k \in 0..MaxBatch, ProcessNew(k)
  PROVE  JobInv'
<1> DEFINE load == [i \in 1..k |-> next + i - 1]
<1>1. \A i \in 1..k : next + i - 1 \in Task
  BY DEF ProcessNew, JobInv, TypeOK
<1>2. load \in Seq(Task)
  BY <1>1
<1>3. dirty' \in BOOLEAN /\ next' \in 1..(MaxTask + 1)
  BY DEF ProcessNew, JobInv, TypeOK
<1> QED
  BY <1>2, <1>3, PublishKeeps DEF ProcessNew

\* The m_active workers prepared are as many as m_active says, and every task
\* has its worker among them.
LEMMA DispatchKeeps ==
  ASSUME JobInv, Dispatch
  PROVE  JobInv'
<1> USE DEF JobInv, poolVars, ownerVars, history, Dispatch
<1>1. /\ active = Minimum(Size, Len(workload)) /\ active \in Nat
      /\ Size # 0 /\ Size \in Nat /\ Len(workload) \in Nat
      /\ promise = "pending" /\ status = "PROCESSING" /\ index = 0
      /\ owed = {workload[i] : i \in 1..Len(workload)}
  BY DEF PhaseInv, TypeOK
<1>2. TypeOK'
  BY DEF TypeOK, Labels, Notified
<1>3. \A w \in Worker : busy'[w] <=> w < active
  BY OutsideJob DEF TypeOK
<1>4. \A w \in Worker : pc'[w] \in {"unborn", "check", "woken", "exited"}
  BY OutsideJob DEF Notified, TypeOK
<1>5. Engaged' = 0..(active - 1) /\ Finishing' = {}
  BY <1>1, <1>3, <1>4 DEF Engaged, Finishing, Minimum
<1>6. Cardinality(Engaged') = active
  BY <1>1, <1>5, FS_Interval
<1>7. BusyInv'
  <2>1. \A w \in Worker : pc'[w] = "woken" => busy'[w] \/ status' = "TERMINATING"
    BY <1>1, OutsideJob DEF BusyInv, Notified
  <2>2. \A w \in Worker : busy'[w] => it'[w] % Size = w
    BY <1>1, <1>3
  <2> QED
    BY <1>3, <1>4, <2>1, <2>2 DEF BusyInv
<1>8. PhaseInv'
  BY <1>1, <1>6 DEF PhaseInv
<1>9. FinishInv' /\ JobDone'
  BY <1>1, <1>5 DEF FinishInv, JobDone
<1>10. CoverInv'
  <2>1. ASSUME NEW i \in 1..Len(workload)
        PROVE  Remaining(i)'
    <3>1. CASE Kind = "sq"
      BY <1>1, <3>1 DEF Remaining, Front, Slot
    <3>2. CASE Kind = "mq"
      <4>1. i - 1 \in Nat /\ i <= Len(workload) /\ Size \in Nat \ {0}
        BY <1>1
      <4>2. (i - 1) % Size \in 0..(Size - 1) /\ (i - 1) % Size <= i - 1
        BY <4>1, SlotIsWorker
      <4>3. Slot(i) \in 0..(Size - 1) /\ Slot(i) <= i - 1
        BY <3>2, <4>2 DEF Slot
      <4>4. Slot(i) \in Worker /\ Slot(i) < i /\ Slot(i) < active
        BY <1>1, <4>1, <4>3 DEF Minimum
      <4> QED
        BY <3>2, <4>4 DEF Remaining, Front, Slot
    <3> QED
      BY <3>1, <3>2
  <2>2. \A w \in Worker :
          ~(pc'[w] \in {"post", "release"} \/ (w < Len(workload) /\ ~busy'[w]))
    BY <1>1, <1>3, <1>4 DEF Minimum
  <2> QED
    BY <1>1, <2>1, <2>2 DEF CoverInv
<1> QED
  BY <1>2, <1>7, <1>8, <1>9, <1>10

\* The return of job.wait() keeps the invariant: JobDone leaves no engaged worker.
LEMMA AwaitKeeps ==
  ASSUME JobInv, Await
  PROVE  JobInv'
<1> USE DEF JobInv, poolVars, workerVars, ownerVars, history, Await
<1>1. Engaged' = {} /\ Finishing' = {}
  BY DEF JobDone, Engaged, FinishInv, Finishing
<1>2. TypeOK' /\ BusyInv'
  BY DEF TypeOK, BusyInv
<1>3. PhaseInv' /\ FinishInv' /\ CoverInv' /\ JobDone'
  BY <1>1 DEF PhaseInv, FinishInv, CoverInv, Unfinished, JobDone
<1> QED
  BY <1>2, <1>3

\* The destructor, up to the join, keeps the invariant.
LEMMA DestroyKeeps ==
  ASSUME JobInv, Destroy
  PROVE  JobInv'
<1> USE DEF JobInv, poolVars, workerVars, ownerVars, history, Destroy
<1>1. TypeOK'
  BY DEF TypeOK, Labels, Notified
<1>2. Engaged' = {} /\ Finishing' = {}
  BY OutsideJob DEF Engaged, Finishing, Notified
<1>3. BusyInv'
  BY OutsideJob DEF BusyInv, Notified
<1>4. PhaseInv' /\ FinishInv' /\ CoverInv' /\ JobDone'
  BY <1>2 DEF PhaseInv, FinishInv, CoverInv, Unfinished, JobDone
<1> QED
  BY <1>1, <1>3, <1>4

\* Joining the threads keeps the invariant.
LEMMA JoinKeeps ==
  ASSUME JobInv, Join
  PROVE  JobInv'
<1> USE DEF JobInv, poolVars, workerVars, ownerVars, history, Join
<1>1. Engaged' = {} /\ Finishing' = {}
  BY OutsideJob DEF Engaged, Finishing
<1>2. TypeOK' /\ BusyInv'
  BY DEF TypeOK, BusyInv
<1>3. PhaseInv' /\ FinishInv' /\ CoverInv' /\ JobDone'
  BY <1>1 DEF PhaseInv, FinishInv, CoverInv, Unfinished, JobDone
<1> QED
  BY <1>2, <1>3

\* A worker inside a job: what the invariant says of the job.
LEMMA InsideJob ==
  ASSUME JobInv, NEW w \in Worker,
         pc[w] \in {"fetch", "run", "post", "release", "decrement"}
  PROVE  /\ owner = "await" /\ promise = "pending"
         /\ Engaged # {} /\ Finishing = {}
         /\ active = Cardinality(Engaged)
<1>1. w \in Engaged
  BY DEF JobInv, BusyInv, Engaged
<1>2. owner # "aborted"
  BY DEF JobInv, PhaseInv
<1> QED
  BY <1>1, <1>2 DEF JobInv, PhaseInv, FinishInv

\* A step of one worker from fetch or run to a place inside its loop, in which
\* its flag and the workload stay.
LEMMA LoopStep ==
  ASSUME JobInv, NEW w \in Worker, pc[w] \in {"fetch", "run"},
         NEW l \in {"check", "fetch", "run", "post"},
         pc' = [pc EXCEPT ![w] = l], TypeOK',
         l = "run" => cursor'[w] < Len(workload),
         \A v \in Worker \ {w} : cursor'[v] = cursor[v],
         Kind = "mq" => \A v \in Worker : it'[v] % Size = it[v] % Size,
         UNCHANGED <<status, workload, active, promise, busy, owner>>
  PROVE  /\ BusyInv' /\ PhaseInv' /\ FinishInv' /\ JobDone'
         /\ Unfinished' => Unfinished
<1> USE DEF JobInv
<1>1. busy[w] /\ pc \in [Worker -> Labels]
  BY DEF BusyInv, TypeOK
<1>2. Engaged' = Engaged /\ Finishing' = Finishing
  BY <1>1 DEF Engaged, Finishing
<1>3. Doomed => Doomed'
  BY <1>1 DEF Doomed
<1>4. BusyInv'
  BY <1>1 DEF BusyInv
<1>5. owner = "await" /\ promise = "pending" /\ Finishing = {}
  BY InsideJob
<1>6. PhaseInv'
  BY <1>2, <1>3, <1>5 DEF PhaseInv
<1>7. FinishInv' /\ JobDone'
  BY <1>2, <1>5 DEF FinishInv, JobDone
<1>8. Unfinished' => Unfinished
  BY <1>2, <1>3 DEF Unfinished
<1> QED
  BY <1>4, <1>6, <1>7, <1>8

\* worker_sq: taking the next index keeps the invariant; the task passes from
\* "still to be fetched" to "running here", and past the end the side is drained.
LEMMA FetchSharedKeeps ==
  ASSUME JobInv, NEW w \in Worker, FetchShared(w)
  PROVE  JobInv'
<1> USE DEF JobInv, FetchShared, Goto, ownerVars, history
<1> DEFINE l == IF HasTask(index) THEN "run" ELSE "post"
<1>1. TypeOK'
  BY DEF TypeOK, Labels
<1>2. l \in {"run", "post"} /\ (l = "run" => index < Len(workload))
  BY DEF HasTask
<1>3. /\ BusyInv' /\ PhaseInv' /\ FinishInv' /\ JobDone'
      /\ Unfinished' => Unfinished
  <2>1. /\ pc[w] = "fetch" /\ pc' = [pc EXCEPT ![w] = l] /\ cursor'[w] = index
        /\ \A v \in Worker \ {w} : cursor'[v] = cursor[v]
        /\ UNCHANGED <<status, workload, active, promise, busy, owner, it>>
    BY DEF TypeOK
  <2> HIDE DEF l, FetchShared
  <2> QED
    BY <1>1, <1>2, <2>1, LoopStep
<1>4. CoverInv'
  <2> SUFFICES ASSUME Unfinished'
               PROVE  CoverInv'
    BY DEF CoverInv
  <2>1. Unfinished /\ status = "PROCESSING"
    BY <1>3, InsideJob DEF Unfinished, PhaseInv
  <2>2. \A i \in 1..Len(workload) : Remaining(i) => Remaining(i)'
    <3> SUFFICES ASSUME NEW i \in 1..Len(workload), Remaining(i)
                 PROVE  Remaining(i)'
      OBVIOUS
    <3>1. CASE \E v \in Worker : pc[v] = "run" /\ cursor[v] = i - 1
      BY <3>1 DEF Remaining, TypeOK
    <3>2. CASE index = i - 1
      <4>1. HasTask(index)
        BY <2>1, <3>2 DEF HasTask, TypeOK
      <4>2. pc'[w] = "run" /\ cursor'[w] = i - 1
        BY <3>2, <4>1 DEF TypeOK
      <4> QED
        BY <4>2 DEF Remaining
    <3>3. CASE index < i - 1
      BY <3>3 DEF Remaining, Front, Slot, TypeOK
    <3> QED
      BY <3>1, <3>2, <3>3 DEF Remaining, Front, Slot, TypeOK
  <2>3. \A v \in Worker : Drained(v) => Drained(v)'
    BY DEF Drained, Front, TypeOK
  <2>4. l = "post" => Drained(w)'
    BY <2>1 DEF HasTask, Drained, Front, TypeOK
  <2> QED
    BY <2>1, <2>2, <2>3, <2>4 DEF CoverInv, TypeOK
<1> QED
  BY <1>1, <1>3, <1>4

\* worker_mq: the same for the next task of the stride of this worker; the
\* strides of the other workers are other residues.
LEMMA FetchStripedKeeps ==
  ASSUME JobInv, NEW w \in Worker, FetchStriped(w)
  PROVE  JobInv'
<1> USE DEF JobInv, FetchStriped, Goto, ownerVars, history, poolVars
<1>1. CASE HasTask(it[w])
  <2>1. TypeOK'
    <3>1. it[w] \in Nat /\ it[w] + Size \in Nat
      BY DEF TypeOK
    <3> QED
      BY <1>1, <3>1 DEF TypeOK, Labels
  <2>2. Size \in Nat \ {0} /\ it[w] \in Nat /\ it[w] < Len(workload) /\ Len(workload) \in Nat
    BY <1>1 DEF HasTask, TypeOK
  <2>3. /\ pc[w] = "fetch" /\ pc' = [pc EXCEPT ![w] = "run"]
        /\ it' = [it EXCEPT ![w] = it[w] + Size]
        /\ cursor' = [cursor EXCEPT ![w] = it[w]]
        /\ Kind = "mq"
    BY <1>1
  <2>4. \A v \in Worker : it'[v] % Size = it[v] % Size
    BY <2>2, <2>3, StrideKeepsSlot DEF TypeOK
  <2>5. /\ BusyInv' /\ PhaseInv' /\ FinishInv' /\ JobDone'
        /\ Unfinished' => Unfinished
    BY <2>1, <2>2, <2>3, <2>4, LoopStep DEF TypeOK
  <2>6. \A i \in 1..Len(workload) : Remaining(i) => Remaining(i)'
    <3> SUFFICES ASSUME NEW i \in 1..Len(workload), Remaining(i)
                 PROVE  Remaining(i)'
      OBVIOUS
    <3>1. CASE \E v \in Worker : pc[v] = "run" /\ cursor[v] = i - 1
      BY <2>3, <3>1 DEF Remaining, TypeOK
    <3>2. CASE Front(Slot(i)) < i /\ Slot(i) # w
      BY <2>3, <3>2 DEF Remaining, Front, Slot, TypeOK
    <3>3. CASE Front(Slot(i)) < i /\ Slot(i) = w
      <4>1. it[w] < i /\ (i - 1) % Size = w
        BY <2>3, <3>3 DEF Front, Slot
      <4>2. it[w] % Size = w
        BY <2>3 DEF BusyInv
      <4>3. it[w] = i - 1 \/ it[w] + Size <= i - 1
        <5>1. i - 1 \in Nat /\ it[w] <= i - 1 /\ it[w] % Size = (i - 1) % Size
          BY <2>2, <4>1, <4>2
        <5> QED
          BY <2>2, <5>1, StrideApart
      <4>4. CASE it[w] = i - 1
        BY <2>3, <4>4 DEF Remaining, TypeOK
      <4>5. CASE it[w] + Size <= i - 1
        <5>1. it'[w] < i
          BY <2>2, <2>3, <4>5 DEF TypeOK
        <5> QED
          BY <2>3, <3>3, <5>1 DEF Remaining, Front, Slot
      <4> QED
        BY <4>3, <4>4, <4>5
    <3> QED
      BY <3>1, <3>2, <3>3 DEF Remaining
  <2>7. \A v \in Worker : Drained(v) => Drained(v)'
    BY <2>2, <2>3 DEF Drained, Front, TypeOK
  <2>8. CoverInv'
    BY <2>3, <2>5, <2>6, <2>7 DEF CoverInv, TypeOK
  <2> QED
    BY <2>1, <2>5, <2>8
<1>2. CASE ~HasTask(it[w])
  <2>1. /\ pc[w] = "fetch" /\ pc' = [pc EXCEPT ![w] = "post"] /\ Kind = "mq"
        /\ UNCHANGED <<it, cursor>>
    BY <1>2
  <2>2. TypeOK'
    BY <2>1 DEF TypeOK, Labels
  <2>3. /\ BusyInv' /\ PhaseInv' /\ FinishInv' /\ JobDone'
        /\ Unfinished' => Unfinished
    BY <2>1, <2>2, LoopStep DEF TypeOK
  <2>4. CoverInv'
    <3> SUFFICES ASSUME Unfinished'
                 PROVE  CoverInv'
      BY DEF CoverInv
    <3>1. Unfinished /\ status = "PROCESSING"
      BY <2>3, InsideJob DEF Unfinished, PhaseInv
    <3>2. \A i \in 1..Len(workload) : Remaining(i) => Remaining(i)'
      BY <2>1 DEF Remaining, Front, Slot, TypeOK
    <3>3. \A v \in Worker : Drained(v)' <=> Drained(v)
      BY <2>1 DEF Drained, Front
    <3>4. Drained(w)
      BY <1>2, <2>1, <3>1 DEF HasTask, Drained, Front, TypeOK
    <3> QED
      BY <2>1, <3>1, <3>2, <3>3, <3>4 DEF CoverInv, TypeOK
  <2> QED
    BY <2>2, <2>3, <2>4
<1> QED
  BY <1>1, <1>2

\* The task a worker runs is off the workload, so removing it from what is owed
\* leaves only tasks to be fetched or running elsewhere.
LEMMA ExecutedKeepsRemaining ==
  ASSUME JobInv, NEW w \in Worker, pc[w] = "run",
         NEW l \in {"check", "fetch"}, pc' = [pc EXCEPT ![w] = l],
         owed' = owed \ {Current(w)}, Unfinished' => Unfinished,
         UNCHANGED <<workload, index, it, cursor, busy>>
  PROVE  CoverInv'
<1> SUFFICES ASSUME Unfinished'
             PROVE  CoverInv'
  BY DEF CoverInv
<1> USE DEF JobInv
<1>1. ASSUME NEW t \in owed'
      PROVE  \E i \in 1..Len(workload) : t = workload[i] /\ Remaining(i)'
  <2>1. PICK i \in 1..Len(workload) : t = workload[i] /\ Remaining(i)
    BY DEF CoverInv
  <2>2. CASE Front(Slot(i)) < i
    BY <2>1, <2>2 DEF Remaining, Front, Slot
  <2>3. CASE \E v \in Worker : pc[v] = "run" /\ cursor[v] = i - 1
    <3>1. PICK v \in Worker : pc[v] = "run" /\ cursor[v] = i - 1
      BY <2>3
    <3>2. v # w
      BY <2>1, <3>1 DEF Current, TypeOK
    <3> QED
      BY <2>1, <3>1, <3>2 DEF Remaining, TypeOK
  <2> QED
    BY <2>1, <2>2, <2>3 DEF Remaining
<1>2. \A v \in Worker : Drained(v) => Drained(v)'
  BY DEF Drained, Front
<1> QED
  BY <1>1, <1>2 DEF CoverInv, TypeOK

\* Counting one execution keeps ran a counter per task.
LEMMA CountKeepsType ==
  ASSUME NEW f \in [Task -> Nat], NEW t
  PROVE  [f EXCEPT ![t] = @ + 1] \in [Task -> Nat]
<1>1. \A u \in Task : [f EXCEPT ![t] = @ + 1][u] \in Nat
  OBVIOUS
<1> QED
  BY <1>1

\* A task that returns keeps the invariant: it is owed no more.
LEMMA RunTaskKeeps ==
  ASSUME JobInv, NEW w \in Worker, RunTask(w)
  PROVE  JobInv'
<1> USE DEF JobInv, RunTask, Goto, poolVars, ownerVars
<1>1. TypeOK'
  <2>1. ran' \in [Task -> Nat]
    BY CountKeepsType DEF TypeOK
  <2> HIDE DEF RunTask
  <2>2. /\ pc' = [pc EXCEPT ![w] = "fetch"] /\ owed' \in SUBSET owed
        /\ UNCHANGED <<poolVars, busy, it, cursor, ownerVars>>
    BY DEF RunTask
  <2> QED
    BY <2>1, <2>2 DEF TypeOK, Labels
<1>2. /\ BusyInv' /\ PhaseInv' /\ FinishInv' /\ JobDone'
      /\ Unfinished' => Unfinished
  BY <1>1, LoopStep
<1>3. CoverInv'
  BY <1>2, ExecutedKeepsRemaining
<1> QED
  BY <1>1, <1>2, <1>3

\* A task that throws keeps the invariant in every error mode: the worker stays
\* engaged and resumes, dooms the job (TERMINATE), or the process ends (NONE).
LEMMA ThrowKeeps ==
  ASSUME JobInv, NEW w \in Worker, Throw(w)
  PROVE  JobInv'
<1> USE DEF JobInv, Goto
<1>1. /\ pc[w] = "run" /\ Current(w) \in Task
      /\ owed' = owed \ {Current(w)}
      /\ UNCHANGED <<workload, active, index, promise, busy, it, cursor>>
  BY DEF Throw
<1>2. errors' \in Seq(Task)
  <2>1. errors \in Seq(Task) /\ Append(errors, Current(w)) \in Seq(Task)
    BY <1>1 DEF TypeOK
  <2> QED
    BY <2>1 DEF Throw, Recorded
<1>3. ran' \in [Task -> Nat] /\ owed' \in SUBSET Task
  <2>1. ran' \in [Task -> Nat]
    BY CountKeepsType DEF Throw, TypeOK
  <2> QED
    BY <1>1, <2>1 DEF TypeOK
<1>4. owner = "await" /\ promise = "pending" /\ Finishing = {} /\ Engaged # {} /\ busy[w]
  BY <1>1, InsideJob DEF BusyInv
<1>5. CASE ErrorHandling = "NONE"
  <2>1. /\ pc' = [v \in Worker |-> "exited"] /\ owner' = "aborted"
        /\ UNCHANGED <<status, dirty, next>>
    BY <1>5 DEF Throw
  <2>2. TypeOK'
    BY <1>1, <1>2, <1>3, <2>1 DEF TypeOK, Labels
  <2>3. BusyInv' /\ PhaseInv' /\ CoverInv' /\ JobDone'
    BY <1>1, <2>1 DEF BusyInv, PhaseInv, CoverInv, Unfinished, JobDone
  <2>4. FinishInv'
    BY <2>1 DEF FinishInv, Finishing
  <2> QED
    BY <2>2, <2>3, <2>4
<1>6. CASE ErrorHandling # "NONE" /\ status' = "TERMINATING"
  <2>1. /\ pc' = [pc EXCEPT ![w] = "exited"]
        /\ UNCHANGED <<owner, dirty, next>>
    BY <1>6 DEF Throw
  <2>2. TypeOK'
    BY <1>1, <1>2, <1>3, <1>6, <2>1 DEF TypeOK, Labels
  <2>3. Engaged' = Engaged /\ Finishing' = Finishing /\ Doomed'
    BY <1>1, <1>4, <2>1 DEF Engaged, Finishing, Doomed, TypeOK
  <2>4. BusyInv'
    BY <1>1, <1>6, <2>1 DEF BusyInv, TypeOK
  <2>5. PhaseInv'
    BY <1>1, <1>4, <1>6, <2>1, <2>3 DEF PhaseInv
  <2>6. FinishInv' /\ CoverInv' /\ JobDone'
    BY <1>1, <1>4, <2>1, <2>3 DEF FinishInv, CoverInv, Unfinished, JobDone
  <2> QED
    BY <2>2, <2>4, <2>5, <2>6
<1>7. CASE ErrorHandling # "NONE" /\ status' # "TERMINATING"
  <2>1. /\ pc' = [pc EXCEPT ![w] = "check"]
        /\ UNCHANGED <<status, owner, dirty, next>>
    BY <1>7 DEF Throw
  <2>2. TypeOK'
    BY <1>1, <1>2, <1>3, <2>1 DEF TypeOK, Labels
  <2>3. /\ BusyInv' /\ PhaseInv' /\ FinishInv' /\ JobDone'
        /\ Unfinished' => Unfinished
    BY <1>1, <2>1, <2>2, LoopStep
  <2>4. CoverInv'
    BY <1>1, <2>1, <2>3, ExecutedKeepsRemaining
  <2> QED
    BY <2>2, <2>3, <2>4
<1> QED
  BY <1>5, <1>6, <1>7

\* busy = false keeps the invariant: the worker stays engaged until it is
\* subtracted from m_active.
LEMMA ReleaseKeeps ==
  ASSUME JobInv, NEW w \in Worker, Release(w)
  PROVE  JobInv'
<1> USE DEF JobInv, Release, Goto, poolVars, ownerVars, history
<1>1. TypeOK'
  BY DEF TypeOK, Labels
<1>2. owner = "await" /\ promise = "pending" /\ Finishing = {} /\ busy[w]
  BY InsideJob DEF BusyInv
<1>3. Engaged' = Engaged /\ Finishing' = {}
  BY <1>2 DEF Engaged, Finishing, TypeOK
<1>4. Doomed' <=> Doomed
  BY DEF Doomed, TypeOK
<1>5. BusyInv'
  BY DEF BusyInv, TypeOK
<1>6. PhaseInv'
  BY <1>2, <1>3, <1>4 DEF PhaseInv
<1>7. FinishInv' /\ JobDone'
  BY <1>2, <1>3 DEF FinishInv, JobDone
<1>8. CoverInv'
  <2> SUFFICES ASSUME Unfinished'
               PROVE  CoverInv'
    BY DEF CoverInv
  <2>1. Unfinished
    BY <1>2, <1>4 DEF Unfinished
  <2>2. \A i \in 1..Len(workload) : Remaining(i) => Remaining(i)'
    BY DEF Remaining, Front, Slot, TypeOK
  <2>3. \A v \in Worker : Drained(v) => Drained(v)'
    BY DEF Drained, Front
  <2>4. Drained(w)
    BY <2>1 DEF CoverInv
  <2> QED
    BY <2>1, <2>2, <2>3, <2>4 DEF CoverInv, TypeOK
<1> QED
  BY <1>1, <1>5, <1>6, <1>7, <1>8

\* When nobody is engaged every worker left a drained job: nothing is owed.
LEMMA NothingOwed ==
  ASSUME JobInv, Unfinished, \A v \in Worker : ~busy[v]
  PROVE  owed = {}
<1> USE DEF JobInv
<1> SUFFICES ASSUME NEW t \in owed
             PROVE  FALSE
  OBVIOUS
<1>1. PICK i \in 1..Len(workload) : t = workload[i] /\ Remaining(i)
  BY DEF CoverInv
<1>2. Size \in Nat \ {0} /\ i - 1 \in Nat /\ Len(workload) \in Nat /\ i <= Len(workload)
  BY DEF PhaseInv, Unfinished, TypeOK
<1>3. (i - 1) % Size \in 0..(Size - 1) /\ (i - 1) % Size <= i - 1
  BY <1>2, SlotIsWorker
<1>4. Slot(i) \in Worker /\ Slot(i) < Len(workload)
  BY <1>2, <1>3 DEF Slot
<1>5. Front(Slot(i)) < i
  BY <1>1 DEF Remaining, BusyInv
<1>6. Front(Slot(i)) >= Len(workload)
  BY <1>4 DEF CoverInv, Drained
<1>7. Front(Slot(i)) \in Nat
  BY <1>4 DEF Front, TypeOK
<1> QED
  BY <1>2, <1>5, <1>6, <1>7

\* The counter m_active tells exactly one worker, the last to leave, that the
\* job is over.
LEMMA DecrementKeeps ==
  ASSUME JobInv, NEW w \in Worker, Decrement(w)
  PROVE  JobInv'
<1> USE DEF JobInv
<1> DEFINE l == IF active' = 0 THEN "complete" ELSE "check"
<1>1. /\ pc[w] = "decrement" /\ pc' = [pc EXCEPT ![w] = l] /\ active' = active - 1
      /\ UNCHANGED <<status, workload, dirty, index, promise, errors, busy, it, cursor>>
      /\ UNCHANGED <<owner, next, owed, ran>>
  BY DEF Decrement, Goto, ownerVars, history
<1>2. /\ owner = "await" /\ promise = "pending" /\ Finishing = {} /\ Engaged # {}
      /\ active = Cardinality(Engaged) /\ ~busy[w]
  BY <1>1, InsideJob DEF BusyInv
<1>3. l \in {"complete", "check"}
  OBVIOUS
<1>4. Engaged' = Engaged \ {w} /\ w \in Engaged
  BY <1>1, <1>2, <1>3 DEF Engaged, TypeOK
<1>5. Engaged \in SUBSET Worker
  BY DEF Engaged
<1>6. /\ Cardinality(Engaged') = active'
      /\ active' \in Nat
      /\ active' = 0 <=> Engaged' = {}
  <2>1. IsFiniteSet(Engaged) /\ Engaged \ {w} \in SUBSET Worker
    BY <1>5, WorkersFinite
  <2>2. Cardinality(Engaged \ {w}) = Cardinality(Engaged) - 1
    BY <1>4, <2>1, FS_RemoveElement
  <2>3. /\ Cardinality(Engaged \ {w}) \in Nat
        /\ Cardinality(Engaged \ {w}) = 0 <=> Engaged \ {w} = {}
    BY <2>1, WorkersFinite
  <2> QED
    BY <1>1, <1>2, <1>4, <2>2, <2>3
<1>7. TypeOK'
  BY <1>1, <1>3, <1>6 DEF TypeOK, Labels
<1>8. Doomed' <=> Doomed
  BY <1>1, <1>2 DEF Doomed, TypeOK
<1>9. BusyInv'
  BY <1>1, <1>2 DEF BusyInv, TypeOK
<1>10. PhaseInv'
  BY <1>1, <1>2, <1>6, <1>8 DEF PhaseInv
<1>11. JobDone'
  BY <1>1, <1>2 DEF JobDone
<1>12. CASE active' = 0
  <2>1. Engaged' = {} /\ ~Doomed
    BY <1>6, <1>8, <1>12 DEF Doomed, Engaged
  <2>2. \A v \in Worker : ~busy[v]
    BY <1>1, <2>1 DEF Engaged
  <2>3. owed = {}
    BY <1>2, <2>1, <2>2, NothingOwed DEF Unfinished
  <2>4. status = "PROCESSING"
    BY <1>2, <2>1 DEF PhaseInv
  <2>5. Finishing' = {w}
    BY <1>1, <1>2, <1>12 DEF Finishing, TypeOK
  <2>6. FinishInv' /\ CoverInv'
    BY <1>1, <1>2, <2>1, <2>3, <2>4, <2>5 DEF FinishInv, CoverInv, Unfinished
  <2> QED
    BY <1>7, <1>9, <1>10, <1>11, <2>6
<1>13. CASE active' # 0
  <2>1. Finishing' = {}
    BY <1>1, <1>2, <1>13 DEF Finishing, TypeOK
  <2>2. Unfinished' => Unfinished
    BY <1>1, <1>2, <1>8 DEF Unfinished
  <2>3. \A i \in 1..Len(workload) : Remaining(i) => Remaining(i)'
    BY <1>1, <1>13 DEF Remaining, Front, Slot, TypeOK
  <2>4. \A v \in Worker : Drained(v) => Drained(v)'
    BY <1>1 DEF Drained, Front
  <2>5. FinishInv' /\ CoverInv'
    BY <1>1, <1>13, <2>1, <2>2, <2>3, <2>4 DEF FinishInv, CoverInv, TypeOK
  <2> QED
    BY <1>7, <1>9, <1>10, <1>11, <2>5
<1> QED
  BY <1>12, <1>13

\* The steps of the last worker, which is alone with the job's result.
LEMMA FinishingStep ==
  ASSUME JobInv, NEW w \in Finishing, TypeOK',
         NEW l \in {"ready", "resolve", "check"},
         pc' = [pc EXCEPT ![w] = l],
         status' \in {status, "READY"},
         l = "check" => promise' = "ready",
         l # "check" => promise' = promise,
         UNCHANGED <<active, busy, it, owner, owed>>
  PROVE  JobInv'
<1> USE DEF JobInv
<1>1. /\ w \in Worker /\ Finishing = {w} /\ Engaged = {} /\ owed = {}
      /\ owner = "await" /\ promise = "pending" /\ status \in {"PROCESSING", "READY"}
  BY DEF FinishInv, Finishing
<1>2. /\ Engaged' = {}
      /\ Finishing' = IF l = "check" THEN {} ELSE {w}
  <2>1. \A v \in Worker : v # w => pc'[v] = pc[v] /\ v \notin Finishing
    BY <1>1 DEF TypeOK
  <2>2. pc'[w] = l /\ pc'[w] # "decrement"
    BY <1>1 DEF TypeOK
  <2>3. Engaged' = {}
    BY <1>1, <2>1, <2>2 DEF Engaged
  <2>4. Finishing' = IF l = "check" THEN {} ELSE {w}
    BY <1>1, <2>1, <2>2 DEF Finishing
  <2> QED
    BY <2>3, <2>4
<1>3. \A v \in Worker : ~busy[v] /\ pc[v] \notin {"fetch", "run", "post", "release"}
  BY <1>1 DEF Engaged, BusyInv
<1>4. BusyInv'
  BY <1>1, <1>3 DEF BusyInv, TypeOK
<1>5. PhaseInv'
  BY <1>1, <1>2 DEF PhaseInv
<1>6. FinishInv' /\ CoverInv' /\ JobDone'
  BY <1>1, <1>2 DEF FinishInv, CoverInv, Unfinished, JobDone
<1> QED
  BY <1>4, <1>5, <1>6

\* Clearing the workload on completion keeps the invariant.
LEMMA CompleteKeeps ==
  ASSUME JobInv, NEW w \in Worker, Complete(w)
  PROVE  JobInv'
<1> USE DEF Complete, Goto, ownerVars, history
<1>1. workload' \in Seq(Task) /\ dirty' \in BOOLEAN
  <2>1. <<>> \in Seq(Task)
    OBVIOUS
  <2> QED
    BY <2>1 DEF JobInv, TypeOK
<1>2. TypeOK'
  BY <1>1 DEF JobInv, TypeOK, Labels
<1> QED
  BY <1>2, FinishingStep DEF Finishing

\* m_status = READY keeps the invariant.
LEMMA ReadyKeeps ==
  ASSUME JobInv, NEW w \in Worker, Ready(w)
  PROVE  JobInv'
<1> USE DEF Ready, Goto, ownerVars, history
<1>1. TypeOK'
  BY DEF JobInv, TypeOK, Labels
<1> QED
  BY <1>1, FinishingStep DEF Finishing

\* set_value() keeps the invariant: JobDone is established here.
LEMMA ResolveKeeps ==
  ASSUME JobInv, NEW w \in Worker, Resolve(w)
  PROVE  JobInv'
<1> USE DEF Resolve, Goto, ownerVars, history
<1>1. TypeOK'
  BY DEF JobInv, TypeOK, Labels
<1> QED
  BY <1>1, FinishingStep DEF Finishing

----------------------------------------------------------------------------

\* The invariant holds when the pool is constructed.
LEMMA JobInvInit ==
  ASSUME Init
  PROVE  JobInv
<1>1. TypeOK
  <2>1. <<>> \in Seq(Task)
    OBVIOUS
  <2>2. /\ busy \in [Worker -> BOOLEAN] /\ it \in [Worker -> Nat]
        /\ cursor \in [Worker -> Nat] /\ pc \in [Worker -> Labels]
        /\ ran \in [Task -> Nat]
    BY DEF Init, Labels
  <2> QED
    <3>1. workload \in Seq(Task) /\ errors \in Seq(Task)
      BY <2>1, Zenon DEF Init
    <3>2. dirty \in BOOLEAN /\ owed \in SUBSET Task
      BY DEF Init
    <3>3. next \in 1..(MaxTask + 1) /\ active \in Nat /\ index \in Nat
      BY DEF Init
    <3> QED
      BY <2>2, <3>1, <3>2, <3>3 DEF Init, TypeOK
<1>2. Engaged = {} /\ Finishing = {}
  BY DEF Init, Engaged, Finishing
<1>3. BusyInv /\ PhaseInv /\ FinishInv /\ CoverInv /\ JobDone
  BY <1>2 DEF Init, BusyInv, PhaseInv, FinishInv, CoverInv, Unfinished, JobDone
<1> QED
  BY <1>1, <1>3 DEF JobInv

\* A step that changes nothing keeps the invariant.
LEMMA JobInvStutter ==
  ASSUME JobInv, UNCHANGED vars
  PROVE  JobInv'
<1> USE DEF vars, poolVars, workerVars, ownerVars, history
<1>1. /\ UNCHANGED <<Engaged, Finishing, Doomed>>
      /\ \A i : Remaining(i)' <=> Remaining(i)
      /\ \A v : Drained(v)' <=> Drained(v)
  BY DEF Engaged, Finishing, Doomed, Remaining, Front, Slot, Drained
<1>2. TypeOK' /\ BusyInv'
  BY DEF JobInv, TypeOK, BusyInv
<1>3. PhaseInv' /\ FinishInv' /\ JobDone'
  BY <1>1 DEF JobInv, PhaseInv, FinishInv, JobDone
<1>4. CoverInv'
  BY <1>1 DEF JobInv, CoverInv, Unfinished
<1> QED
  BY <1>2, <1>3, <1>4 DEF JobInv

\* Every step of the pool keeps the invariant.
LEMMA JobInvStep ==
  ASSUME JobInv, [Next]_vars
  PROVE  JobInv'
<1>1. CASE OwnerStep
  BY <1>1, StartKeeps, AddTaskKeeps, ProcessKeeps, DispatchKeeps, AwaitKeeps,
     DestroyKeeps, JoinKeeps, ProcessNewKeeps DEF OwnerStep
<1>2. ASSUME NEW w \in Worker, WorkerStep(w) \/ SpuriousWakeup(w)
      PROVE  JobInv'
  BY <1>2, WaitForWorkKeeps, BeginKeeps, FetchSharedKeeps, FetchStripedKeeps,
     RunTaskKeeps, ThrowKeeps, PostKeeps, ReleaseKeeps, DecrementKeeps,
     CompleteKeeps, ReadyKeeps, ResolveKeeps, SpuriousWakeupKeeps DEF WorkerStep
<1>3. CASE UNCHANGED vars
  BY <1>3, JobInvStutter
<1> QED
  BY <1>1, <1>2, <1>3 DEF Next, Stopped

\* The inductive invariant of the pool.
THEOREM JobInvHolds == Spec => []JobInv
<1> QED
  BY JobInvInit, JobInvStep, PTL DEF Spec

\* Every variable of the pool stays in its range; in particular m_active never
\* goes below zero.
THEOREM TypeCorrect == Spec => []TypeOK
<1>1. JobInv => TypeOK
  BY DEF JobInv
<1> QED
  BY <1>1, JobInvHolds, PTL

\* When the owner's wait returns, every task of its workload was executed and no
\* worker touches the pool on the job's behalf any more.
THEOREM JobDoneHolds == Spec => []JobDone
<1>1. JobInv => JobDone
  BY DEF JobInv
<1> QED
  BY <1>1, JobInvHolds, PTL
=============================================================================
