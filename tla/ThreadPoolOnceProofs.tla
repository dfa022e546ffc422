------------------------ MODULE ThreadPoolOnceProofs ------------------------
(***************************************************************************)
(* No task is executed twice: an invariant on top of JobInv, for every     *)
(* number of workers and tasks, either kind of worker, any clear mode, any *)
(* error handling and any set of tasks that throw.  From it, a workload    *)
(* that is read is not changed, and the safety part of ImplementsJob.      *)
(***************************************************************************)
EXTENDS ThreadPoolProofs

USE PoolAssumption DEF Worker, Task

\* The tasks of a workload are distinct and were all created.
FreshInv ==
  /\ \A i, j \in 1..Len(workload) : i # j => workload[i] # workload[j]
  /\ \A i \in 1..Len(workload) : workload[i] < next

\* A task that is not fetched yet is owed; one that is being executed is owed, too,
\* was fetched, and by one worker only.
OwedInv ==
  /\ owner = "await" /\ promise = "pending" =>
       \A i \in 1..Len(workload) : Front(Slot(i)) < i => workload[i] \in owed
  /\ \A w \in Worker : pc[w] = "run" =>
       /\ Current(w) \in owed
       /\ cursor[w] < Front(Slot(cursor[w] + 1))
       /\ Kind = "mq" => cursor[w] % Size = w
       /\ \A v \in Worker \ {w} : pc[v] = "run" => cursor[v] # cursor[w]

\* What is owed, or not handed over yet, was not executed.
OnceInv ==
  ClearMode # "NEVER" =>
    /\ \A t \in Task : ran[t] <= 1 /\ (t >= next \/ t \in owed => ran[t] = 0)
    /\ owner = "idle" /\ ~dirty => \A i \in 1..Len(workload) : ran[workload[i]] = 0

\* The owner's future is back, or about to be.
Returning == (owner = "await" /\ promise = "ready") \/ (\E w \in Worker : pc[w] = "resolve")

\* A workload that was executed is marked, or gone.
DirtyInv ==
  /\ owner = "idle" \/ Returning => status # "PROCESSING"
  /\ ClearMode = "AT_NEXT_WORKLOAD" /\ owner \in {"dispatch", "await"} => dirty
  /\ ClearMode = "UPPON_COMPLETION" =>
       /\ owner = "idle" => ~dirty
       /\ Returning \/ (\E w \in Worker : pc[w] = "ready") => ~dirty /\ workload = <<>>

OnceOwedInv == JobInv /\ FreshInv /\ OwedInv /\ OnceInv /\ DirtyInv

\* The parts of the invariant that are added to JobInv.
Added == FreshInv /\ OwedInv /\ OnceInv /\ DirtyInv

\* A step beside the tasks: no worker takes or returns one, none is added, and no
\* worker comes closer to the end of the job.
LEMMA AsideKeeps ==
  ASSUME OnceOwedInv,
         UNCHANGED <<workload, dirty, promise, it, index, cursor, next, owed, ran>>,
         \A w \in Worker : pc'[w] \in {"run", "ready", "resolve"} => pc'[w] = pc[w],
         owner' = owner \/ owner' \in {"joining", "gone"},
         status' = status \/ status' # "PROCESSING"
  PROVE  Added'
<1> USE DEF OnceOwedInv, Added
<1>1. FreshInv' /\ OnceInv'
  BY DEF FreshInv, OnceInv
<1>2. OwedInv'
  BY DEF OwedInv, Front, Slot, Current
<1>3. DirtyInv'
  BY DEF DirtyInv, Returning
<1> QED
  BY <1>1, <1>2, <1>3

\* operator<<: the task is new, and what was executed is dropped if it is marked.
LEMMA AddTaskFresh ==
  ASSUME OnceOwedInv, AddTask
  PROVE  Added'
<1> USE DEF OnceOwedInv, Added
<1> DEFINE stale == ClearMode = "AT_NEXT_WORKLOAD" /\ dirty
           kept == IF stale THEN <<>> ELSE workload
<1>1. /\ workload' = Append(kept, next) /\ next' = next + 1 /\ owner = "idle" /\ next \in Task
      /\ owner' = owner /\ dirty' = (dirty /\ ~stale)
      /\ UNCHANGED <<status, promise, pc, ran, owed>>
  BY DEF AddTask, JobInv, TypeOK, workerVars, history
<1>2. kept \in Seq(Task) /\ workload \in Seq(Task)
  BY KeptWorkload, Zenon DEF JobInv, TypeOK
<1>3. /\ Len(kept) \in Nat /\ Len(kept) <= Len(workload)
      /\ \A i \in 1..Len(kept) : kept[i] = workload[i] /\ i \in 1..Len(workload)
  BY <1>2
<1>4. \A i \in 1..Len(kept) : kept[i] \in Task /\ kept[i] < next
  BY <1>2, <1>3 DEF FreshInv
<1>5. ~stale => kept = workload
  OBVIOUS
<1>6. stale => Len(kept) = 0
  OBVIOUS
<1> HIDE DEF kept
<1>7. /\ Len(workload') = Len(kept) + 1
      /\ \A i \in 1..Len(kept) : workload'[i] = kept[i]
      /\ workload'[Len(kept) + 1] = next
  BY <1>1, <1>2
<1>8. FreshInv'
  BY <1>1, <1>3, <1>4, <1>7 DEF FreshInv
<1>9. \A w \in Worker : pc'[w] \notin {"run", "ready", "resolve"}
  BY <1>1, OutsideJob
<1>10. OwedInv'
  BY <1>1, <1>9 DEF OwedInv
<1>11. OnceInv'
  <2> SUFFICES ASSUME ClearMode # "NEVER" PROVE OnceInv'
    BY DEF OnceInv
  <2>1. \A t \in Task : ran'[t] <= 1 /\ (t >= next' \/ t \in owed' => ran'[t] = 0)
    BY <1>1 DEF OnceInv, JobInv, TypeOK
  <2>2. ASSUME ~dirty', NEW i \in 1..Len(workload')
        PROVE  ran'[workload'[i]] = 0
    <3>1. ran[next] = 0
      BY <1>1 DEF OnceInv
    <3>2. ASSUME i \in 1..Len(kept)
          PROVE  ran[kept[i]] = 0
      <4>1. ~stale
        BY <1>6, <3>2
      <4>2. ~(dirty /\ ~stale)
        BY <1>1, <2>2, Zenon
      <4>3. ~dirty
        BY <4>1, <4>2, Zenon
      <4> QED
        BY <1>1, <1>5, <3>2, <4>1, <4>3 DEF OnceInv
    <3> QED
      BY <1>1, <1>7, <3>1, <3>2, <1>3
  <2> QED
    BY <2>1, <2>2 DEF OnceInv
<1>12. DirtyInv'
  BY <1>1, <1>9 DEF DirtyInv, Returning
<1> QED
  BY <1>8, <1>10, <1>11, <1>12

\* processWorkload(): what is handed over is owed and was not executed, or was
\* dropped first.
LEMMA PublishFresh ==
  ASSUME OnceOwedInv, owner = "idle", NEW load \in Seq(Task), Publish(load),
         \A i, j \in 1..Len(load) : i # j => load[i] # load[j],
         \A i \in 1..Len(load) : load[i] < next' /\ ran[load[i]] \in Nat,
         next <= next',
         ClearMode # "NEVER" =>
           /\ status = "READY" \/ ~dirty' => \A i \in 1..Len(load) : ran[load[i]] = 0
           /\ \A t \in Task : t >= next' => ran[t] = 0,
         status' = "PROCESSING" => dirty',
         ClearMode = "UPPON_COMPLETION" /\ status' # "PROCESSING" => ~dirty',
         UNCHANGED <<pc, ran>>
  PROVE  Added'
<1> USE DEF OnceOwedInv, Added
<1>1. workload' = load
  BY DEF Publish
<1>2. \A w \in Worker : pc'[w] \notin {"run", "ready", "resolve"}
  BY OutsideJob
<1>3. FreshInv'
  BY <1>1 DEF FreshInv
<1>4. OwedInv'
  BY <1>2 DEF OwedInv, Publish
<1>5. CASE status # "READY" \/ load = <<>>
  <2>1. UNCHANGED <<status, owner, owed>>
    BY <1>5 DEF Publish
  <2>2. OnceInv'
    BY <1>1, <2>1 DEF OnceInv
  <2>3. DirtyInv'
    BY <1>2, <2>1 DEF DirtyInv, Returning
  <2> QED
    BY <1>3, <1>4, <2>2, <2>3
<1>6. CASE ~(status # "READY" \/ load = <<>>)
  <2>1. /\ status' = "PROCESSING" /\ owner' = "dispatch"
        /\ owed' = {load[i] : i \in 1..Len(load)}
    BY <1>6 DEF Publish
  <2>2. OnceInv'
    BY <1>6, <2>1 DEF OnceInv
  <2>3. DirtyInv'
    BY <1>2, <2>1 DEF DirtyInv, Returning
  <2> QED
    BY <1>3, <1>4, <2>2, <2>3
<1> QED
  BY <1>5, <1>6

\* processWorkload(pre, post): the tasks that were added, or none if they ran before.
LEMMA ProcessFresh ==
  ASSUME OnceOwedInv, Process
  PROVE  Added'
<1> USE DEF OnceOwedInv
<1> DEFINE stale == ClearMode = "AT_NEXT_WORKLOAD" /\ status = "READY" /\ dirty
           load == IF stale THEN <<>> ELSE workload
<1>1. /\ owner = "idle" /\ Publish(load) /\ next' = next /\ status # "PROCESSING"
      /\ dirty' = ((dirty /\ ~stale) \/ status' = "PROCESSING")
      /\ UNCHANGED <<pc, ran>> /\ dirty \in BOOLEAN /\ ran \in [Task -> Nat]
  BY DEF Process, workerVars, JobInv, TypeOK, DirtyInv
<1>2. load \in Seq(Task) /\ workload \in Seq(Task)
  BY KeptWorkload, Zenon DEF JobInv, TypeOK
<1>3. \A i \in 1..Len(load) :
        load[i] \in Task /\ load[i] = workload[i] /\ i \in 1..Len(workload) /\ ~stale
  BY <1>2
<1> HIDE DEF load
<1>4. status' \in {status, "PROCESSING"}
  BY <1>1 DEF Publish
<1>5. ClearMode # "NEVER" =>
        /\ status = "READY" \/ ~dirty' => \A i \in 1..Len(load) : ran[load[i]] = 0
        /\ \A t \in Task : t >= next' => ran[t] = 0
  <2>1. ASSUME ClearMode # "NEVER", status = "READY" \/ ~dirty', NEW i \in 1..Len(load)
        PROVE  ran[load[i]] = 0
    <3>1. ~dirty
      BY <1>1, <1>3, <2>1 DEF DirtyInv
    <3> QED
      BY <1>1, <1>3, <2>1, <3>1 DEF OnceInv
  <2> QED
    BY <1>1, <2>1 DEF OnceInv
<1>6. /\ status' = "PROCESSING" => dirty'
      /\ ClearMode = "UPPON_COMPLETION" /\ status' # "PROCESSING" => ~dirty'
  BY <1>1 DEF DirtyInv
<1>7. \A i, j \in 1..Len(load) : i # j => load[i] # load[j]
  BY <1>3 DEF FreshInv
<1>8. \A i \in 1..Len(load) : load[i] < next' /\ ran[load[i]] \in Nat
  BY <1>1, <1>3 DEF FreshInv
<1>9. next <= next'
  BY <1>1 DEF JobInv, TypeOK
<1> QED
  BY <1>1, <1>2, <1>4, <1>5, <1>6, <1>7, <1>8, <1>9, PublishFresh

\* processWorkload(workload, pre, post): every task of the new workload is new.
LEMMA ProcessNewFresh ==
  ASSUME OnceOwedInv, NEW k \in 0..MaxBatch, ProcessNew(k)
  PROVE  Added'
<1> USE DEF OnceOwedInv
<1> DEFINE load == [i \in 1..k |-> next + i - 1]
<1>1. /\ owner = "idle" /\ Publish(load) /\ next' = next + k
      /\ dirty' = (status' = "PROCESSING") /\ next \in Nat /\ k \in Nat
      /\ UNCHANGED <<pc, ran>> /\ ran \in [Task -> Nat]
  BY DEF ProcessNew, workerVars, JobInv, TypeOK
<1>2. \A i \in 1..k : load[i] \in Task
  BY DEF ProcessNew, JobInv, TypeOK
<1>3. load \in Seq(Task) /\ Len(load) = k
  BY <1>2
<1>4. ClearMode # "NEVER" => \A t \in Task : t >= next => ran[t] = 0
  BY DEF OnceInv
<1>5. \A i \in 1..k : load[i] >= next /\ load[i] < next'
  BY <1>1
<1>6. \A i, j \in 1..Len(load) : i # j => load[i] # load[j]
  BY <1>1, <1>3
<1> HIDE DEF load
<1>7. \A i \in 1..Len(load) : load[i] < next' /\ ran[load[i]] \in Nat
  BY <1>1, <1>2, <1>3, <1>5
<1>8. ClearMode # "NEVER" =>
        /\ status = "READY" \/ ~dirty' => \A i \in 1..Len(load) : ran[load[i]] = 0
        /\ \A t \in Task : t >= next' => ran[t] = 0
  <2>1. \A t \in Task : t >= next' => t >= next
    BY <1>1
  <2>2. \A i \in 1..Len(load) : load[i] \in Task /\ load[i] >= next
    BY <1>2, <1>3, <1>5
  <2>3. ASSUME ClearMode # "NEVER"
        PROVE  /\ \A i \in 1..Len(load) : ran[load[i]] = 0
               /\ \A t \in Task : t >= next' => ran[t] = 0
    BY <1>4, <2>1, <2>2, <2>3
  <2> QED
    BY <2>3
<1>9. /\ status' = "PROCESSING" => dirty'
      /\ ClearMode = "UPPON_COMPLETION" /\ status' # "PROCESSING" => ~dirty'
  BY <1>1, Zenon
<1>10. next <= next'
  BY <1>1
<1> QED
  BY <1>1, <1>3, <1>6, <1>7, <1>8, <1>9, <1>10, PublishFresh

\* Dispatching the job makes all of its tasks owed and still to be fetched.
LEMMA DispatchFresh ==
  ASSUME OnceOwedInv, Dispatch
  PROVE  Added'
<1> USE DEF OnceOwedInv, Added
<1>1. /\ owner = "dispatch" /\ owner' = "await" /\ pc' = Notified
      /\ UNCHANGED <<status, workload, dirty, promise, next, owed, ran>>
      /\ promise = "pending" /\ owed = {workload[i] : i \in 1..Len(workload)}
  BY DEF Dispatch, poolVars, history, JobInv, PhaseInv
<1>2. \A w \in Worker : pc'[w] \notin {"run", "ready", "resolve"}
  BY <1>1, OutsideJob DEF Notified
<1>3. OwedInv'
  BY <1>1, <1>2 DEF OwedInv
<1>4. FreshInv' /\ OnceInv'
  BY <1>1 DEF FreshInv, OnceInv
<1>5. DirtyInv'
  BY <1>1, <1>2 DEF DirtyInv, Returning
<1> QED
  BY <1>3, <1>4, <1>5

\* The future is back: the workload was executed, and is gone or marked.
LEMMA AwaitFresh ==
  ASSUME OnceOwedInv, Await
  PROVE  Added'
<1> USE DEF OnceOwedInv, Added
<1>1. /\ owner = "await" /\ promise = "ready" /\ owner' = "idle"
      /\ UNCHANGED <<status, workload, dirty, promise, next, owed, ran, pc>>
  BY DEF Await, poolVars, workerVars, history
<1>2. \A w \in Worker : pc[w] \notin {"run", "ready", "resolve"}
  BY <1>1, InsideJob DEF JobInv, FinishInv, Finishing
<1>3. FreshInv' /\ OwedInv'
  BY <1>1, <1>2 DEF FreshInv, OwedInv
<1>4. OnceInv'
  BY <1>1 DEF OnceInv, DirtyInv, Returning
<1>5. DirtyInv'
  BY <1>1, <1>2 DEF DirtyInv, Returning
<1> QED
  BY <1>3, <1>4, <1>5

\* worker_sq: the task at the shared index is fetched by one worker.
LEMMA FetchSharedOwed ==
  ASSUME OnceOwedInv, NEW w \in Worker, FetchShared(w)
  PROVE  Added'
<1> USE DEF OnceOwedInv, Added
<1>1. /\ Kind = "sq" /\ pc[w] = "fetch" /\ index' = index + 1
      /\ cursor' = [cursor EXCEPT ![w] = index]
      /\ pc' = [pc EXCEPT ![w] = IF HasTask(index) THEN "run" ELSE "post"]
      /\ UNCHANGED <<status, workload, dirty, promise, owner, next, owed, ran>>
      /\ index \in Nat /\ cursor \in [Worker -> Nat] /\ pc \in [Worker -> Labels]
      /\ Len(workload) \in Nat
  BY DEF FetchShared, Goto, ownerVars, history, JobInv, TypeOK
<1>2. owner = "await" /\ promise = "pending" /\ Finishing = {}
  BY <1>1, InsideJob
<1>3. FreshInv' /\ OnceInv' /\ DirtyInv'
  BY <1>1 DEF FreshInv, OnceInv, DirtyInv, Returning
<1>4. \A i \in 1..Len(workload) : Front(Slot(i))' < i => workload[i] \in owed
  BY <1>1, <1>2 DEF OwedInv, Front
<1>5. ASSUME NEW v \in Worker, pc'[v] = "run", v # w
      PROVE  /\ Current(v)' \in owed' /\ cursor'[v] < index
             /\ \A u \in Worker \ {v, w} : pc'[u] = "run" => cursor'[u] # cursor'[v]
  BY <1>1, <1>5 DEF OwedInv, Front, Current
<1>6. ASSUME pc'[w] = "run"
      PROVE  Current(w)' \in owed' /\ cursor'[w] = index
  <2>1. HasTask(index)
    BY <1>1, <1>6
  <2>2. index + 1 \in 1..Len(workload) /\ index < index + 1
    BY <1>1, <2>1 DEF HasTask
  <2>3. workload[index + 1] \in owed
    BY <1>1, <1>2, <2>2 DEF OwedInv, Front
  <2> QED
    BY <1>1, <2>3 DEF Current
<1>7. OwedInv'
  <2>1. \A v \in Worker : pc'[v] = "run" =>
          /\ Current(v)' \in owed' /\ cursor'[v] < Front(Slot(cursor[v] + 1))'
          /\ \A u \in Worker \ {v} : pc'[u] = "run" => cursor'[u] # cursor'[v]
    BY <1>1, <1>5, <1>6 DEF Front
  <2>2. Kind # "mq"
    BY <1>1
  <2> QED
    BY <1>1, <1>4, <2>1, <2>2 DEF OwedInv, Front, Slot
<1> QED
  BY <1>3, <1>7

\* worker_mq: a worker fetches from its own side of the workload.
LEMMA FetchStripedOwed ==
  ASSUME OnceOwedInv, NEW w \in Worker, FetchStriped(w)
  PROVE  Added'
<1> USE DEF OnceOwedInv, Added
<1>1. /\ Kind = "mq" /\ pc[w] = "fetch"
      /\ UNCHANGED <<status, workload, dirty, promise, index, owner, next, owed, ran>>
      /\ it \in [Worker -> Nat] /\ cursor \in [Worker -> Nat] /\ pc \in [Worker -> Labels]
      /\ Len(workload) \in Nat /\ Size \in Nat \ {0}
  BY DEF FetchStriped, poolVars, ownerVars, history, JobInv, TypeOK
<1>2. owner = "await" /\ promise = "pending" /\ Finishing = {}
  BY <1>1, InsideJob
<1>3. it[w] % Size = w
  BY <1>1 DEF JobInv, BusyInv
<1>4. CASE HasTask(it[w])
  <2>1. /\ cursor' = [cursor EXCEPT ![w] = it[w]] /\ it' = [it EXCEPT ![w] = it[w] + Size]
        /\ pc' = [pc EXCEPT ![w] = "run"]
    BY <1>4 DEF FetchStriped, Goto
  <2>2. FreshInv' /\ OnceInv' /\ DirtyInv'
    BY <1>1, <2>1 DEF FreshInv, OnceInv, DirtyInv, Returning
  <2>3. \A i \in 1..Len(workload) : Slot(i) \in Worker
    <3>1. ASSUME NEW i \in 1..Len(workload)
          PROVE  Slot(i) \in Worker
      <4>1. i - 1 \in Nat
        BY <1>1
      <4>2. (i - 1) % Size \in 0..(Size - 1)
        BY <1>1, <4>1, SlotIsWorker
      <4> QED
        BY <1>1, <4>2 DEF Slot
    <3> QED
      BY <3>1
  <2>4. \A i \in 1..Len(workload) : Front(Slot(i))' < i => workload[i] \in owed
    <3>1. \A i \in 1..Len(workload) : it[Slot(i)] <= it'[Slot(i)]
      BY <1>1, <2>1, <2>3
    <3>2. \A i \in 1..Len(workload) : it[Slot(i)] < i => workload[i] \in owed
      BY <1>1, <1>2 DEF OwedInv, Front
    <3>3. \A i \in 1..Len(workload) : it'[Slot(i)] < i => it[Slot(i)] < i
      BY <1>1, <2>1, <2>3, <3>1
    <3> QED
      BY <1>1, <3>2, <3>3 DEF Front, Slot
  <2>5. ASSUME NEW v \in Worker, pc'[v] = "run", v # w
        PROVE  /\ Current(v)' \in owed' /\ cursor'[v] < Front(Slot(cursor[v] + 1))'
               /\ cursor'[v] % Size = v
    <3>1. /\ pc[v] = "run" /\ cursor'[v] = cursor[v] /\ it'[v] = it[v]
      BY <1>1, <2>1, <2>5
    <3>2. /\ Current(v) \in owed /\ cursor[v] < Front(Slot(cursor[v] + 1))
          /\ cursor[v] % Size = v
      BY <1>1, <3>1 DEF OwedInv
    <3>3. Slot(cursor[v] + 1) = v /\ Slot(cursor[v] + 1)' = v
      BY <1>1, <3>1, <3>2 DEF Slot
    <3> QED
      BY <1>1, <3>1, <3>2, <3>3 DEF Front, Current
  <2>6. /\ Current(w)' \in owed' /\ cursor'[w] < Front(Slot(cursor[w] + 1))'
        /\ cursor'[w] % Size = w
    <3>1. it[w] + 1 \in 1..Len(workload)
      BY <1>1, <1>4 DEF HasTask
    <3>2. Slot(it[w] + 1) = w /\ Slot(cursor[w] + 1)' = w
      BY <1>1, <1>3, <2>1 DEF Slot
    <3>3. workload[it[w] + 1] \in owed
      <4>1. Front(Slot(it[w] + 1)) = it[w]
        BY <1>1, <3>2 DEF Front
      <4>2. it[w] < it[w] + 1
        BY <1>1
      <4> QED
        BY <1>2, <3>1, <4>1, <4>2 DEF OwedInv
    <3> QED
      BY <1>1, <1>3, <2>1, <3>2, <3>3 DEF Current, Front
  <2>7. \A v, u \in Worker : pc'[v] = "run" /\ pc'[u] = "run" /\ u # v =>
          cursor'[u] # cursor'[v]
    BY <2>5, <2>6
  <2>8. OwedInv'
    BY <1>1, <2>4, <2>5, <2>6, <2>7 DEF OwedInv
  <2> QED
    BY <2>2, <2>8
<1>5. CASE ~HasTask(it[w])
  <2>1. /\ pc' = [pc EXCEPT ![w] = "post"] /\ UNCHANGED <<cursor, it>>
    BY <1>5 DEF FetchStriped, Goto
  <2> QED
    BY <1>1, <2>1, AsideKeeps
<1> QED
  BY <1>4, <1>5

\* A task that returns or throws is no longer owed, and was owed before.
LEMMA ExecutedOnce ==
  ASSUME OnceOwedInv, NEW w \in Worker, pc[w] = "run",
         ran' = [ran EXCEPT ![Current(w)] = @ + 1],
         owed' = owed \ {Current(w)},
         \A v \in Worker : pc'[v] = "run" => pc[v] = "run" /\ v # w,
         \A v \in Worker : pc'[v] \in {"ready", "resolve"} => pc'[v] = pc[v],
         owner' \in {owner, "aborted"}, status' \in {status, "TERMINATING"},
         UNCHANGED <<workload, dirty, promise, index, it, cursor, next>>
  PROVE  Added'
<1> USE DEF OnceOwedInv, Added
<1> DEFINE n == cursor[w] + 1
<1>1. /\ owner = "await" /\ promise = "pending"
      /\ ran \in [Task -> Nat] /\ owed \subseteq Task /\ cursor \in [Worker -> Nat]
      /\ workload \in Seq(Task) /\ Len(workload) \in Nat /\ cursor[w] < Len(workload)
  <2>1. owner = "await" /\ promise = "pending"
    BY InsideJob
  <2>2. /\ ran \in [Task -> Nat] /\ owed \subseteq Task /\ cursor \in [Worker -> Nat]
        /\ workload \in Seq(Task)
    BY DEF JobInv, TypeOK
  <2>3. cursor[w] < Len(workload)
    BY DEF JobInv, BusyInv
  <2> QED
    BY <2>1, <2>2, <2>3
<1>2. /\ n \in 1..Len(workload) /\ Current(w) = workload[n] /\ workload[n] \in Task
      /\ workload[n] \in owed /\ ~(Front(Slot(n)) < n)
  <2>1. cursor[w] \in Nat /\ n \in 1..Len(workload) /\ workload[n] \in Task
    BY <1>1
  <2>2. Current(w) = workload[n]
    BY DEF Current
  <2>3. Current(w) \in owed /\ cursor[w] < Front(Slot(n)) /\ (Kind = "mq" => cursor[w] % Size = w)
    BY DEF OwedInv
  <2>4. CASE Kind = "sq"
    <3>1. Front(Slot(n)) = index /\ index \in Nat
      BY <2>4 DEF Front, JobInv, TypeOK
    <3> QED
      BY <2>1, <2>2, <2>3, <3>1
  <2>5. CASE Kind = "mq"
    <3>1. n - 1 = cursor[w]
      BY <2>1
    <3>2. Slot(n) = w
      BY <2>3, <2>5, <3>1 DEF Slot
    <3>3. Front(Slot(n)) = it[w] /\ it[w] \in Nat
      BY <2>5, <3>2 DEF Front, JobInv, TypeOK
    <3> QED
      BY <2>1, <2>2, <2>3, <3>3
  <2> QED
    BY <2>4, <2>5
<1> HIDE DEF n
<1>3. FreshInv'
  BY DEF FreshInv
<1>4. DirtyInv'
  BY DEF DirtyInv, Returning
<1>5. ASSUME NEW i \in 1..Len(workload), Front(Slot(i)) < i
      PROVE  workload[i] \in owed'
  <2>1. i # n
    BY <1>2, <1>5
  <2>2. workload[i] # workload[n] /\ workload[i] \in owed
    BY <1>1, <1>2, <1>5, <2>1 DEF OwedInv, FreshInv
  <2> QED
    BY <1>2, <2>2
<1>6. ASSUME NEW v \in Worker, pc'[v] = "run"
      PROVE  /\ Current(v)' \in owed' /\ cursor[v] < Front(Slot(cursor[v] + 1))
             /\ Kind = "mq" => cursor[v] % Size = v
             /\ \A u \in Worker \ {v} : pc'[u] = "run" => cursor[u] # cursor[v]
  <2>1. pc[v] = "run" /\ v # w
    BY <1>6
  <2>2. /\ Current(v) \in owed /\ cursor[v] < Front(Slot(cursor[v] + 1))
        /\ Kind = "mq" => cursor[v] % Size = v
        /\ \A u \in Worker \ {v} : pc[u] = "run" => cursor[u] # cursor[v]
    BY <2>1 DEF OwedInv
  <2>3. cursor[v] + 1 \in 1..Len(workload)
    <3>1. cursor[v] < Len(workload)
      BY <2>1 DEF JobInv, BusyInv
    <3> QED
      BY <1>1, <3>1
  <2>4. cursor[v] + 1 # n
    BY <1>1, <2>1, <2>2 DEF n
  <2>5. workload[cursor[v] + 1] # workload[n]
    BY <1>1, <1>2, <2>3, <2>4 DEF FreshInv
  <2>6. Current(v)' = workload[cursor[v] + 1] /\ Current(v) = workload[cursor[v] + 1]
    BY DEF Current
  <2> QED
    BY <1>2, <2>1, <2>2, <2>5, <2>6
<1>7. OwedInv'
  BY <1>5, <1>6 DEF OwedInv, Front, Slot, Current
<1>8. OnceInv'
  <2> SUFFICES ASSUME ClearMode # "NEVER" PROVE OnceInv'
    BY DEF OnceInv
  <2>1. ran[workload[n]] = 0 /\ workload[n] < next /\ owner' # "idle"
    BY <1>1, <1>2 DEF OnceInv, FreshInv
  <2>2. ASSUME NEW t \in Task
        PROVE  ran'[t] <= 1 /\ (t >= next' \/ t \in owed' => ran'[t] = 0)
    <3>1. CASE t = workload[n]
      BY <1>1, <1>2, <2>1, <3>1 DEF JobInv, TypeOK
    <3>2. CASE t # workload[n]
      BY <1>1, <1>2, <3>2 DEF OnceInv
    <3> QED
      BY <3>1, <3>2
  <2> QED
    BY <2>1, <2>2 DEF OnceInv
<1> QED
  BY <1>3, <1>4, <1>7, <1>8

\* The worker that completes the job clears the workload if the pool is so
\* configured.
LEMMA CompleteOnce ==
  ASSUME OnceOwedInv, NEW w \in Worker, Complete(w)
  PROVE  Added'
<1> USE DEF OnceOwedInv, Added
<1>1. /\ pc[w] = "complete" /\ pc' = [pc EXCEPT ![w] = "ready"] /\ pc \in [Worker -> Labels]
      /\ UNCHANGED <<status, promise, index, it, cursor, owner, next, owed, ran>>
  BY DEF Complete, Goto, ownerVars, history, JobInv, TypeOK
<1>2. /\ owner = "await" /\ promise = "pending" /\ Engaged = {}
      /\ \A v \in Worker \ {w} : pc[v] \notin {"complete", "ready", "resolve"}
  BY <1>1 DEF JobInv, FinishInv, Finishing
<1>3. \A v \in Worker : pc'[v] # "run" /\ pc'[v] # "resolve"
  BY <1>1, <1>2 DEF Engaged, JobInv, BusyInv
<1>4. CASE ClearMode = "UPPON_COMPLETION"
  <2>1. workload' = <<>> /\ dirty' = FALSE
    BY <1>4 DEF Complete
  <2>2. Len(workload') = 0
    BY <2>1
  <2>3. FreshInv' /\ OwedInv'
    BY <1>3, <2>2 DEF FreshInv, OwedInv
  <2>4. OnceInv'
    BY <1>1, <1>2 DEF OnceInv
  <2>5. DirtyInv'
    BY <1>1, <1>2, <1>3, <1>4, <2>1 DEF DirtyInv, Returning
  <2> QED
    BY <2>3, <2>4, <2>5
<1>5. CASE ClearMode # "UPPON_COMPLETION"
  <2>1. UNCHANGED <<workload, dirty>>
    BY <1>5 DEF Complete
  <2>2. FreshInv' /\ OnceInv'
    BY <1>1, <2>1 DEF FreshInv, OnceInv
  <2>3. OwedInv'
    BY <1>1, <1>3, <2>1 DEF OwedInv, Front, Slot
  <2>4. DirtyInv'
    BY <1>1, <1>2, <1>3, <1>5, <2>1 DEF DirtyInv, Returning
  <2> QED
    BY <2>2, <2>3, <2>4
<1> QED
  BY <1>4, <1>5

\* The pool is READY again before the future is.
LEMMA ReadyOnce ==
  ASSUME OnceOwedInv, NEW w \in Worker, Ready(w) \/ Resolve(w)
  PROVE  Added'
<1> USE DEF OnceOwedInv, Added
<1>1. /\ pc[w] \in {"ready", "resolve"} /\ pc \in [Worker -> Labels]
      /\ UNCHANGED <<workload, dirty, index, it, cursor, owner, next, owed, ran>>
      /\ \A v \in Worker \ {w} : pc'[v] = pc[v]
      /\ pc'[w] \in {"resolve", "check"}
  BY DEF Ready, Resolve, Goto, ownerVars, history, JobInv, TypeOK
<1>2. owner = "await" /\ promise = "pending" /\ Engaged = {}
  BY <1>1 DEF JobInv, FinishInv, Finishing
<1>3. \A v \in Worker : pc'[v] # "run"
  BY <1>1, <1>2 DEF Engaged, JobInv, BusyInv
<1>4. FreshInv' /\ OnceInv'
  BY <1>1 DEF FreshInv, OnceInv
<1>5. OwedInv'
  BY <1>1, <1>2, <1>3 DEF OwedInv, Front, Slot
<1>6. ClearMode = "UPPON_COMPLETION" => ~dirty /\ workload = <<>>
  BY <1>1 DEF DirtyInv, Returning
<1>7. status' # "PROCESSING"
  BY <1>1 DEF Ready, Resolve, DirtyInv, Returning
<1>8. DirtyInv'
  BY <1>1, <1>2, <1>6, <1>7 DEF DirtyInv, Returning
<1> QED
  BY <1>4, <1>5, <1>8

\* A worker throws: it is over for the task, for the worker, for the pool or for
\* the process.
LEMMA ThrowOnce ==
  ASSUME OnceOwedInv, NEW w \in Worker, Throw(w)
  PROVE  Added'
<1>1. pc \in [Worker -> Labels] /\ pc[w] = "run"
  BY DEF OnceOwedInv, JobInv, TypeOK, Throw
<1>2. /\ \A v \in Worker : pc'[v] = "run" => pc[v] = "run" /\ v # w
      /\ \A v \in Worker : pc'[v] \in {"ready", "resolve"} => pc'[v] = pc[v]
      /\ owner' \in {owner, "aborted"} /\ status' \in {status, "TERMINATING"}
  BY <1>1 DEF Throw, Goto
<1> QED
  BY <1>1, <1>2, ExecutedOnce DEF Throw

\* Every step of the pool keeps the invariant.
LEMMA OnceOwedStep ==
  ASSUME OnceOwedInv, [Next]_vars
  PROVE  OnceOwedInv'
<1>1. JobInv'
  BY JobInvStep DEF OnceOwedInv
<1> SUFFICES Added'
  BY <1>1 DEF OnceOwedInv, Added
<1> pc \in [Worker -> Labels]
  BY DEF OnceOwedInv, JobInv, TypeOK
<1> DEFINE quiet ==
             /\ UNCHANGED <<workload, dirty, promise, it, index, cursor, next, owed, ran>>
             /\ \A w \in Worker : pc'[w] \in {"run", "ready", "resolve"} => pc'[w] = pc[w]
             /\ owner' = owner \/ owner' \in {"joining", "gone"}
             /\ status' = status \/ status' # "PROCESSING"
<1>2. quiet => Added'
  BY AsideKeeps
<1>3. CASE Start
  BY <1>2, <1>3 DEF Start, ownerVars, history
<1>4. CASE Destroy
  BY <1>2, <1>4 DEF Destroy, Notified, history
<1>5. CASE Join
  BY <1>2, <1>5 DEF Join, poolVars, workerVars, history
<1>6. CASE AddTask
  BY <1>6, AddTaskFresh
<1>7. CASE Process
  BY <1>7, ProcessFresh
<1>8. CASE Dispatch
  BY <1>8, DispatchFresh
<1>9. CASE Await
  BY <1>9, AwaitFresh
<1>10. ASSUME NEW k \in 0..MaxBatch, ProcessNew(k)
       PROVE  Added'
  BY <1>10, ProcessNewFresh
<1>11. ASSUME NEW w \in Worker,
              \/ WaitForWork(w) \/ Begin(w) \/ SpuriousWakeup(w)
              \/ Post(w) \/ Release(w) \/ Decrement(w)
       PROVE  Added'
  <2>1. \E l \in {"woken", "asleep", "check", "exited", "fetch", "release", "decrement",
                   "complete"} : pc' = [pc EXCEPT ![w] = l]
    BY <1>11 DEF WaitForWork, Begin, SpuriousWakeup, Post, Release, Decrement, Goto
  <2>2. /\ UNCHANGED <<workload, dirty, promise, it, index, cursor, next, owed, ran>>
        /\ UNCHANGED <<owner, status>>
    BY <1>11 DEF WaitForWork, Begin, SpuriousWakeup, Post, Release, Decrement,
       poolVars, ownerVars, history
  <2> QED
    BY <1>2, <2>1, <2>2
<1>12. ASSUME NEW w \in Worker, RunTask(w)
       PROVE  Added'
  <2>1. /\ pc[w] = "run" /\ pc' = [pc EXCEPT ![w] = "fetch"]
        /\ ran' = [ran EXCEPT ![Current(w)] = @ + 1] /\ owed' = owed \ {Current(w)}
        /\ UNCHANGED <<workload, dirty, promise, index, it, cursor, next>>
        /\ owner' = owner /\ status' = status
    BY <1>12 DEF RunTask, Goto, poolVars, ownerVars
  <2>2. /\ \A v \in Worker : pc'[v] = "run" => pc[v] = "run" /\ v # w
        /\ \A v \in Worker : pc'[v] \in {"ready", "resolve"} => pc'[v] = pc[v]
    BY <2>1
  <2>3. owner' \in {owner, "aborted"} /\ status' \in {status, "TERMINATING"}
    BY <2>1
  <2> QED
    BY <2>1, <2>2, <2>3, ExecutedOnce
<1>13. ASSUME NEW w \in Worker, FetchShared(w) PROVE Added'
  BY <1>13, FetchSharedOwed
<1>14. ASSUME NEW w \in Worker, FetchStriped(w) PROVE Added'
  BY <1>14, FetchStripedOwed
<1>15. ASSUME NEW w \in Worker, Throw(w) PROVE Added'
  BY <1>15, ThrowOnce
<1>16. ASSUME NEW w \in Worker, Complete(w) PROVE Added'
  BY <1>16, CompleteOnce
<1>17. ASSUME NEW w \in Worker, Ready(w) \/ Resolve(w) PROVE Added'
  BY <1>17, ReadyOnce
<1>18. CASE UNCHANGED vars
  BY <1>2, <1>18 DEF vars, poolVars, workerVars, ownerVars, history
<1> HIDE DEF Worker, quiet
<1>19. CASE OwnerStep
  BY <1>3, <1>4, <1>5, <1>6, <1>7, <1>8, <1>9, <1>10, <1>19, Zenon DEF OwnerStep
<1>20. CASE \E w \in Worker : WorkerStep(w) \/ SpuriousWakeup(w)
  BY <1>11, <1>12, <1>13, <1>14, <1>15, <1>16, <1>17, <1>20, Zenon DEF WorkerStep
<1> QED
  BY <1>18, <1>19, <1>20, Zenon DEF Next, Stopped

\* A pool that has not been started owes nothing.
LEMMA OnceOwedInit == Init => OnceOwedInv
<1> SUFFICES ASSUME Init PROVE OnceOwedInv
  OBVIOUS
<1>1. Len(workload) = 0
  BY DEF Init
<1>2. FreshInv /\ OwedInv /\ OnceInv /\ DirtyInv
  BY <1>1 DEF Init, FreshInv, OwedInv, OnceInv, DirtyInv, Returning
<1> QED
  BY <1>2, JobInvInit DEF OnceOwedInv

\* The invariant behind ExecutesOwed.
THEOREM OnceOwedHolds == Spec => []OnceOwedInv
BY OnceOwedInit, OnceOwedStep, PTL DEF Spec

\* A task that is executed is owed, and by no other worker at the same time; a
\* pool that clears its workload never executes a task twice.
THEOREM ExecutesOwedHolds == Spec => []ExecutesOwed
<1>1. ASSUME OnceOwedInv
      PROVE  ExecutesOwed
  <2>1. ASSUME NEW w \in Worker, NEW v \in Worker \ {w}, pc[w] = "run", pc[v] = "run"
        PROVE  Current(v) # Current(w)
    <3>1. cursor[v] # cursor[w]
      BY <1>1, <2>1 DEF OnceOwedInv, OwedInv
    <3>2. cursor[v] < Len(workload) /\ cursor[w] < Len(workload)
      BY <1>1, <2>1 DEF OnceOwedInv, JobInv, BusyInv
    <3>3. cursor[v] \in Nat /\ cursor[w] \in Nat /\ Len(workload) \in Nat
      BY <1>1 DEF OnceOwedInv, JobInv, TypeOK
    <3>4. /\ cursor[v] + 1 \in 1..Len(workload) /\ cursor[w] + 1 \in 1..Len(workload)
          /\ cursor[v] + 1 # cursor[w] + 1
      BY <3>1, <3>2, <3>3
    <3> QED
      BY <1>1, <3>4 DEF OnceOwedInv, FreshInv, Current
  <2> QED
    BY <1>1, <2>1 DEF OnceOwedInv, OwedInv, OnceInv, ExecutesOwed
<1> QED
  BY <1>1, OnceOwedHolds, PTL

\* While a worker fetches or executes a task the owner waits and nobody completes
\* the job, so neither of them reassigns m_workload under the worker's hands.
THEOREM WorkloadStableHolds == Spec => WorkloadStable
<1>1. ASSUME JobInv, [Next]_vars, NEW w \in Worker, pc[w] \in {"fetch", "run"}
      PROVE  workload' = workload
  <2>1. owner = "await" /\ Finishing = {}
    BY <1>1, InsideJob
  <2>2. CASE OwnerStep
    BY <2>1, <2>2 DEF OwnerStep, Start, AddTask, Process, ProcessNew, Dispatch, Await, Destroy,
       Join, poolVars
  <2>3. ASSUME NEW v \in Worker, WorkerStep(v) \/ SpuriousWakeup(v)
        PROVE  workload' = workload
    <3>1. ~Complete(v)
      BY <2>1 DEF Complete, Finishing
    <3> QED
      BY <2>3, <3>1 DEF WorkerStep, WaitForWork, SpuriousWakeup, Begin, FetchShared, FetchStriped,
         RunTask, Throw, Post, Release, Decrement, Ready, Resolve, poolVars
  <2>4. CASE UNCHANGED vars
    BY <2>4 DEF vars, poolVars
  <2> HIDE DEF Worker
  <2> QED
    BY <1>1, <2>2, <2>3, <2>4, Zenon DEF Next, Stopped
<1>2. JobInv /\ [Next]_vars =>
        [(\E w \in Worker : pc[w] \in {"fetch", "run"}) => workload' = workload]_vars
  BY <1>1
<1> QED
  BY <1>2, JobInvHolds, PTL DEF Spec, WorkloadStable

----------------------------------------------------------------------------

\* A step of the owner hands over a job, collects one that is over, or is none of
\* TaskJob's business.
LEMMA OwnerStepMaps ==
  ASSUME OnceOwedInv, OwnerStep
  PROVE  [Job!Next]_(Job!vars)
<1> USE DEF Job!vars
<1>1. ASSUME NEW load \in Seq(Task), owner = "idle", Publish(load)
      PROVE  [Job!Next]_(Job!vars)
  <2>1. CASE status # "READY" \/ load = <<>>
    BY <1>1, <2>1 DEF Publish
  <2>2. CASE ~(status # "READY" \/ load = <<>>)
    <3>1. owed' = {load[i] : i \in 1..Len(load)} /\ owner' = "dispatch"
      BY <2>2, <1>1 DEF Publish
    <3>2. Len(load) \in Nat /\ Len(load) # 0 /\ \A i \in 1..Len(load) : load[i] \in Task
      BY <1>1, <2>2
    <3>3. owed' \in SUBSET Task /\ load[1] \in owed'
      BY <3>1, <3>2
    <3>4. Job!Submit(owed')
      BY <1>1, <3>1, <3>3 DEF Job!Submit
    <3> QED
      BY <3>3, <3>4 DEF Job!Next
  <2> QED
    BY <2>1, <2>2
<1>2. CASE Process
  <2> DEFINE stale == ClearMode = "AT_NEXT_WORKLOAD" /\ status = "READY" /\ dirty
             load == IF stale THEN <<>> ELSE workload
  <2>1. load \in Seq(Task)
    BY KeptWorkload, Zenon DEF OnceOwedInv, JobInv
  <2>2. Publish(load) /\ owner = "idle"
    BY <1>2 DEF Process
  <2> HIDE DEF load
  <2> QED
    BY <1>1, <2>1, <2>2
<1>3. ASSUME NEW k \in 0..MaxBatch, ProcessNew(k)
      PROVE  [Job!Next]_(Job!vars)
  <2> DEFINE load == [i \in 1..k |-> next + i - 1]
  <2>1. \A i \in 1..k : next + i - 1 \in Task
    BY <1>3 DEF ProcessNew, OnceOwedInv, JobInv, TypeOK
  <2>2. load \in Seq(Task)
    BY <2>1
  <2>3. Publish(load) /\ owner = "idle"
    BY <1>3 DEF ProcessNew
  <2> HIDE DEF load
  <2> QED
    BY <1>1, <2>2, <2>3
<1>4. CASE Await
  <2>1. owed = {}
    BY <1>4 DEF Await, OnceOwedInv, JobInv, JobDone
  <2>2. Job!Collect
    BY <1>4, <2>1 DEF Await, Job!Collect, history
  <2> QED
    BY <2>2 DEF Job!Next
<1>5. CASE Start \/ AddTask
  BY <1>5 DEF Start, AddTask, ownerVars, history
<1>6. CASE Dispatch \/ Destroy \/ Join
  BY <1>6 DEF Dispatch, Destroy, Join, history
<1> QED
  BY <1>2, <1>3, <1>4, <1>5, <1>6 DEF OwnerStep

\* A step of a worker executes one owed task, or is none of TaskJob's business.
LEMMA WorkerStepMaps ==
  ASSUME OnceOwedInv, ErrorHandling # "NONE", NEW w \in Worker,
         WorkerStep(w) \/ SpuriousWakeup(w)
  PROVE  [Job!Next]_(Job!vars)
<1>1. CASE RunTask(w) \/ Throw(w)
  <2>1. pc[w] = "run" /\ owed' = owed \ {Current(w)} /\ owner' = owner
    BY <1>1 DEF RunTask, Throw, ownerVars
  <2>2. Current(w) \in owed /\ owed \subseteq Task /\ owner = "await"
    BY <2>1, InsideJob DEF OnceOwedInv, OwedInv, JobInv, TypeOK
  <2>3. Job!Execute(Current(w))
    BY <2>1, <2>2 DEF Job!Execute
  <2> QED
    BY <2>2, <2>3 DEF Job!Next
<1>2. CASE ~(RunTask(w) \/ Throw(w))
  <2>1. UNCHANGED <<owner, owed>>
    BY <1>2 DEF WorkerStep, WaitForWork, SpuriousWakeup, Begin, FetchShared, FetchStriped,
       Post, Release, Decrement, Complete, Ready, Resolve, ownerVars, history
  <2> QED
    BY <2>1 DEF Job!vars
<1> QED
  BY <1>1, <1>2

\* The safety part of ImplementsJob, for every pool that catches what its tasks
\* throw: the owner gets its future only after each task of the job was executed,
\* none of them twice.
THEOREM ImplementsJobSafely ==
  ASSUME ErrorHandling # "NONE"
  PROVE  Spec => Job!SafeSpec
<1>1. Init => Job!Init
  BY DEF Init, Job!Init
<1>2. ASSUME OnceOwedInv, [Next]_vars
      PROVE  [Job!Next]_(Job!vars)
  <2>1. CASE UNCHANGED vars
    BY <2>1 DEF vars, ownerVars, history, Job!vars
  <2> HIDE DEF Worker
  <2> QED
    BY <1>2, <2>1, OwnerStepMaps, WorkerStepMaps DEF Next, Stopped
<1> QED
  BY <1>1, <1>2, OnceOwedHolds, PTL DEF Spec, Job!SafeSpec
=============================================================================
