----------------------------- MODULE ThreadPool -----------------------------
(***************************************************************************)
(* The worker pool of src/shared/ThreadPool.{h,cpp}.  One owner thread     *)
(* fills a workload, publishes it to the workers, does other work, and     *)
(* waits on the future before it touches the pool again: that is how       *)
(* SqlResultQueue::Update, World::Update, Map::Update and                  *)
(* MapManager::Update all use it.  Workers share a mutex and a condition   *)
(* variable with the owner; everything else they touch (m_status, m_index, *)
(* m_active, m_workload, m_result) is read and written without the lock,   *)
(* so each such access is a step of its own here.                          *)
(*                                                                         *)
(* Tasks are numbered in the order the owner creates them.  MaxTask bounds *)
(* how many it creates in a behaviour, MaxBatch how many it hands over in  *)
(* one call of the processWorkload(workload) overload.                     *)
(***************************************************************************)
EXTENDS Integers, Sequences, FiniteSets

CONSTANTS
  Size,          \* m_size, the number of worker threads
  Kind,          \* "sq": worker_sq, one shared index; "mq": worker_mq, striped
  ClearMode,     \* m_clearMode
  ErrorHandling, \* m_errorHandling
  Throws,        \* the tasks that end with an exception
  MaxTask,       \* bound: tasks created in a behaviour
  MaxBatch       \* bound: tasks in one processWorkload(workload) call

ASSUME PoolAssumption ==
  /\ Size \in Nat
  /\ Kind \in {"sq", "mq"}
  /\ ClearMode \in {"NEVER", "UPPON_COMPLETION", "AT_NEXT_WORKLOAD"}
  /\ ErrorHandling \in {"NONE", "IGNORE", "LOG", "TERMINATE"}
  /\ MaxTask \in Nat
  /\ MaxBatch \in Nat
  /\ Throws \subseteq 1..MaxTask

Worker == 0..(Size - 1)
Task == 1..MaxTask

VARIABLES
  status,    \* m_status
  workload,  \* m_workload
  dirty,     \* m_dirty
  active,    \* m_active
  index,     \* m_index
  promise,   \* m_result as its future sees it: "none", "pending" or "ready"
  errors,    \* m_errors, each entry the task whose exception it is
  busy,      \* worker::busy
  it,        \* worker_mq::it
  cursor,    \* the local i (worker_sq) or w (worker_mq) of doWork
  pc,        \* where each worker stands in loop()
  owner,     \* where the owning thread stands
  next,      \* the next task the owner creates
  owed,      \* history: the tasks of the current job not executed yet
  ran        \* history: how many times each task was executed

poolVars == <<status, workload, dirty, active, index, promise, errors>>
workerVars == <<busy, it, cursor, pc>>
ownerVars == <<owner, next>>
history == <<owed, ran>>
vars == <<poolVars, workerVars, ownerVars, history>>

Minimum(a, b) == IF a < b THEN a ELSE b

Init ==
  /\ status = "STOPPED"
  /\ workload = <<>>
  /\ dirty = FALSE
  /\ active = 0
  /\ index = 0
  /\ promise = "none"
  /\ errors = <<>>
  /\ busy = [w \in Worker |-> FALSE]
  /\ it = [w \in Worker |-> 0]
  /\ cursor = [w \in Worker |-> 0]
  /\ pc = [w \in Worker |-> "unborn"]
  /\ owner = "idle"
  /\ next = 1
  /\ owed = {}
  /\ ran = [t \in Task |-> 0]

----------------------------------------------------------------------------
(* The owner. *)

\* start(): one thread per worker; with no worker the pool stays STOPPED.
Start ==
  /\ owner = "idle"
  /\ status = "STOPPED"
  /\ Size # 0
  /\ status' = "READY"
  /\ pc' = [w \in Worker |-> "check"]
  /\ UNCHANGED <<workload, dirty, active, index, promise, errors, busy, it,
                 cursor, ownerVars, history>>

\* operator<<: drops a workload that already ran, then appends the task.
AddTask ==
  /\ owner = "idle"
  /\ status # "PROCESSING"
  /\ next <= MaxTask
  /\ LET stale == ClearMode = "AT_NEXT_WORKLOAD" /\ dirty
     IN /\ workload' = Append(IF stale THEN <<>> ELSE workload, next)
        /\ dirty' = (dirty /\ ~stale)
  /\ next' = next + 1
  /\ UNCHANGED <<status, active, index, promise, errors, workerVars, owner, history>>

\* The body of processWorkload(pre, post) up to the lock.  It refuses, and
\* returns an invalid future, unless the pool is READY and has tasks.
Publish(load) ==
  /\ workload' = load
  /\ IF status # "READY" \/ load = <<>>
       THEN UNCHANGED <<status, active, index, promise, owner, owed>>
       ELSE /\ promise' = "pending"
            /\ owed' = {load[i] : i \in 1..Len(load)}
            /\ active' = Minimum(Size, Len(load))
            /\ index' = 0
            /\ status' = "PROCESSING"
            /\ owner' = "dispatch"

\* Mutant: the stale workload is not cleared first.
ProcessWithoutClear ==
  /\ owner = "idle"
  /\ Publish(workload)
  /\ dirty' = (dirty \/ status' = "PROCESSING")
  /\ UNCHANGED <<errors, workerVars, next, ran>>

\* processWorkload(pre, post) on the tasks added with operator<<.
Process ==
  /\ owner = "idle"
  /\ LET stale == ClearMode = "AT_NEXT_WORKLOAD" /\ status = "READY" /\ dirty
     IN /\ Publish(IF stale THEN <<>> ELSE workload)
        /\ dirty' = ((dirty /\ ~stale) \/ status' = "PROCESSING")
  /\ UNCHANGED <<errors, workerVars, next, ran>>

\* processWorkload(workload, pre, post): replaces the workload by k new tasks.
ProcessNew(k) ==
  /\ owner = "idle"
  /\ status = "READY"
  /\ next + k <= MaxTask + 1
  /\ Publish([i \in 1..k |-> next + i - 1])
  /\ dirty' = (status' = "PROCESSING")
  /\ next' = next + k
  /\ UNCHANGED <<errors, workerVars, ran>>

\* A sleeping worker that is notified re-evaluates its wait condition.
Notified == [w \in Worker |-> IF pc[w] = "asleep" THEN "check" ELSE pc[w]]

\* Mutant: notify_all() is forgotten.
DispatchWithoutNotify ==
  /\ owner = "dispatch"
  /\ busy' = [w \in Worker |-> busy[w] \/ w < active]
  /\ it' = [w \in Worker |-> IF w < active THEN w ELSE it[w]]
  /\ owner' = "await"
  /\ UNCHANGED <<poolVars, cursor, pc, next, history>>

\* Mutant: every worker is prepared, not only the first m_active.
DispatchToAll ==
  /\ owner = "dispatch"
  /\ busy' = [w \in Worker |-> TRUE]
  /\ it' = [w \in Worker |-> w]
  /\ pc' = Notified
  /\ owner' = "await"
  /\ UNCHANGED <<poolVars, cursor, next, history>>

\* The critical section of processWorkload: prepare() the first m_active
\* workers and notify, all under the lock.
Dispatch ==
  /\ owner = "dispatch"
  /\ busy' = [w \in Worker |-> busy[w] \/ w < active]
  /\ it' = [w \in Worker |-> IF w < active THEN w ELSE it[w]]
  /\ pc' = Notified
  /\ owner' = "await"
  /\ UNCHANGED <<poolVars, cursor, next, history>>

\* job.wait()
Await ==
  /\ owner = "await"
  /\ promise = "ready"
  /\ owner' = "idle"
  /\ UNCHANGED <<poolVars, workerVars, next, history>>

\* Mutant: notify_all() is forgotten.
DestroyWithoutNotify ==
  /\ owner = "idle"
  /\ status' = "TERMINATING"
  /\ owner' = "joining"
  /\ UNCHANGED <<workload, dirty, active, index, promise, errors, workerVars,
                 next, history>>

\* ~ThreadPool up to the end of its body: TERMINATING and notify, locked.
Destroy ==
  /\ owner = "idle"
  /\ status' = "TERMINATING"
  /\ pc' = Notified
  /\ owner' = "joining"
  /\ UNCHANGED <<workload, dirty, active, index, promise, errors, busy, it,
                 cursor, next, history>>

\* The member m_workers is destroyed: every worker's thread is joined.
Join ==
  /\ owner = "joining"
  /\ \A w \in Worker : pc[w] \in {"unborn", "exited"}
  /\ owner' = "gone"
  /\ UNCHANGED <<poolVars, workerVars, next, history>>

----------------------------------------------------------------------------
(* The workers. *)

Goto(w, label) == pc' = [pc EXCEPT ![w] = label]

\* waitForWork(): evaluate the wait condition under the shared lock.
WaitForWork(w) ==
  /\ pc[w] = "check"
  /\ Goto(w, IF busy[w] \/ status = "TERMINATING" THEN "woken" ELSE "asleep")
  /\ UNCHANGED <<poolVars, busy, it, cursor, ownerVars, history>>

\* A condition variable may wake a waiter that nobody notified.
SpuriousWakeup(w) ==
  /\ pc[w] = "asleep"
  /\ Goto(w, "check")
  /\ UNCHANGED <<poolVars, busy, it, cursor, ownerVars, history>>

\* loop() after waitForWork: leave if the pool ends, else run pre().
Begin(w) ==
  /\ pc[w] = "woken"
  /\ Goto(w, IF status = "TERMINATING" THEN "exited" ELSE "fetch")
  /\ UNCHANGED <<poolVars, busy, it, cursor, ownerVars, history>>

HasTask(i) == i < Len(workload) /\ status = "PROCESSING"

\* Mutant: m_index is read and written back in two steps.
FetchSharedNonAtomic(w) ==
  /\ Kind = "sq"
  /\ pc[w] = "fetch"
  /\ cursor' = [cursor EXCEPT ![w] = index]
  /\ index' \in {index, index + 1}
  /\ Goto(w, IF HasTask(index) THEN "run" ELSE "post")
  /\ UNCHANGED <<status, workload, dirty, active, promise, errors, busy, it,
                 ownerVars, history>>

\* worker_sq::doWork: i = pool->m_index++ and the loop condition.
FetchShared(w) ==
  /\ Kind = "sq"
  /\ pc[w] = "fetch"
  /\ cursor' = [cursor EXCEPT ![w] = index]
  /\ index' = index + 1
  /\ Goto(w, IF HasTask(index) THEN "run" ELSE "post")
  /\ UNCHANGED <<status, workload, dirty, active, promise, errors, busy, it,
                 ownerVars, history>>

\* Mutant: the stride is the number of active workers.
FetchStripedByActive(w) ==
  /\ Kind = "mq"
  /\ pc[w] = "fetch"
  /\ IF HasTask(it[w])
       THEN /\ cursor' = [cursor EXCEPT ![w] = it[w]]
            /\ it' = [it EXCEPT ![w] = it[w] + active]
            /\ Goto(w, "run")
       ELSE /\ Goto(w, "post")
            /\ UNCHANGED <<cursor, it>>
  /\ UNCHANGED <<poolVars, busy, ownerVars, history>>

\* worker_mq::doWork: every m_size-th task, advanced before the task runs.
FetchStriped(w) ==
  /\ Kind = "mq"
  /\ pc[w] = "fetch"
  /\ IF HasTask(it[w])
       THEN /\ cursor' = [cursor EXCEPT ![w] = it[w]]
            /\ it' = [it EXCEPT ![w] = it[w] + Size]
            /\ Goto(w, "run")
       ELSE /\ Goto(w, "post")
            /\ UNCHANGED <<cursor, it>>
  /\ UNCHANGED <<poolVars, busy, ownerVars, history>>

Current(w) == workload[cursor[w] + 1]

\* m_workload[i]() returns.
RunTask(w) ==
  /\ pc[w] = "run"
  /\ Current(w) \notin Throws
  /\ ran' = [ran EXCEPT ![Current(w)] = @ + 1]
  /\ owed' = owed \ {Current(w)}
  /\ Goto(w, "fetch")
  /\ UNCHANGED <<poolVars, busy, it, cursor, ownerVars>>

\* m_errors.push_back() takes no lock: while another worker is about to throw
\* as well, the entry may be lost.
Recorded(w) ==
  LET raced == \E v \in Worker \ {w} : pc[v] = "run" /\ Current(v) \in Throws
  IN IF ErrorHandling \in {"LOG", "TERMINATE"}
       THEN {Append(errors, Current(w))} \cup {e \in {errors} : raced}
       ELSE {errors}

\* m_workload[i]() throws.  NONE: nothing catches it and the process ends.
\* Otherwise loop_wrapper catches it, records it (not for IGNORE), and starts
\* loop() again with busy still set, so the worker resumes the workload.
\* TERMINATE ends the whole pool instead.
Throw(w) ==
  /\ pc[w] = "run"
  /\ Current(w) \in Throws
  /\ ran' = [ran EXCEPT ![Current(w)] = @ + 1]
  /\ owed' = owed \ {Current(w)}
  /\ errors' \in Recorded(w)
  /\ IF ErrorHandling = "NONE"
       THEN /\ pc' = [v \in Worker |-> "exited"]
            /\ owner' = "aborted"
            /\ UNCHANGED status
       ELSE /\ status' = IF ErrorHandling = "TERMINATE" THEN "TERMINATING" ELSE status
            /\ Goto(w, IF status' = "TERMINATING" THEN "exited" ELSE "check")
            /\ UNCHANGED owner
  /\ UNCHANGED <<workload, dirty, active, index, promise, busy, it, cursor, next>>

\* post() returns.
Post(w) ==
  /\ pc[w] = "post"
  /\ Goto(w, "release")
  /\ UNCHANGED <<poolVars, busy, it, cursor, ownerVars, history>>

\* busy = false
Release(w) ==
  /\ pc[w] = "release"
  /\ busy' = [busy EXCEPT ![w] = FALSE]
  /\ Goto(w, "decrement")
  /\ UNCHANGED <<poolVars, it, cursor, ownerVars, history>>

\* Mutant: off by one, the job is completed with one worker still inside.
DecrementCompletingEarly(w) ==
  /\ pc[w] = "decrement"
  /\ active' = active - 1
  /\ Goto(w, IF active' <= 1 THEN "complete" ELSE "check")
  /\ UNCHANGED <<status, workload, dirty, index, promise, errors, busy, it,
                 cursor, ownerVars, history>>

\* remaining = --m_active: the worker that takes it to zero completes the job.
Decrement(w) ==
  /\ pc[w] = "decrement"
  /\ active' = active - 1
  /\ Goto(w, IF active' = 0 THEN "complete" ELSE "check")
  /\ UNCHANGED <<status, workload, dirty, index, promise, errors, busy, it,
                 cursor, ownerVars, history>>

\* The last worker clears the workload if the pool is so configured.
Complete(w) ==
  /\ pc[w] = "complete"
  /\ IF ClearMode = "UPPON_COMPLETION"
       THEN workload' = <<>> /\ dirty' = FALSE
       ELSE UNCHANGED <<workload, dirty>>
  /\ Goto(w, "ready")
  /\ UNCHANGED <<status, active, index, promise, errors, busy, it, cursor,
                 ownerVars, history>>

\* Mutant: the future is made ready before the pool is.
ReadyAfterResult(w) ==
  /\ \/ /\ pc[w] = "ready"
        /\ promise' = "ready"
        /\ Goto(w, "resolve")
        /\ UNCHANGED status
     \/ /\ pc[w] = "resolve"
        /\ status' = "READY"
        /\ Goto(w, "check")
        /\ UNCHANGED promise
  /\ UNCHANGED <<workload, dirty, active, index, errors, busy, it, cursor,
                 ownerVars, history>>

\* m_status = READY.  (No code assigns ERROR, so the branch of loop() that
\* reports the first exception through the future is dead.)
Ready(w) ==
  /\ pc[w] = "ready"
  /\ status' = "READY"
  /\ Goto(w, "resolve")
  /\ UNCHANGED <<workload, dirty, active, index, promise, errors, busy, it,
                 cursor, ownerVars, history>>

\* m_result.set_value()
Resolve(w) ==
  /\ pc[w] = "resolve"
  /\ promise' = "ready"
  /\ Goto(w, "check")
  /\ UNCHANGED <<status, workload, dirty, active, index, errors, busy, it,
                 cursor, ownerVars, history>>

----------------------------------------------------------------------------

OwnerStep ==
  \/ Start \/ AddTask \/ Process \/ Dispatch \/ Await \/ Destroy \/ Join
  \/ \E k \in 0..MaxBatch : ProcessNew(k)

WorkerStep(w) ==
  \/ WaitForWork(w) \/ Begin(w)
  \/ FetchShared(w) \/ FetchStriped(w) \/ RunTask(w) \/ Throw(w)
  \/ Post(w) \/ Release(w) \/ Decrement(w)
  \/ Complete(w) \/ Ready(w) \/ Resolve(w)

\* The pool is gone, or the process is.
Stopped == owner \in {"gone", "aborted"} /\ UNCHANGED vars

Next == OwnerStep \/ (\E w \in Worker : WorkerStep(w) \/ SpuriousWakeup(w)) \/ Stopped

Spec == Init /\ [][Next]_vars

\* The operating system runs every thread; nothing obliges the owner to start
\* another job, so only its committed steps are fair.
Fairness ==
  /\ \A w \in Worker : WF_vars(WorkerStep(w))
  /\ WF_vars(Dispatch) /\ WF_vars(Await) /\ WF_vars(Join)

FairSpec == Spec /\ Fairness

----------------------------------------------------------------------------
(* Properties. *)

Labels == {"unborn", "check", "asleep", "woken", "fetch", "run", "post",
           "release", "decrement", "complete", "ready", "resolve", "exited"}

\* Every variable stays in its range.
TypeOK ==
  /\ status \in {"STOPPED", "READY", "PROCESSING", "TERMINATING"}
  /\ workload \in Seq(Task)
  /\ dirty \in BOOLEAN
  /\ active \in Nat
  /\ index \in Nat
  /\ promise \in {"none", "pending", "ready"}
  /\ errors \in Seq(Task)
  /\ busy \in [Worker -> BOOLEAN]
  /\ it \in [Worker -> Nat]
  /\ cursor \in [Worker -> Nat]
  /\ pc \in [Worker -> Labels]
  /\ owner \in {"idle", "dispatch", "await", "joining", "gone", "aborted"}
  /\ next \in 1..(MaxTask + 1)
  /\ owed \in SUBSET Task
  /\ ran \in [Task -> Nat]

\* Workers inside the job: claimed by the owner and not yet subtracted from
\* m_active.
Engaged == {w \in Worker : busy[w] \/ pc[w] = "decrement"}

\* When the future is ready the whole job is over: every task of the workload
\* was executed and no worker still touches the pool on its behalf.  This is
\* what lets SqlResultQueue::Update, World::Update and MapManager::Update go
\* on single-threaded after job.wait().
JobDone == owner = "await" /\ promise = "ready" => owed = {} /\ Engaged = {}

\* A task that is executed was owed, and to one worker only: no task of a job
\* runs twice in that job, whichever worker fetched it and whether or not an
\* earlier one threw.  A pool that drops its workload between two jobs never
\* executes a task again in a later one (SqlResultQueue deletes the callback in
\* the task that ran it, so a second execution would be a use after free).
ExecutesOwed ==
  /\ \A w \in Worker : pc[w] = "run" =>
       Current(w) \in owed /\ \A v \in Worker \ {w} : pc[v] = "run" => Current(v) # Current(w)
  /\ ClearMode # "NEVER" => \A t \in Task : ran[t] <= 1

\* While a worker reads m_workload, outside any lock, nobody reassigns it.
WorkloadStable ==
  [][(\E w \in Worker : pc[w] \in {"fetch", "run"}) => workload' = workload]_vars

\* The pool is a TaskJob: the job runs from processWorkload() to the end of
\* wait(), and its outstanding tasks are the ones still owed.
Job == INSTANCE TaskJob WITH
  phase <- IF owner \in {"dispatch", "await"} THEN "running" ELSE "idle",
  todo <- owed

\* Every job executes each of its tasks exactly once before the owner gets its
\* future, and every job ends.
ImplementsJob == Job!Spec

\* The destructor returns: every worker sees TERMINATING and exits.
ShutdownEnds == (owner = "joining") ~> (owner = "gone")
----------------------------------------------------------------------------
(* The inductive invariant behind JobDone. *)

\* The workers past the last decrement, on their way to make the future ready.
Finishing == {w \in Worker : pc[w] \in {"complete", "ready", "resolve"}}

\* A worker that an exception ended without leaving the job (TERMINATE): it is
\* never subtracted from m_active, so the job cannot complete any more.
Doomed == \E w \in Worker : pc[w] = "exited" /\ busy[w]

\* The worker that is to fetch the i-th task, the number of tasks fetched on
\* its side, and whether that side has nothing left to fetch.
Slot(i) == IF Kind = "sq" THEN 0 ELSE (i - 1) % Size
Front(v) == IF Kind = "sq" THEN index ELSE it[v]
Drained(v) == Front(v) >= Len(workload)

\* Where a worker stands agrees with its busy flag.
BusyInv ==
  /\ \A w \in Worker : pc[w] \in {"fetch", "run", "post", "release"} => busy[w]
  /\ \A w \in Worker :
       pc[w] \in {"decrement", "complete", "ready", "resolve"} => ~busy[w]
  /\ \A w \in Worker : pc[w] = "woken" => busy[w] \/ status = "TERMINATING"
  /\ \A w \in Worker : pc[w] = "run" => cursor[w] < Len(workload)
  /\ Kind = "mq" => \A w \in Worker : busy[w] => it[w] % Size = w

\* Workers are in a job only while the owner waits for it.
PhaseInv ==
  /\ Engaged # {} => owner = "aborted" \/ (owner = "await" /\ promise = "pending")
  /\ owner = "dispatch" =>
       /\ promise = "pending" /\ status = "PROCESSING" /\ index = 0
       /\ active = Minimum(Size, Len(workload)) /\ workload # <<>>
       /\ owed = {workload[i] : i \in 1..Len(workload)}
  /\ owner = "await" /\ Engaged # {} => status = "PROCESSING" \/ Doomed
  /\ owner = "await" /\ promise = "pending" => active = Cardinality(Engaged)
  /\ status \in {"READY", "PROCESSING"} \/ owner \in {"dispatch", "await"} => Size # 0
  /\ owner = "aborted" => \A w \in Worker : pc[w] = "exited"

\* One worker completes the job, when nothing of it is left.
FinishInv ==
  /\ \A v, w \in Finishing : v = w
  /\ Finishing # {} =>
       /\ owner = "await" /\ promise = "pending" /\ status \in {"PROCESSING", "READY"}
       /\ Engaged = {} /\ owed = {}

\* Until then an owed task is still to be fetched or is being executed, and a
\* worker that left the job had nothing more to fetch.
Unfinished == owner = "await" /\ promise = "pending" /\ Finishing = {} /\ ~Doomed

Remaining(i) ==
  \/ Front(Slot(i)) < i
  \/ \E w \in Worker : pc[w] = "run" /\ cursor[w] = i - 1

CoverInv ==
  Unfinished =>
    /\ \A t \in owed : \E i \in 1..Len(workload) : t = workload[i] /\ Remaining(i)
    /\ \A w \in Worker :
         pc[w] \in {"post", "release"} \/ (w < Len(workload) /\ ~busy[w]) => Drained(w)

JobInv == TypeOK /\ BusyInv /\ PhaseInv /\ FinishInv /\ CoverInv /\ JobDone
=============================================================================
