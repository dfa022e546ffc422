---------------------------- MODULE AsyncDatabase ----------------------------
(***************************************************************************)
(* The asynchronous side of src/shared/Database: the delay queue all       *)
(* workers share, the serial queue of each worker, the workers             *)
(* (SqlDelayThread), the queue of query callbacks (SqlResultQueue) that    *)
(* the world thread empties once per tick with the help of a ThreadPool,   *)
(* and StopServer().  The pool appears as what ThreadPool implements, a    *)
(* TaskJob.                                                                *)
(*                                                                         *)
(* SQL text, results and the outcome of a statement are left out: an       *)
(* operation is an id given in queueing order, its serial id, and what     *)
(* happens when it is done.  Its kind is "write" (nothing), "notify" (its  *)
(* std::function runs on the worker and queues one more write, as          *)
(* WhisperTargetLimits::save_targets does), "safe" or "unsafe" (a query    *)
(* whose callback may, or may not, run outside the world thread).          *)
(***************************************************************************)
EXTENDS Integers, SequencesExt

CONSTANTS
  Workers,   \* nWorkers of Database::Initialize
  Producer,  \* threads that queue operations, the world thread among them
  World,     \* the world thread, the one that calls ProcessResultQueue
  Serial,    \* serial ids in use; 0 is "no serial id"
  Kind,      \* the kinds of operation that are queued
  Timeout,   \* whether AsyncQueriesTickTimeout is not 0
  MaxOp      \* bound: operations queued in a behaviour

ASSUME DatabaseAssumption ==
  /\ Workers \in Nat
  /\ World \in Producer
  /\ Serial \subseteq Nat
  /\ Kind \subseteq {"write", "notify", "safe", "unsafe"}
  /\ Timeout \in BOOLEAN
  /\ MaxOp \in Nat

Worker == 0..(Workers - 1)
Id == 1..MaxOp
Op == [id : Id, serial : Serial \cup {0}, kind : Kind \cup {"write"}]
None == -1

VARIABLES
  allowAsync,   \* m_bAllowAsyncTransactions
  numWorkers,   \* m_numAsyncWorkers
  trans,        \* m_TransStorage: the serial id of each thread's transaction
  delayQueue,   \* m_delayQueue
  serialQueue,  \* m_serialDelayQueue of each worker
  running,      \* m_running of each worker
  pc,           \* where each worker stands in run(), or its destructor
  hand,         \* the operation each worker took last, as <<>> or <<op>>
  results,      \* the SqlResultQueue itself
  waiting,      \* _threadUnsafeWaitingQueries
  workload,     \* the callbacks added to the pool's workload
  phase, todo,  \* the callback pool, a TaskJob over operation ids
  main,         \* where the world thread stands in Update() or StopServer()
  next,         \* the next id
  asked,        \* history: the operations that are queries
  called        \* history: the operations whose query callback ran, in order

clientVars == <<allowAsync, trans, next, asked>>
queueVars == <<delayQueue, serialQueue>>
workerVars == <<running, pc, hand>>
resultVars == <<results, waiting, workload, phase, todo, called>>
vars == <<clientVars, queueVars, workerVars, resultVars, numWorkers, main>>

Pool == INSTANCE TaskJob WITH Task <- Id

Init ==
  /\ allowAsync = FALSE
  /\ numWorkers = Workers
  /\ trans = [p \in Producer |-> None]
  /\ delayQueue = <<>>
  /\ serialQueue = [w \in Worker |-> <<>>]
  /\ running = [w \in Worker |-> TRUE]
  /\ pc = [w \in Worker |-> "loop"]
  /\ hand = [w \in Worker |-> <<>>]
  /\ results = <<>>
  /\ waiting = <<>>
  /\ workload = {}
  /\ Pool!Init
  /\ main = "run"
  /\ next = 1
  /\ asked = {}
  /\ called = <<>>

----------------------------------------------------------------------------
(* Threads that queue operations. *)

\* Callbacks run on the world thread, in Update() and in CancelAll(), so it
\* queues operations there too; the other threads are gone at StopServer().
MayQueue(p) ==
  IF p = World THEN main \in {"run", "callbacks", "cancel"}
               ELSE main \in {"run", "collect", "callbacks", "wait"}

NewOp(serial, kind) == [id |-> next, serial |-> serial, kind |-> kind]

AddToDelayQueue(op) ==
  /\ next <= MaxOp
  /\ next' = next + 1
  /\ delayQueue' = Append(delayQueue, op)
  /\ UNCHANGED serialQueue

\* Mutant: serial operations are spread over the workers one by one.
AddToSerialDelayQueueBalanced(op) ==
  IF op.serial = 0 \/ numWorkers = 0
    THEN AddToDelayQueue(op)
    ELSE /\ next <= MaxOp
         /\ next' = next + 1
         /\ serialQueue' = [serialQueue EXCEPT ![op.id % numWorkers] = Append(@, op)]
         /\ UNCHANGED delayQueue

AddToSerialDelayQueue(op) ==
  IF op.serial = 0 \/ numWorkers = 0
    THEN AddToDelayQueue(op)
    ELSE /\ next <= MaxOp
         /\ next' = next + 1
         /\ serialQueue' = [serialQueue EXCEPT ![op.serial % numWorkers] = Append(@, op)]
         /\ UNCHANGED delayQueue

\* Called once, when the server has started.
AllowAsyncTransactions ==
  /\ main = "run"
  /\ ~allowAsync
  /\ allowAsync' = TRUE
  /\ UNCHANGED <<trans, next, asked, queueVars, workerVars, resultVars, numWorkers, main>>

\* Execute() or ExecuteStmt() outside a transaction.  Before asynchronous
\* execution is allowed the caller runs the statement itself.
Execute(p) ==
  /\ MayQueue(p)
  /\ trans[p] = None
  /\ allowAsync
  /\ \E kind \in {"write", "notify"} \cap Kind : AddToDelayQueue(NewOp(0, kind))
  /\ UNCHANGED <<allowAsync, trans, asked, workerVars, resultVars, numWorkers, main>>

BeginTransaction(p, s) ==
  /\ MayQueue(p)
  /\ trans[p] = None
  /\ trans' = [trans EXCEPT ![p] = s]
  /\ UNCHANGED <<allowAsync, next, asked, queueVars, workerVars, resultVars, numWorkers, main>>

\* CommitTransaction(): the caller runs it itself, or queues it by its serial
\* id.
CommitTransaction(p) ==
  /\ MayQueue(p)
  /\ trans[p] # None
  /\ trans' = [trans EXCEPT ![p] = None]
  /\ IF allowAsync THEN AddToSerialDelayQueue(NewOp(trans[p], "write"))
                   ELSE UNCHANGED <<next, queueVars>>
  /\ UNCHANGED <<allowAsync, asked, workerVars, resultVars, numWorkers, main>>

RollbackTransaction(p) ==
  /\ MayQueue(p)
  /\ trans[p] # None
  /\ trans' = [trans EXCEPT ![p] = None]
  /\ UNCHANGED <<allowAsync, next, asked, queueVars, workerVars, resultVars, numWorkers, main>>

\* AsyncQuery(), AsyncQueryUnsafe().
AsyncQuery(p) ==
  /\ MayQueue(p)
  /\ \E kind \in {"safe", "unsafe"} \cap Kind : AddToDelayQueue(NewOp(0, kind))
  /\ asked' = asked \cup {next}
  /\ UNCHANGED <<allowAsync, trans, workerVars, resultVars, numWorkers, main>>

\* DelayQueryHolder(), DelayQueryHolderUnsafe(): SqlQueryHolder::Execute.
DelayQueryHolder(p, s) ==
  /\ MayQueue(p)
  /\ \E kind \in {"safe", "unsafe"} \cap Kind : AddToSerialDelayQueue(NewOp(s, kind))
  /\ asked' = asked \cup {next}
  /\ UNCHANGED <<allowAsync, trans, workerVars, resultVars, numWorkers, main>>

----------------------------------------------------------------------------
(* SqlDelayThread.  Between "shared" and the end of "serial" it is inside   *)
(* ProcessRequests(); "exited" is the end of run(), and a destructor that   *)
(* runs ProcessRequests() once more ends in "gone".                         *)

Goto(w, label) == pc' = [pc EXCEPT ![w] = label]

\* while (m_running), after ProcessRequests() returned or before its first call.
Loop(w) ==
  /\ pc[w] = "loop"
  /\ Goto(w, IF running[w] THEN "shared" ELSE IF main = "drain" THEN "gone" ELSE "exited")
  /\ UNCHANGED <<running, hand, clientVars, queueVars, resultVars, numWorkers, main>>

\* Mutant: the second loop of ProcessRequests() is missing.
NextSharedOnly(w) ==
  /\ pc[w] = "shared"
  /\ IF delayQueue = <<>>
       THEN Goto(w, "loop") /\ UNCHANGED <<hand, queueVars>>
       ELSE /\ hand' = [hand EXCEPT ![w] = <<Head(delayQueue)>>]
            /\ delayQueue' = Tail(delayQueue)
            /\ Goto(w, "executeShared")
            /\ UNCHANGED serialQueue
  /\ UNCHANGED <<running, clientVars, resultVars, numWorkers, main>>

\* NextDelayedOperation(), one locked pop; an empty queue ends the first loop.
NextShared(w) ==
  /\ pc[w] = "shared"
  /\ IF delayQueue = <<>>
       THEN Goto(w, "serial") /\ UNCHANGED <<hand, queueVars>>
       ELSE /\ hand' = [hand EXCEPT ![w] = <<Head(delayQueue)>>]
            /\ delayQueue' = Tail(delayQueue)
            /\ Goto(w, "executeShared")
            /\ UNCHANGED serialQueue
  /\ UNCHANGED <<running, clientVars, resultVars, numWorkers, main>>

\* m_serialDelayQueue.next(); an empty queue ends ProcessRequests().
NextSerial(w) ==
  /\ pc[w] = "serial"
  /\ IF serialQueue[w] = <<>>
       THEN Goto(w, "loop") /\ UNCHANGED <<hand, queueVars>>
       ELSE /\ hand' = [hand EXCEPT ![w] = <<Head(serialQueue[w])>>]
            /\ serialQueue' = [serialQueue EXCEPT ![w] = Tail(@)]
            /\ Goto(w, "executeSerial")
            /\ UNCHANGED delayQueue
  /\ UNCHANGED <<running, clientVars, resultVars, numWorkers, main>>

Current(w) == Head(hand[w])

\* s->Execute(): the statement reaches the database; a query puts its callback
\* in the result queue.
ExecuteOperation(w) ==
  /\ pc[w] \in {"executeShared", "executeSerial"}
  /\ results' = IF Current(w).kind \in {"safe", "unsafe"}
                  THEN Append(results, Current(w)) ELSE results
  /\ Goto(w, IF pc[w] = "executeShared" THEN "doneShared" ELSE "doneSerial")
  /\ UNCHANGED <<running, hand, clientVars, queueVars, waiting, workload, phase, todo,
                 called, numWorkers, main>>

\* The operation's own std::function, run by the worker, then delete.
Finish(w) ==
  /\ pc[w] \in {"doneShared", "doneSerial"}
  /\ IF Current(w).kind = "notify" /\ next <= MaxOp
       THEN AddToDelayQueue(NewOp(0, "write"))
       ELSE UNCHANGED <<next, queueVars>>
  /\ hand' = [hand EXCEPT ![w] = <<>>]
  /\ Goto(w, IF pc[w] = "doneShared" THEN "shared" ELSE "serial")
  /\ UNCHANGED <<running, allowAsync, trans, asked, resultVars, numWorkers, main>>

----------------------------------------------------------------------------
(* The world thread: SqlResultQueue::Update(). *)

IsUnsafe(op) == op.kind = "unsafe"

\* Mutant: an else is missing, unsafe callbacks go to the pool as well.
CollectResultTwice ==
  /\ main \in {"run", "collect"}
  /\ results # <<>>
  /\ results' = Tail(results)
  /\ waiting' = IF IsUnsafe(Head(results)) THEN Append(waiting, Head(results)) ELSE waiting
  /\ workload' = workload \cup {Head(results).id}
  /\ main' = "collect"
  /\ UNCHANGED <<phase, todo, called, clientVars, queueVars, workerVars, numWorkers>>

\* Mutant: callbacks left over from the last tick are dropped.
CollectResultForgetting ==
  /\ main \in {"run", "collect"}
  /\ results # <<>>
  /\ results' = Tail(results)
  /\ IF IsUnsafe(Head(results))
       THEN /\ waiting' = Append(IF main = "run" THEN <<>> ELSE waiting, Head(results))
            /\ UNCHANGED workload
       ELSE workload' = workload \cup {Head(results).id} /\ UNCHANGED waiting
  /\ main' = "collect"
  /\ UNCHANGED <<phase, todo, called, clientVars, queueVars, workerVars, numWorkers>>

\* Mutant: new callbacks go before the ones left over.
CollectResultNewestFirst ==
  /\ main \in {"run", "collect"}
  /\ results # <<>>
  /\ results' = Tail(results)
  /\ IF IsUnsafe(Head(results))
       THEN waiting' = <<Head(results)>> \o waiting /\ UNCHANGED workload
       ELSE workload' = workload \cup {Head(results).id} /\ UNCHANGED waiting
  /\ main' = "collect"
  /\ UNCHANGED <<phase, todo, called, clientVars, queueVars, workerVars, numWorkers>>

\* while (next(callback)), one locked pop: a thread safe callback becomes a task
\* of the pool's workload, another one waits for this thread.
CollectResult ==
  /\ main \in {"run", "collect"}
  /\ results # <<>>
  /\ results' = Tail(results)
  /\ IF IsUnsafe(Head(results))
       THEN waiting' = Append(waiting, Head(results)) /\ UNCHANGED workload
       ELSE workload' = workload \cup {Head(results).id} /\ UNCHANGED waiting
  /\ main' = "collect"
  /\ UNCHANGED <<phase, todo, called, clientVars, queueVars, workerVars, numWorkers>>

\* Mutant: nothing is done on a tick without a new result.
ProcessWorkloadIfAny ==
  /\ main = "collect"
  /\ results = <<>>
  /\ IF workload = {} THEN UNCHANGED <<phase, todo>> ELSE Pool!Submit(workload)
  /\ workload' = {}
  /\ main' = "callbacks"
  /\ UNCHANGED <<results, waiting, called, clientVars, queueVars, workerVars, numWorkers>>

\* The queue was empty: m_callbackThreads->processWorkload().
ProcessWorkload ==
  /\ main \in {"run", "collect"}
  /\ results = <<>>
  /\ IF workload = {} THEN UNCHANGED <<phase, todo>> ELSE Pool!Submit(workload)
  /\ workload' = {}
  /\ main' = "callbacks"
  /\ UNCHANGED <<results, waiting, called, clientVars, queueVars, workerVars, numWorkers>>

\* Meanwhile run the others here, in order, until the time is up.
RunUnsafe ==
  /\ main = "callbacks"
  /\ waiting # <<>>
  /\ called' = Append(called, Head(waiting).id)
  /\ waiting' = Tail(waiting)
  /\ \/ UNCHANGED main
     \/ Timeout /\ main' = "wait"
  /\ UNCHANGED <<results, workload, phase, todo, clientVars, queueVars, workerVars, numWorkers>>

EndUnsafe ==
  /\ main = "callbacks"
  /\ waiting = <<>>
  /\ main' = "wait"
  /\ UNCHANGED <<resultVars, clientVars, queueVars, workerVars, numWorkers>>

\* A thread of the callback pool runs one callback.
RunSafe(t) ==
  /\ Pool!Execute(t)
  /\ called' = Append(called, t)
  /\ UNCHANGED <<results, waiting, workload, clientVars, queueVars, workerVars, numWorkers, main>>

\* job.wait(), if there is a job.
WaitForPool ==
  /\ main = "wait"
  /\ IF phase = "running" THEN Pool!Collect ELSE UNCHANGED <<phase, todo>>
  /\ main' = "run"
  /\ UNCHANGED <<results, waiting, workload, called, clientVars, queueVars, workerVars,
                 numWorkers>>

----------------------------------------------------------------------------
(* StopServer(). *)

\* HaltDelayThread(): Stop() every body, if there is one.
Halt ==
  /\ main = "run"
  /\ running' = [w \in Worker |-> FALSE]
  /\ main' = IF Workers = 0 THEN "cancel" ELSE "join"
  /\ UNCHANGED <<pc, hand, clientVars, queueVars, resultVars, numWorkers>>

\* Every thread is joined.
JoinWorkers ==
  /\ main = "join"
  /\ \A w \in Worker : pc[w] = "exited"
  /\ main' = "drain"
  /\ UNCHANGED <<clientVars, queueVars, workerVars, resultVars, numWorkers>>

\* Mutant: the destructor does not process what is still queued.
DestroyBodyOnly(w) ==
  /\ main = "drain"
  /\ pc[w] = "exited"
  /\ \A v \in 0..(w - 1) : pc[v] = "gone"
  /\ Goto(w, "gone")
  /\ UNCHANGED <<running, hand, clientVars, queueVars, resultVars, numWorkers, main>>

\* m_threadsBodies.clear(): the bodies are destroyed in order, and each
\* destructor processes what is still queued.
DestroyBody(w) ==
  /\ main = "drain"
  /\ pc[w] = "exited"
  /\ \A v \in 0..(w - 1) : pc[v] = "gone"
  /\ Goto(w, "shared")
  /\ UNCHANGED <<running, hand, clientVars, queueVars, resultVars, numWorkers, main>>

EndHalt ==
  /\ main = "drain"
  /\ \A w \in Worker : pc[w] = "gone"
  /\ numWorkers' = 0
  /\ main' = "cancel"
  /\ UNCHANGED <<clientVars, queueVars, workerVars, resultVars>>

\* CancelAll(): each callback left in the result queue runs without a result.
CancelNext ==
  /\ main = "cancel"
  /\ results # <<>>
  /\ called' = Append(called, Head(results).id)
  /\ results' = Tail(results)
  /\ UNCHANGED <<waiting, workload, phase, todo, clientVars, queueVars, workerVars, numWorkers, main>>

\* The result queue and the connections are deleted.
StopServer ==
  /\ main = "cancel"
  /\ results = <<>>
  /\ main' = "stopped"
  /\ UNCHANGED <<clientVars, queueVars, workerVars, resultVars, numWorkers>>

Stopped == main = "stopped" /\ UNCHANGED vars

----------------------------------------------------------------------------

ProducerStep(p) ==
  \/ Execute(p) \/ CommitTransaction(p) \/ RollbackTransaction(p) \/ AsyncQuery(p)
  \/ \E s \in Serial \cup {0} : BeginTransaction(p, s) \/ DelayQueryHolder(p, s)

WorkerStep(w) ==
  Loop(w) \/ NextShared(w) \/ NextSerial(w) \/ ExecuteOperation(w) \/ Finish(w)

UpdateStep == CollectResult \/ ProcessWorkload \/ RunUnsafe \/ EndUnsafe \/ WaitForPool

StopStep ==
  \/ JoinWorkers \/ EndHalt \/ CancelNext \/ StopServer
  \/ \E w \in Worker : DestroyBody(w)

Next ==
  \/ AllowAsyncTransactions \/ UpdateStep \/ Halt \/ StopStep \/ Stopped
  \/ \E p \in Producer : ProducerStep(p)
  \/ \E w \in Worker : WorkerStep(w)
  \/ \E t \in Id : RunSafe(t)

Spec == Init /\ [][Next]_vars

\* Threads are scheduled; the world thread ticks until it stops the server,
\* and finishes what StopServer() begins.
Fairness ==
  /\ \A w \in Worker : WF_vars(WorkerStep(w))
  /\ WF_vars(\E t \in Id : RunSafe(t))
  /\ WF_vars(UpdateStep)
  /\ WF_vars(StopStep)

FairSpec == Spec /\ Fairness
----------------------------------------------------------------------------
(* Properties. *)

\* Every variable stays in its range.
TypeOK ==
  /\ allowAsync \in BOOLEAN
  /\ numWorkers \in {0, Workers}
  /\ trans \in [Producer -> Serial \cup {0, None}]
  /\ delayQueue \in Seq(Op)
  /\ serialQueue \in [Worker -> Seq(Op)]
  /\ running \in [Worker -> BOOLEAN]
  /\ pc \in [Worker -> {"loop", "shared", "serial", "executeShared", "executeSerial",
                        "doneShared", "doneSerial", "exited", "gone"}]
  /\ hand \in [Worker -> {<<>>} \cup {<<op>> : op \in Op}]
  /\ results \in Seq(Op)
  /\ waiting \in Seq(Op)
  /\ workload \in SUBSET Id
  /\ phase \in {"idle", "running"}
  /\ todo \in SUBSET Id
  /\ main \in {"run", "collect", "callbacks", "wait", "join", "drain", "cancel", "stopped"}
  /\ next \in 1..(MaxOp + 1)
  /\ asked \in SUBSET Id
  /\ called \in Seq(Id)

InHand == {w \in Worker : pc[w] \in {"executeShared", "executeSerial"}}

\* The operations queued and not executed yet.
Pending ==
  ToSet(delayQueue) \cup (UNION {ToSet(serialQueue[w]) : w \in Worker})
                   \cup {Current(w) : w \in InHand}

Executor == INSTANCE SerialExecutor WITH pending <- Pending

\* Operations with one serial id reach the database one after the other, in the
\* order they were queued, whichever thread queued them and through the
\* shutdown: a character's login reads what its last save wrote.
ImplementsExecutor == Executor!Spec

Ids(queue) == {op.id : op \in ToSet(queue)}

\* No query is forgotten: each is still to be executed, or its callback is in
\* one of the queues or with the pool, or it ran.  No callback runs twice, and
\* none runs twice in the future either: a callback that is queued for the
\* world thread is neither with the pool nor done.  The code deletes each
\* callback where it runs it.
CallbackOnce ==
  /\ TypeOK
  /\ asked \subseteq {op.id : op \in Pending} \cup Ids(results) \cup Ids(waiting)
                    \cup workload \cup todo \cup ToSet(called)
  /\ IsInjective(called)
  /\ ToSet(called) \cap (Ids(results) \cup Ids(waiting) \cup workload \cup todo) = {}
  /\ Ids(waiting) \cap (Ids(results) \cup workload \cup todo) = {}
  /\ Ids(results) \cap (workload \cup todo) = {}
  /\ workload \cap todo = {}

\* Callbacks that are not thread safe run in the order their results arrived,
\* and two of one serial id in the order the queries were queued.
CallbackOrder ==
  \A i, j \in 1..Len(waiting) :
    i < j /\ waiting[i].serial = waiting[j].serial /\ waiting[i].serial # 0 =>
      waiting[i].id < waiting[j].id

\* HaltDelayThread() leaves no operation behind.
HaltDrains == [][main = "drain" /\ main' = "cancel" => Pending = {}]_vars

\* Whatever is queued before the workers are gone is executed.
EveryOperationRuns ==
  \A i \in Id :
    (main \notin {"cancel", "stopped"} /\ \E op \in Pending : op.id = i)
      ~> (\A op \in Pending : op.id # i)

\* While the server runs, every query gets its callback.
EveryCallbackRuns ==
  \A i \in Id : i \in asked ~> i \in ToSet(called) \/ main \in {"cancel", "stopped"}
=============================================================================
