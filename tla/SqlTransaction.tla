--------------------------- MODULE SqlTransaction ---------------------------
(***************************************************************************)
(* SqlTransaction::Execute on one MySQLConnection: START TRANSACTION, each *)
(* statement in turn, COMMIT, or ROLLBACK after the first statement that   *)
(* fails.  The connection's recursive mutex is held throughout, so nothing *)
(* else uses the connection meanwhile; the database server, however, may   *)
(* end the session at any moment, and may stay away for a while.           *)
(*                                                                         *)
(* Statement i of transaction t is the pair <<t, i>>.  The server is       *)
(* external: it keeps the writes of an open transaction aside, forgets     *)
(* them when the session ends, and writes at once (autocommit) when no     *)
(* transaction is open.                                                    *)
(***************************************************************************)
EXTENDS Integers

CONSTANTS
  Length,          \* statements in a transaction, m_queue.size()
  Prepared,        \* those of them that are prepared (SqlPreparedRequest)
  MaxTransaction,  \* bound: transactions in a behaviour
  MaxLoss,         \* bound: sessions the server ends
  Rejections       \* ways a statement may fail while the session lives:
                   \* "skipped" (duplicate key), "deadlock" (the server has
                   \* rolled the transaction back)

ASSUME TransactionAssumption ==
  /\ Length \in Nat \ {0}
  /\ Prepared \subseteq 1..Length
  /\ MaxTransaction \in Nat
  /\ MaxLoss \in Nat
  /\ Rejections \subseteq {"skipped", "deadlock"}

Transaction == 1..MaxTransaction
Statement == Transaction \X (1..Length)

VARIABLES
  handle,    \* mMysql: "open", "stale" (the server ended its session), "null"
  serverUp,  \* server: it accepts connections
  open,      \* server: a transaction is open in the session
  aside,     \* server: the writes of the open transaction
  durable,   \* server: how many times each statement was written for good
  losses,    \* how many sessions the server has ended
  tx,        \* the transaction that is, or was last, executed
  step,      \* i in SqlTransaction::Execute
  pc,        \* where it stands; "crashed" is a process that used a null handle
  result,    \* what each transaction's Execute returned
  disturbed  \* history: transactions that met a session that had ended

serverVars == <<serverUp, open, aside, durable>>
vars == <<handle, serverVars, losses, tx, step, pc, result, disturbed>>

Init ==
  /\ handle = "open"
  /\ serverUp = TRUE
  /\ open = FALSE
  /\ aside = {}
  /\ durable = [s \in Statement |-> 0]
  /\ losses = 0
  /\ tx = 0
  /\ step = 0
  /\ pc = "idle"
  /\ result = [t \in Transaction |-> "none"]
  /\ disturbed = {}

----------------------------------------------------------------------------
(* The server. *)

Running == pc \in {"execute", "commit", "rollback"}

Disturb == disturbed' = IF Running THEN disturbed \cup {tx} ELSE disturbed

\* The server ends the session, perhaps because it goes away itself.
LoseSession ==
  /\ handle = "open"
  /\ losses < MaxLoss
  /\ losses' = losses + 1
  /\ handle' = "stale"
  /\ serverUp' \in BOOLEAN
  /\ open' = FALSE
  /\ aside' = {}
  /\ Disturb
  /\ UNCHANGED <<durable, tx, step, pc, result>>

ServerReturns ==
  /\ ~serverUp
  /\ serverUp' = TRUE
  /\ UNCHANGED <<handle, open, aside, durable, losses, tx, step, pc, result, disturbed>>

WriteAll(S) == durable' = [s \in Statement |-> durable[s] + (IF s \in S THEN 1 ELSE 0)]

----------------------------------------------------------------------------
(* The connection. *)

\* mysql_close() and Reconnect(): a new session, in autocommit mode, or no
\* handle at all.
Reconnect == handle' = IF serverUp THEN "open" ELSE "null"

\* Mutant: a connection without a handle is not opened again.
QueryWithoutReconnect ==
  /\ pc = "idle"
  /\ IF handle = "stale" THEN Reconnect ELSE UNCHANGED handle
  /\ UNCHANGED <<serverVars, losses, tx, step, pc, result, disturbed>>

\* _Query() between two transactions, the worker's ping at the least: it opens
\* the connection again, whether the session ended or there is no handle.
Query ==
  /\ pc = "idle"
  /\ IF handle = "open" THEN UNCHANGED handle ELSE Reconnect
  /\ UNCHANGED <<serverVars, losses, tx, step, pc, result, disturbed>>

\* START TRANSACTION, whose result nobody looks at.  The server commits what
\* an earlier transaction left open.
BeginTransaction ==
  /\ pc = "idle"
  /\ tx < MaxTransaction
  /\ tx' = tx + 1
  /\ step' = 1
  /\ disturbed' = IF handle = "open" THEN disturbed ELSE disturbed \cup {tx'}
  /\ IF handle = "open"
       THEN open' = TRUE /\ WriteAll(aside) /\ aside' = {}
       ELSE UNCHANGED <<open, durable, aside>>
  /\ pc' = IF handle = "null" THEN "crashed" ELSE "execute"
  /\ UNCHANGED <<handle, serverUp, losses, result>>

\* The statement reaches the server and is accepted.
Write ==
  IF open THEN aside' = aside \cup {<<tx, step>>} /\ UNCHANGED durable
          ELSE WriteAll({<<tx, step>>}) /\ UNCHANGED aside

\* Mutant: off by one, the loop runs past the last statement.
ExecuteStatementPastEnd ==
  /\ pc = "execute"
  /\ handle = "open"
  /\ Write
  /\ step' = step + 1
  /\ pc' = IF step > Length THEN "commit" ELSE "execute"
  /\ UNCHANGED <<handle, serverUp, open, losses, tx, result, disturbed>>

\* The statement is executed; after the last one comes COMMIT.
ExecuteStatement ==
  /\ pc = "execute"
  /\ handle = "open"
  /\ Write
  /\ step' = step + 1
  /\ pc' = IF step = Length THEN "commit" ELSE "execute"
  /\ UNCHANGED <<handle, serverUp, open, losses, tx, result, disturbed>>

\* Mutant: a statement that fails does not end the transaction.
RejectStatementAndGoOn ==
  /\ pc = "execute"
  /\ handle = "open"
  /\ \E r \in Rejections :
       /\ open' = (open /\ r # "deadlock")
       /\ aside' = IF r = "deadlock" THEN {} ELSE aside
  /\ step' = step + 1
  /\ pc' = IF step = Length THEN "commit" ELSE "execute"
  /\ UNCHANGED <<handle, serverUp, durable, losses, tx, result, disturbed>>

\* The server refuses it: HandleMySQLError() says not to try again.
RejectStatement ==
  /\ pc = "execute"
  /\ handle = "open"
  /\ \E r \in Rejections :
       /\ open' = (open /\ r # "deadlock")
       /\ aside' = IF r = "deadlock" THEN {} ELSE aside
  /\ pc' = "rollback"
  /\ UNCHANGED <<handle, serverUp, durable, losses, tx, step, result, disturbed>>

\* The session ends after the server took the statement and before its answer:
\* the next attempt finds a stale handle.
LoseStatementReply ==
  /\ pc = "execute"
  /\ handle = "open"
  /\ losses < MaxLoss
  /\ losses' = losses + 1
  /\ handle' = "stale"
  /\ IF open THEN UNCHANGED durable ELSE WriteAll({<<tx, step>>})
  /\ open' = FALSE
  /\ aside' = {}
  /\ Disturb
  /\ serverUp' \in BOOLEAN
  /\ UNCHANGED <<tx, step, pc, result>>

\* The session has ended.  A prepared statement just fails; for any other one
\* HandleMySQLError() reconnects and Execute() tries again, if it could.
RetryStatement ==
  /\ pc = "execute"
  /\ handle = "stale"
  /\ IF step \in Prepared THEN UNCHANGED handle ELSE Reconnect
  /\ pc' = IF handle' = "open" THEN "execute" ELSE "rollback"
  /\ UNCHANGED <<serverVars, losses, tx, step, result, disturbed>>

Return(r) == result' = [result EXCEPT ![tx] = r] /\ pc' = "idle"

CommitTransaction ==
  /\ pc = "commit"
  /\ IF handle = "open"
       THEN Return("success") /\ WriteAll(aside) /\ aside' = {} /\ open' = FALSE
       ELSE Return("failure") /\ UNCHANGED <<durable, aside, open>>
  /\ UNCHANGED <<handle, serverUp, losses, tx, step, disturbed>>

\* The server commits, but its answer is lost: COMMIT is not tried again.
LoseCommitReply ==
  /\ pc = "commit"
  /\ handle = "open"
  /\ losses < MaxLoss
  /\ losses' = losses + 1
  /\ handle' = "stale"
  /\ Return("failure")
  /\ WriteAll(aside)
  /\ aside' = {}
  /\ open' = FALSE
  /\ Disturb
  /\ serverUp' \in BOOLEAN
  /\ UNCHANGED <<tx, step>>

\* Mutant: the transaction is abandoned without a ROLLBACK.
RollbackForgotten ==
  /\ pc = "rollback"
  /\ Return("failure")
  /\ UNCHANGED <<handle, serverVars, losses, tx, step, disturbed>>

RollbackTransaction ==
  /\ pc = "rollback"
  /\ IF handle = "null"
       THEN pc' = "crashed" /\ UNCHANGED <<result, aside, open>>
       ELSE Return("failure") /\ aside' = {} /\ open' = FALSE
  /\ UNCHANGED <<handle, serverUp, durable, losses, tx, step, disturbed>>

Crashed == pc = "crashed" /\ UNCHANGED vars

----------------------------------------------------------------------------

ServerStep == LoseSession \/ ServerReturns

ConnectionStep ==
  \/ BeginTransaction \/ ExecuteStatement \/ RejectStatement
  \/ LoseStatementReply \/ RetryStatement
  \/ CommitTransaction \/ LoseCommitReply \/ RollbackTransaction

Next == ServerStep \/ Query \/ ConnectionStep \/ Crashed

Spec == Init /\ [][Next]_vars

\* The worker goes on, and it pings every MaxPingTime; a server that went away
\* is brought back.
Fairness == WF_vars(ConnectionStep) /\ SF_vars(Query) /\ WF_vars(ServerReturns)

FairSpec == Spec /\ Fairness

----------------------------------------------------------------------------
(* Properties. *)

\* Every variable stays in its range.
TypeOK ==
  /\ handle \in {"open", "stale", "null"}
  /\ serverUp \in BOOLEAN
  /\ open \in BOOLEAN
  /\ aside \in SUBSET Statement
  /\ durable \in [Statement -> Nat]
  /\ losses \in 0..MaxLoss
  /\ tx \in 0..MaxTransaction
  /\ step \in 0..(Length + 1)
  /\ pc \in {"idle", "execute", "commit", "rollback", "crashed"}
  /\ result \in [Transaction -> {"none", "success", "failure"}]
  /\ disturbed \in SUBSET Transaction

All(t, n) == \A i \in 1..Length : durable[<<t, i>>] = n
Over(t) == t < tx \/ (t = tx /\ ~Running)

\* A transaction whose session lived as long as it did is all or nothing, and
\* its callback is told which: Execute returned true and every statement was
\* written once, or it returned false and none is, then or ever after.
AtomicIfUndisturbed ==
  \A t \in Transaction \ disturbed :
    /\ result[t] = "success" => All(t, 1)
    /\ result[t] # "success" => All(t, 0)

\* Between two transactions the session is in autocommit mode with nothing set
\* aside: a single statement queued next is not swallowed by a transaction that
\* was never ended, nor are two transactions mixed.
EndsItsTransaction == ~Running => ~open /\ aside = {}

\* Whatever happened to the session, a transaction is all or nothing:
\* "Setting it to on makes atomic updates work" (DatabaseMysql.cpp:121).
Atomic ==
  \A t \in Transaction :
    Over(t) => All(t, 0) \/ \A i \in 1..Length : durable[<<t, i>>] > 0

\* A connection that was lost is opened again, unless the process ends first.
Recovers == handle # "open" ~> handle = "open" \/ pc = "crashed"
----------------------------------------------------------------------------
(* The inductive invariant behind AtomicIfUndisturbed. *)

\* Writes are set aside only in an open transaction of a living session, and
\* they are the current transaction's.
SessionInv ==
  /\ aside # {} => open
  /\ open => handle = "open" /\ Running
  /\ aside \subseteq {<<tx, i>> : i \in 1..Length}

\* The current transaction, as long as it has its session.
ProgressInv ==
  /\ Running => tx \in Transaction /\ result[tx] = "none"
  /\ pc = "execute" => step \in 1..Length
  /\ pc = "commit" => step = Length + 1
  /\ Running /\ tx \notin disturbed =>
       /\ handle = "open"
       /\ All(tx, 0)
       /\ pc # "rollback" => open /\ aside = {<<tx, i>> : i \in 1..(step - 1)}

\* Later transactions have not begun.
FutureInv ==
  \A t \in Transaction : t > tx => All(t, 0) /\ result[t] = "none" /\ t \notin disturbed

TransactionInv ==
  TypeOK /\ SessionInv /\ ProgressInv /\ FutureInv /\ AtomicIfUndisturbed
=============================================================================
