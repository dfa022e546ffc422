------------------------ MODULE SqlTransactionProofs ------------------------
(***************************************************************************)
(* A transaction whose session lives as long as it does is all or nothing, *)
(* for every number of statements, transactions and lost sessions.         *)
(***************************************************************************)
EXTENDS SqlTransaction, TLAPS

\* Writing statements for good only counts them up.
LEMMA WriteAllKeepsType ==
  ASSUME durable \in [Statement -> Nat], NEW S, WriteAll(S)
  PROVE  durable' \in [Statement -> Nat]
<1>1. \A s \in Statement : durable[s] + (IF s \in S THEN 1 ELSE 0) \in Nat
  OBVIOUS
<1> QED
  BY <1>1 DEF WriteAll

\* Each statement of a transaction is written once more if it is among those
\* written, and is otherwise left alone.
LEMMA WriteAllCounts ==
  ASSUME NEW S, WriteAll(S), NEW t \in Transaction, NEW i \in 1..Length
  PROVE  durable'[<<t, i>>] = durable[<<t, i>>] + (IF <<t, i>> \in S THEN 1 ELSE 0)
BY DEF WriteAll, Statement

\* Writing statements of the current transaction leaves the others alone.
LEMMA WriteAllKeepsOthers ==
  ASSUME durable \in [Statement -> Nat], NEW S, WriteAll(S),
         S \subseteq {<<tx, i>> : i \in 1..Length},
         NEW t \in Transaction, t # tx, NEW i \in 1..Length
  PROVE  durable'[<<t, i>>] = durable[<<t, i>>]
<1>1. <<t, i>> \notin S
  OBVIOUS
<1>2. durable[<<t, i>>] \in Nat
  BY DEF Statement
<1> QED
  BY <1>1, <1>2, WriteAllCounts

\* A running transaction is marked as disturbed.
LEMMA DisturbKeepsType ==
  ASSUME TypeOK, ProgressInv, Disturb
  PROVE  disturbed' \subseteq Transaction
BY DEF TypeOK, ProgressInv, Disturb

\* The end of a session keeps the invariant: what was set aside is gone, and the
\* running transaction is disturbed.
LEMMA LoseSessionKeeps ==
  ASSUME TransactionInv, LoseSession
  PROVE  TransactionInv'
<1> USE TransactionAssumption
<1>1. TypeOK'
  <2>1. disturbed' \subseteq Transaction
    BY DisturbKeepsType DEF TransactionInv, LoseSession
  <2>2. serverUp' \in BOOLEAN /\ losses' \in 0..MaxLoss
    BY DEF TransactionInv, TypeOK, LoseSession
  <2> QED
    BY <2>1, <2>2 DEF TransactionInv, TypeOK, LoseSession
<1>2. SessionInv'
  BY DEF TransactionInv, TypeOK, SessionInv, ProgressInv, Running,
       LoseSession, Disturb
<1>3. ProgressInv'
  BY DEF TransactionInv, TypeOK, SessionInv, ProgressInv, FutureInv,
       Transaction, Running, All, LoseSession, Disturb
<1>4. FutureInv'
  BY DEF TransactionInv, TypeOK, ProgressInv, FutureInv, Transaction, Running,
       All, LoseSession, Disturb
<1>5. AtomicIfUndisturbed'
  BY DEF TransactionInv, TypeOK, ProgressInv, FutureInv, AtomicIfUndisturbed,
       Transaction, Running, All, LoseSession, Disturb
<1> QED
  BY <1>1, <1>2, <1>3, <1>4, <1>5 DEF TransactionInv

\* A server that returns keeps the invariant.
LEMMA ServerReturnsKeeps ==
  ASSUME TransactionInv, ServerReturns
  PROVE  TransactionInv'
<1> USE TransactionAssumption
<1>1. TypeOK'
  BY DEF TransactionInv, TypeOK, ProgressInv, Transaction, Running, ServerReturns
<1>2. SessionInv'
  BY DEF TransactionInv, TypeOK, SessionInv, ProgressInv, Running, ServerReturns
<1>3. ProgressInv'
  BY DEF TransactionInv, TypeOK, SessionInv, ProgressInv, FutureInv,
       Transaction, Running, All, ServerReturns
<1>4. FutureInv'
  BY DEF TransactionInv, TypeOK, ProgressInv, FutureInv, Transaction, Running,
       All, ServerReturns
<1>5. AtomicIfUndisturbed'
  BY DEF TransactionInv, TypeOK, ProgressInv, FutureInv, AtomicIfUndisturbed,
       Transaction, Running, All, ServerReturns
<1> QED
  BY <1>1, <1>2, <1>3, <1>4, <1>5 DEF TransactionInv

\* A query between two transactions keeps the invariant: no write is set aside.
LEMMA QueryKeeps ==
  ASSUME TransactionInv, Query
  PROVE  TransactionInv'
<1> USE TransactionAssumption
<1>1. TypeOK'
  BY DEF TransactionInv, TypeOK, ProgressInv, Transaction, Running, Query,
       Reconnect, serverVars
<1>2. SessionInv'
  BY DEF TransactionInv, TypeOK, SessionInv, ProgressInv, Running, Query,
       Reconnect, serverVars
<1>3. ProgressInv'
  BY DEF TransactionInv, TypeOK, SessionInv, ProgressInv, FutureInv,
       Transaction, Running, All, Query, Reconnect, serverVars
<1>4. FutureInv'
  BY DEF TransactionInv, TypeOK, ProgressInv, FutureInv, Transaction, Running,
       All, Query, Reconnect, serverVars
<1>5. AtomicIfUndisturbed'
  BY DEF TransactionInv, TypeOK, ProgressInv, FutureInv, AtomicIfUndisturbed,
       Transaction, Running, All, Query, Reconnect, serverVars
<1> QED
  BY <1>1, <1>2, <1>3, <1>4, <1>5 DEF TransactionInv

\* START TRANSACTION keeps the invariant: the last transaction left nothing to be
\* committed with it.
LEMMA BeginTransactionKeeps ==
  ASSUME TransactionInv, BeginTransaction
  PROVE  TransactionInv'
<1> USE TransactionAssumption
<1>a. aside = {}
  BY DEF TransactionInv, SessionInv, Running, BeginTransaction
<1>b. durable' = durable
  <2>1. durable \in [Statement -> Nat]
    BY DEF TransactionInv, TypeOK
  <2>2. CASE WriteAll(aside)
    <3>1. \A s \in Statement : durable[s] + (IF s \in aside THEN 1 ELSE 0) = durable[s]
      BY <1>a, <2>1
    <3> QED
      BY <2>1, <2>2, <3>1 DEF WriteAll
  <2> QED
    BY <2>2 DEF BeginTransaction
<1>c. tx' \in Transaction /\ tx' = tx + 1 /\ tx' \notin disturbed
  BY DEF TransactionInv, TypeOK, FutureInv, Transaction, BeginTransaction
<1>1. TypeOK'
  <2>1. disturbed' \subseteq Transaction
    BY <1>c DEF TransactionInv, TypeOK, BeginTransaction
  <2>2. step' \in 0..(Length + 1) /\ tx' \in 0..MaxTransaction
    BY <1>c DEF Transaction, BeginTransaction
  <2>3. aside' = {} /\ open' \in BOOLEAN
    BY <1>a DEF TransactionInv, TypeOK, BeginTransaction
  <2> QED
    BY <1>b, <2>1, <2>2, <2>3 DEF TransactionInv, TypeOK, BeginTransaction
<1>2. SessionInv'
  BY <1>a, <1>c DEF TransactionInv, TypeOK, SessionInv, Running, BeginTransaction
<1>3. ProgressInv'
  <2>1. (All(tx, 0) /\ result[tx] = "none")'
    BY <1>b, <1>c DEF TransactionInv, TypeOK, FutureInv, All, BeginTransaction
  <2>2. step' = 1 /\ pc' \in {"execute", "crashed"}
    BY DEF BeginTransaction
  <2>3. tx' \notin disturbed' /\ pc' = "execute" => handle' = "open" /\ open' /\ aside' = {}
    BY <1>a DEF BeginTransaction
  <2>4. {<<tx, i>> : i \in 1..(step - 1)}' = {}
    BY <2>2
  <2> QED
    BY <1>c, <2>1, <2>2, <2>3, <2>4 DEF ProgressInv, Running
<1>4. FutureInv'
  BY <1>b, <1>c DEF TransactionInv, TypeOK, FutureInv, Transaction, All,
       BeginTransaction
<1>5. AtomicIfUndisturbed'
  BY <1>b, <1>c DEF TransactionInv, FutureInv, AtomicIfUndisturbed,
       Transaction, All, BeginTransaction
<1> QED
  BY <1>1, <1>2, <1>3, <1>4, <1>5 DEF TransactionInv

\* A statement that is accepted keeps the invariant: with its session it is set
\* aside, without it the transaction is disturbed anyway.
LEMMA ExecuteStatementKeeps ==
  ASSUME TransactionInv, ExecuteStatement
  PROVE  TransactionInv'
<1> USE TransactionAssumption
<1>a. tx \in Transaction /\ step \in 1..Length /\ <<tx, step>> \in Statement
  BY DEF TransactionInv, ProgressInv, Running, Statement, ExecuteStatement
<1>b. durable \in [Statement -> Nat]
  BY DEF TransactionInv, TypeOK
<1>c. {<<tx, step>>} \subseteq {<<tx, i>> : i \in 1..Length}
  BY <1>a
<1>d. durable' \in [Statement -> Nat]
  BY <1>b, WriteAllKeepsType DEF ExecuteStatement, Write
<1>e. \A t \in Transaction : t # tx => \A i \in 1..Length : durable'[<<t, i>>] = durable[<<t, i>>]
  BY <1>b, <1>c, WriteAllKeepsOthers DEF ExecuteStatement, Write
<1>f. tx \notin disturbed => open /\ durable' = durable
  BY DEF TransactionInv, ProgressInv, Running, ExecuteStatement, Write
<1>1. TypeOK'
  <2>1. aside' \subseteq Statement
    BY <1>a DEF TransactionInv, TypeOK, ExecuteStatement, Write
  <2> QED
    BY <1>a, <1>d, <2>1 DEF TransactionInv, TypeOK, ExecuteStatement
<1>2. SessionInv'
  BY <1>a DEF TransactionInv, TypeOK, SessionInv, Running, ExecuteStatement, Write
<1>3. ProgressInv'
  <2>1. ASSUME tx \notin disturbed
        PROVE  handle = "open" /\ All(tx, 0)' /\ open /\ aside' = {<<tx, i>> : i \in 1..step}
    <3>1. handle = "open" /\ All(tx, 0) /\ aside = {<<tx, i>> : i \in 1..(step - 1)}
      BY <2>1 DEF TransactionInv, ProgressInv, Running, ExecuteStatement
    <3>2. 1..step = (1..(step - 1)) \cup {step}
      BY <1>a
    <3>3. aside' = aside \cup {<<tx, step>>}
      BY <2>1, <1>f DEF ExecuteStatement, Write
    <3> QED
      BY <2>1, <1>f, <3>1, <3>2, <3>3 DEF All, ExecuteStatement
  <2>2. step' - 1 = step
    BY <1>a DEF ExecuteStatement
  <2> QED
    BY <1>a, <2>1, <2>2 DEF TransactionInv, ProgressInv, Running, ExecuteStatement
<1>4. FutureInv'
  BY <1>a, <1>e DEF TransactionInv, FutureInv, Transaction, All, ExecuteStatement
<1>5. AtomicIfUndisturbed'
  BY <1>a, <1>e, <1>f DEF TransactionInv, ProgressInv, AtomicIfUndisturbed,
       Running, All,
       ExecuteStatement
<1> QED
  BY <1>1, <1>2, <1>3, <1>4, <1>5 DEF TransactionInv

\* A statement that is refused keeps the invariant: ROLLBACK is next.
LEMMA RejectStatementKeeps ==
  ASSUME TransactionInv, RejectStatement
  PROVE  TransactionInv'
<1> USE TransactionAssumption
<1>1. TypeOK'
  BY DEF TransactionInv, TypeOK, ProgressInv, Transaction, Running, RejectStatement
<1>2. SessionInv'
  BY DEF TransactionInv, TypeOK, SessionInv, ProgressInv, Running, RejectStatement
<1>3. ProgressInv'
  BY DEF TransactionInv, TypeOK, SessionInv, ProgressInv, FutureInv,
       Transaction, Running, All, RejectStatement
<1>4. FutureInv'
  BY DEF TransactionInv, TypeOK, ProgressInv, FutureInv, Transaction, Running,
       All, RejectStatement
<1>5. AtomicIfUndisturbed'
  BY DEF TransactionInv, TypeOK, ProgressInv, FutureInv, AtomicIfUndisturbed,
       Transaction, Running, All, RejectStatement
<1> QED
  BY <1>1, <1>2, <1>3, <1>4, <1>5 DEF TransactionInv

\* A statement whose answer is lost keeps the invariant: the transaction is
\* disturbed.
LEMMA LoseStatementReplyKeeps ==
  ASSUME TransactionInv, LoseStatementReply
  PROVE  TransactionInv'
<1> USE TransactionAssumption
<1>a. tx \in Transaction /\ step \in 1..Length /\ <<tx, step>> \in Statement
  BY DEF TransactionInv, ProgressInv, Running, Statement, LoseStatementReply
<1>b. durable \in [Statement -> Nat]
  BY DEF TransactionInv, TypeOK
<1>c. {<<tx, step>>} \subseteq {<<tx, i>> : i \in 1..Length}
  BY <1>a
<1>d. durable' \in [Statement -> Nat]
  BY <1>b, WriteAllKeepsType DEF LoseStatementReply
<1>e. \A t \in Transaction : t # tx => \A i \in 1..Length : durable'[<<t, i>>] = durable[<<t, i>>]
  BY <1>b, <1>c, WriteAllKeepsOthers DEF LoseStatementReply
<1>f. disturbed' = disturbed \cup {tx}
  BY DEF LoseStatementReply, Disturb, Running
<1>1. TypeOK'
  <2>1. disturbed' \subseteq Transaction
    BY <1>a, <1>f DEF TransactionInv, TypeOK
  <2>2. serverUp' \in BOOLEAN /\ losses' \in 0..MaxLoss
    BY DEF TransactionInv, TypeOK, LoseStatementReply
  <2> QED
    BY <1>d, <2>1, <2>2 DEF TransactionInv, TypeOK, LoseStatementReply
<1>2. SessionInv'
  BY DEF TransactionInv, TypeOK, SessionInv, ProgressInv, Running,
       LoseStatementReply
<1>3. ProgressInv'
  BY <1>a, <1>f DEF TransactionInv, TypeOK, ProgressInv, Running, LoseStatementReply
<1>4. FutureInv'
  BY <1>a, <1>e, <1>f DEF TransactionInv, FutureInv, Transaction, All,
       LoseStatementReply
<1>5. AtomicIfUndisturbed'
  BY <1>e, <1>f DEF TransactionInv, AtomicIfUndisturbed, All, LoseStatementReply
<1> QED
  BY <1>1, <1>2, <1>3, <1>4, <1>5 DEF TransactionInv

\* A new attempt keeps the invariant: the transaction was disturbed before.
LEMMA RetryStatementKeeps ==
  ASSUME TransactionInv, RetryStatement
  PROVE  TransactionInv'
<1> USE TransactionAssumption
<1>1. TypeOK'
  BY DEF TransactionInv, TypeOK, ProgressInv, Transaction, Running,
       RetryStatement, Reconnect, serverVars
<1>2. SessionInv'
  BY DEF TransactionInv, TypeOK, SessionInv, ProgressInv, Running,
       RetryStatement, Reconnect, serverVars
<1>3. ProgressInv'
  BY DEF TransactionInv, TypeOK, SessionInv, ProgressInv, FutureInv,
       Transaction, Running, All, RetryStatement, Reconnect, serverVars
<1>4. FutureInv'
  BY DEF TransactionInv, TypeOK, ProgressInv, FutureInv, Transaction, Running,
       All, RetryStatement, Reconnect, serverVars
<1>5. AtomicIfUndisturbed'
  BY DEF TransactionInv, TypeOK, ProgressInv, FutureInv, AtomicIfUndisturbed,
       Transaction, Running, All, RetryStatement, Reconnect, serverVars
<1> QED
  BY <1>1, <1>2, <1>3, <1>4, <1>5 DEF TransactionInv

\* COMMIT keeps the invariant: in its own session the transaction had set aside
\* every statement, so all of them are written.
LEMMA CommitTransactionKeeps ==
  ASSUME TransactionInv, CommitTransaction
  PROVE  TransactionInv'
<1> USE TransactionAssumption
<1>a. tx \in Transaction /\ result[tx] = "none" /\ step = Length + 1
  BY DEF TransactionInv, ProgressInv, Running, CommitTransaction
<1>b. durable \in [Statement -> Nat] /\ aside \subseteq {<<tx, i>> : i \in 1..Length}
  BY DEF TransactionInv, TypeOK, SessionInv
<1>c. durable' \in [Statement -> Nat]
  BY <1>b, WriteAllKeepsType DEF CommitTransaction
<1>d. \A t \in Transaction : t # tx => \A i \in 1..Length : durable'[<<t, i>>] = durable[<<t, i>>]
  BY <1>b, WriteAllKeepsOthers DEF CommitTransaction
<1>e. \A t \in Transaction : t # tx => result'[t] = result[t]
  BY DEF TransactionInv, TypeOK, Return, CommitTransaction
<1>f. tx \notin disturbed => handle = "open" /\ result'[tx] = "success" /\ All(tx, 1)'
  <2> SUFFICES ASSUME tx \notin disturbed
               PROVE  handle = "open" /\ result'[tx] = "success" /\ All(tx, 1)'
    OBVIOUS
  <2>1. handle = "open" /\ All(tx, 0) /\ aside = {<<tx, i>> : i \in 1..Length}
    BY <1>a DEF TransactionInv, ProgressInv, Running, CommitTransaction
  <2>2. WriteAll(aside) /\ result'[tx] = "success"
    BY <1>a, <2>1 DEF TransactionInv, TypeOK, Return, CommitTransaction
  <2>3. \A i \in 1..Length : durable'[<<tx, i>>] = 1
    BY <1>a, <2>1, <2>2, WriteAllCounts DEF All
  <2> QED
    BY <2>1, <2>2, <2>3 DEF All, CommitTransaction
<1>1. TypeOK'
  <2>1. aside' \subseteq Statement /\ open' \in BOOLEAN
    BY DEF TransactionInv, TypeOK, CommitTransaction
  <2>2. result' \in [Transaction -> {"none", "success", "failure"}] /\ pc' = "idle"
    BY DEF TransactionInv, TypeOK, Return, CommitTransaction
  <2> QED
    BY <1>c, <2>1, <2>2 DEF TransactionInv, TypeOK, CommitTransaction
<1>2. SessionInv'
  BY DEF TransactionInv, TypeOK, SessionInv, Return, CommitTransaction
<1>3. ProgressInv'
  BY DEF ProgressInv, Running, Return, CommitTransaction
<1>4. FutureInv'
  BY <1>a, <1>d, <1>e DEF TransactionInv, FutureInv, Transaction, All,
       CommitTransaction
<1>5. AtomicIfUndisturbed'
  <2>1. ASSUME NEW t \in Transaction, t # tx, t \notin disturbed
        PROVE  (result[t] = "success" => All(t, 1))' /\ (result[t] # "success" => All(t, 0))'
    BY <2>1, <1>d, <1>e DEF TransactionInv, AtomicIfUndisturbed, All
  <2> QED
    BY <1>f, <2>1 DEF AtomicIfUndisturbed, CommitTransaction
<1> QED
  BY <1>1, <1>2, <1>3, <1>4, <1>5 DEF TransactionInv

\* A COMMIT whose answer is lost keeps the invariant: the transaction is
\* disturbed.
LEMMA LoseCommitReplyKeeps ==
  ASSUME TransactionInv, LoseCommitReply
  PROVE  TransactionInv'
<1> USE TransactionAssumption
<1>a. tx \in Transaction /\ result[tx] = "none" /\ step = Length + 1
  BY DEF TransactionInv, ProgressInv, Running, LoseCommitReply
<1>b. durable \in [Statement -> Nat] /\ aside \subseteq {<<tx, i>> : i \in 1..Length}
  BY DEF TransactionInv, TypeOK, SessionInv
<1>c. durable' \in [Statement -> Nat]
  BY <1>b, WriteAllKeepsType DEF LoseCommitReply
<1>d. \A t \in Transaction : t # tx => \A i \in 1..Length : durable'[<<t, i>>] = durable[<<t, i>>]
  BY <1>b, WriteAllKeepsOthers DEF LoseCommitReply
<1>e. \A t \in Transaction : t # tx => result'[t] = result[t]
  BY DEF TransactionInv, TypeOK, Return, LoseCommitReply
<1>f. disturbed' = disturbed \cup {tx}
  BY DEF LoseCommitReply, Disturb, Running
<1>1. TypeOK'
  <2>1. disturbed' \subseteq Transaction
    BY <1>a, <1>f DEF TransactionInv, TypeOK
  <2>2. result' \in [Transaction -> {"none", "success", "failure"}] /\ pc' = "idle"
    BY DEF TransactionInv, TypeOK, Return, LoseCommitReply
  <2>3. serverUp' \in BOOLEAN /\ losses' \in 0..MaxLoss
    BY DEF TransactionInv, TypeOK, LoseCommitReply
  <2> QED
    BY <1>c, <2>1, <2>2, <2>3 DEF TransactionInv, TypeOK, LoseCommitReply
<1>2. SessionInv'
  BY DEF TransactionInv, TypeOK, SessionInv, Return, LoseCommitReply
<1>3. ProgressInv'
  BY DEF ProgressInv, Running, Return, LoseCommitReply
<1>4. FutureInv'
  BY <1>a, <1>d, <1>e, <1>f DEF TransactionInv, FutureInv, Transaction, All,
       LoseCommitReply
<1>5. AtomicIfUndisturbed'
  <2>1. ASSUME NEW t \in Transaction, t # tx, t \notin disturbed
        PROVE  (result[t] = "success" => All(t, 1))' /\ (result[t] # "success" => All(t, 0))'
    BY <2>1, <1>d, <1>e DEF TransactionInv, AtomicIfUndisturbed, All
  <2> QED
    BY <1>f, <2>1 DEF AtomicIfUndisturbed, LoseCommitReply
<1> QED
  BY <1>1, <1>2, <1>3, <1>4, <1>5 DEF TransactionInv

\* ROLLBACK keeps the invariant: nothing of the transaction was written.
LEMMA RollbackTransactionKeeps ==
  ASSUME TransactionInv, RollbackTransaction
  PROVE  TransactionInv'
<1> USE TransactionAssumption
<1>1. TypeOK'
  BY DEF TransactionInv, TypeOK, ProgressInv, Transaction, Running,
       RollbackTransaction, Return
<1>2. SessionInv'
  BY DEF TransactionInv, TypeOK, SessionInv, ProgressInv, Running,
       RollbackTransaction, Return
<1>3. ProgressInv'
  BY DEF TransactionInv, TypeOK, SessionInv, ProgressInv, FutureInv,
       Transaction, Running, All, RollbackTransaction, Return
<1>4. FutureInv'
  BY DEF TransactionInv, TypeOK, ProgressInv, FutureInv, Transaction, Running,
       All, RollbackTransaction, Return
<1>5. AtomicIfUndisturbed'
  BY DEF TransactionInv, TypeOK, ProgressInv, FutureInv, AtomicIfUndisturbed,
       Transaction, Running, All, RollbackTransaction, Return
<1> QED
  BY <1>1, <1>2, <1>3, <1>4, <1>5 DEF TransactionInv

\* The invariant holds on a connection that was just opened.
LEMMA TransactionInvInit == Init => TransactionInv
<1> SUFFICES ASSUME Init PROVE TransactionInv
  OBVIOUS
<1> USE TransactionAssumption
<1>1. TypeOK
  <2>1. durable \in [Statement -> Nat]
    BY DEF Init
  <2>2. result \in [Transaction -> {"none", "success", "failure"}]
    BY DEF Init
  <2>3. losses \in 0..MaxLoss /\ tx \in 0..MaxTransaction /\ step \in 0..(Length + 1)
    BY DEF Init
  <2> QED
    BY <2>1, <2>2, <2>3 DEF Init, TypeOK
<1>2. SessionInv /\ ProgressInv
  BY DEF Init, SessionInv, ProgressInv, Running
<1>3. \A t \in Transaction : All(t, 0) /\ result[t] = "none"
  BY DEF Init, All, Statement
<1>4. FutureInv /\ AtomicIfUndisturbed
  BY <1>3 DEF Init, FutureInv, AtomicIfUndisturbed
<1> QED
  BY <1>1, <1>2, <1>4 DEF TransactionInv

\* A step that changes nothing keeps the invariant.
LEMMA TransactionInvStutter ==
  ASSUME TransactionInv, UNCHANGED vars
  PROVE  TransactionInv'
<1>1. TypeOK' /\ SessionInv'
  BY DEF TransactionInv, TypeOK, SessionInv, Running, vars, serverVars
<1>2. ProgressInv'
  BY DEF TransactionInv, ProgressInv, Running, All, vars, serverVars
<1>3. FutureInv' /\ AtomicIfUndisturbed'
  BY DEF TransactionInv, FutureInv, AtomicIfUndisturbed, All, vars, serverVars
<1> QED
  BY <1>1, <1>2, <1>3 DEF TransactionInv

\* Every step of the server and of the connection keeps the invariant.
LEMMA TransactionInvStep == TransactionInv /\ [Next]_vars => TransactionInv'
<1> SUFFICES ASSUME TransactionInv, [Next]_vars PROVE TransactionInv'
  OBVIOUS
<1>1. CASE ServerStep
  BY <1>1, LoseSessionKeeps, ServerReturnsKeeps DEF ServerStep
<1>2. CASE Query
  BY <1>2, QueryKeeps
<1>3. CASE ConnectionStep
  BY <1>3, BeginTransactionKeeps, ExecuteStatementKeeps, RejectStatementKeeps,
     LoseStatementReplyKeeps, RetryStatementKeeps, CommitTransactionKeeps,
     LoseCommitReplyKeeps, RollbackTransactionKeeps DEF ConnectionStep
<1>4. CASE UNCHANGED vars
  BY <1>4, TransactionInvStutter
<1> QED
  BY <1>1, <1>2, <1>3, <1>4 DEF Next, Crashed

\* The inductive invariant of a connection.
THEOREM TransactionInvHolds == Spec => []TransactionInv
<1> QED
  BY TransactionInvInit, TransactionInvStep, PTL DEF Spec

\* Every variable of the connection stays in its range; in particular the
\* statement loop never leaves m_queue.
THEOREM TypeCorrect == Spec => []TypeOK
<1>1. TransactionInv => TypeOK
  BY DEF TransactionInv
<1> QED
  BY <1>1, TransactionInvHolds, PTL

\* A transaction whose session lived as long as it did is all or nothing, and
\* SqlTransaction::Execute returns which.
THEOREM AtomicIfUndisturbedHolds == Spec => []AtomicIfUndisturbed
<1>1. TransactionInv => AtomicIfUndisturbed
  BY DEF TransactionInv
<1> QED
  BY <1>1, TransactionInvHolds, PTL

\* Between two transactions no transaction is open and no write is set aside.
THEOREM EndsItsTransactionHolds == Spec => []EndsItsTransaction
<1>1. TransactionInv => EndsItsTransaction
  BY DEF TransactionInv, SessionInv, EndsItsTransaction
<1> QED
  BY <1>1, TransactionInvHolds, PTL
=============================================================================
