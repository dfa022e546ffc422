----------------------------- MODULE LoginQueue -----------------------------
(***************************************************************************)
(* The registry of sessions of game/World.cpp: network threads hand over   *)
(* authenticated sessions, the world thread registers one per account,     *)
(* admits it or makes it wait in a queue, updates it once per tick, and    *)
(* deletes it or, if its character is in the world, keeps it for a while   *)
(* among the disconnected ones.  There are two kinds of queue, chosen by   *)
(* PriorityQueue.Enable: one list in order of arrival, or one list per     *)
(* region in order of priority.                                            *)
(*                                                                         *)
(* A session is the pair of its account and a number that is used again    *)
(* once the session is deleted, as memory is.  Clients of one account may  *)
(* hold MaxSession sessions at a time.  A player's character is no more    *)
(* than the fact that the session has one; whether it is in the world at   *)
(* that moment or between two maps is a free choice.  Bots (sessions       *)
(* without a socket) and negative player limits are left out.              *)
(***************************************************************************)
EXTENDS Integers, FiniteSets, SequencesExt

CONSTANTS
  Account,       \* account ids
  None,          \* no session
  Region,        \* GetQueueIndex() of each account: 1 if its locale is zhCN
  Trusted,       \* accounts with GetSecurity() > SEC_PLAYER or CanQueueSkip()
  Priority,      \* GetBasePriority() of each account
  MaxPriority,   \* the highest priority GetBasePriority() gives
  PriorityMode,  \* PriorityQueue.Enable
  PerTick,       \* what a tick adds to a waiting session's priority
  IpPenalty,     \* IpPenaltyPriorityReduction, 0 if the penalty is off
  Address,       \* GetBinaryAddress() of each account
  HardLimit,     \* PlayerHardLimit
  MaxPop,        \* maxRegionalPop (0) and maxNonRegionalPop (1)
  PlayerLimit,   \* PlayerLimit
  LoginPerTick,  \* LoginPerTick
  Grace,         \* whether LoginQueue.GracePeriodSecs is not 0
  IdleKick,      \* whether CharacterScreenMaxIdleTime is not 0
  MayStop,       \* whether the server is stopped at some time
  MaxSession,    \* bound: sessions of one account at a time, and its queries
  MaxIp          \* bound: the count of one address

ASSUME QueueAssumption ==
  /\ IsFiniteSet(Account)
  /\ Region \in [Account -> {0, 1}]
  /\ Trusted \subseteq Account
  /\ MaxPriority \in Nat
  /\ Priority \in [Account -> 0..MaxPriority]
  /\ {PriorityMode, Grace, IdleKick, MayStop} \subseteq BOOLEAN
  /\ MaxPop \in [{0, 1} -> Nat]
  /\ {PerTick, IpPenalty, HardLimit, PlayerLimit, LoginPerTick,
      MaxSession, MaxIp} \subseteq Nat

Session == Account \X (1..MaxSession)
Acc(s) == s[1]
RegionOf(s) == Region[Acc(s)]

ASSUME NoneAssumption == None \notin Session

VARIABLES
  limit,         \* m_playerLimit
  sessions,      \* m_sessions
  disconnected,  \* m_disconnectedSessions
  incoming,      \* addSessQueue
  queued,        \* m_QueuedSessions
  priorityQueue, \* m_priorityQueue
  logged,        \* loggedRegionSessions (0), loggedNonRegionSessions (1)
  ipCount,       \* m_Ipconnections
  lastLogout,    \* accounts in m_accountsLastLogout; kept if anything reads it
  alive,         \* the sessions that exist
  closed,        \* m_Socket is null or closed
  inQueue, hadQueue, passed, \* m_inQueue, m_hadQueue, m_PassedQueue
  loading,       \* m_playerLoading
  player,        \* _player is set
  answers,       \* login query holders on their way, per account
  stopped,       \* m_stopEvent
  kicked,        \* KickAll() was called
  phase,         \* where the world thread stands
  todo,          \* what the current loop of UpdateSessions has not visited
  skipped        \* history: sessions admitted by CanSkipQueue

queueVars == <<queued, priorityQueue, limit>>
registryVars == <<sessions, disconnected, incoming, alive, ipCount, lastLogout>>
flagVars == <<closed, inQueue, hadQueue, passed, loading, player, skipped>>
tickVars == <<phase, todo, stopped, kicked>>
vars == <<queueVars, registryVars, flagVars, tickVars, logged, answers>>

Init ==
  /\ limit = PlayerLimit
  /\ sessions = [a \in Account |-> None]
  /\ disconnected = {}
  /\ incoming = <<>>
  /\ queued = <<>>
  /\ priorityQueue = [r \in {0, 1} |-> <<>>]
  /\ logged = [r \in {0, 1} |-> 0]
  /\ ipCount = [i \in {Address[a] : a \in Account} |-> 0]
  /\ lastLogout = {}
  /\ alive = {}
  /\ closed = {} /\ inQueue = {} /\ hadQueue = {} /\ passed = {}
  /\ loading = {} /\ player = {} /\ skipped = {}
  /\ answers = [a \in Account |-> 0]
  /\ stopped = FALSE
  /\ kicked = FALSE
  /\ phase = "idle"
  /\ todo = {}

----------------------------------------------------------------------------
(* Counting and queues. *)

Least(m, n) == IF m < n THEN m ELSE n

Registered == {a \in Account : sessions[a] # None}

\* GetQueuedSessionCount() of given queues.
Waiting(q, pq) == IF PriorityMode THEN Len(pq[0]) + Len(pq[1]) ELSE Len(q)

\* GetActiveSessionCount()
Active == Cardinality(Registered) - Waiting(queued, priorityQueue)

\* Mutant: the destructor does not count.
CountUp(up, down) ==
  [r \in {0, 1} |-> logged[r] + Cardinality({s \in up : RegionOf(s) = r})]

\* The counters after the sessions of up passed the queue (OnPassedQueue) and
\* those of down were deleted.
Count(up, down) ==
  [r \in {0, 1} |-> logged[r] + Cardinality({s \in up : RegionOf(s) = r})
                              - Cardinality({s \in down \cap passed : RegionOf(s) = r})]

Entry(p, s) == [priority |-> p, session |-> s]

\* Mutant: a session is put before the first one of higher priority.
InsertAscending(q, p, s) ==
  InsertAt(q, Cardinality({j \in 1..Len(q) : q[j].priority <= p}) + 1, Entry(p, s))

\* A session is put before the first one of lower priority.
Insert(q, p, s) ==
  LET lower == {j \in 1..Len(q) : q[j].priority < p}
      i == IF lower = {} THEN Len(q) + 1 ELSE CHOOSE j \in lower : \A k \in lower : j <= k
  IN InsertAt(q, i, Entry(p, s))

\* The priority grows while a session waits.  Beyond the highest priority a
\* newcomer may have it makes no difference, so it stops there.
Age(q) == [i \in 1..Len(q) |-> [q[i] EXCEPT !.priority = Least(MaxPriority, @ + PerTick)]]

\* AddSession_ with no old session removes nothing.
NoRemoval == [found |-> FALSE, list |-> queued, lists |-> priorityQueue, next |-> {}]

\* Whether the list's first session moves up, with so many others active.
MovesUp(rest, others) ==
  /\ Cardinality(Registered) - Len(rest) < HardLimit
  /\ limit = 0 \/ others < limit
  /\ rest # <<>>

PopFront(rest) == [next |-> {Head(rest)}, list |-> Tail(rest)]

\* Mutant: a session that is going to be deleted stays in its queue.
RemovalForgotten(s) == NoRemoval

WithoutEntry(q, s) == RemoveFirstMatch(q, LAMBDA e : e.session = s)

\* RemoveQueuedSession(s): whether s was queued, the queues without it, and
\* the session that moves up (only in the list in order of arrival).
Removal(s) ==
  LET r == RegionOf(s)
      rest == RemoveFirst(queued, s)
      isQueued == s \in ToSet(queued)
      others == IF ~isQueued /\ Active > 0 THEN Active - 1 ELSE Active
      pop == IF MovesUp(rest, others) THEN PopFront(rest) ELSE [next |-> {}, list |-> rest]
  IN IF PriorityMode
       THEN [found |-> s \in {e.session : e \in ToSet(priorityQueue[r])},
             list |-> queued,
             lists |-> [priorityQueue EXCEPT ![r] = WithoutEntry(@, s)],
             next |-> {}]
       ELSE [found |-> isQueued, list |-> pop.list, lists |-> priorityQueue, next |-> pop.next]

----------------------------------------------------------------------------
(* Network threads. *)

\* HandleAuthSession creates a session and hands it to the world thread, which
\* looks for new ones in one phase only: a session that comes in another phase
\* might as well come after it.
Connect(a) ==
  /\ phase \in {"idle", "add"}
  /\ ipCount[Address[a]] < MaxIp
  /\ \E n \in 1..MaxSession :
       /\ <<a, n>> \notin alive
       /\ \A m \in 1..(n - 1) : <<a, m>> \in alive
       /\ alive' = alive \cup {<<a, n>>}
       /\ incoming' = Append(incoming, <<a, n>>)
  /\ UNCHANGED <<queueVars, flagVars, tickVars, logged, answers, sessions,
                 disconnected, ipCount, lastLogout>>

\* The connection breaks, or the client closes it.  Nothing but the session's
\* Update looks at the socket, so it might as well happen just before.
CloseSocket(s) ==
  /\ phase = "update" /\ s \in todo \ closed
  /\ closed' = closed \cup {s}
  /\ UNCHANGED <<queueVars, registryVars, tickVars, logged, answers, inQueue,
                 hadQueue, passed, loading, player, skipped>>

----------------------------------------------------------------------------
(* UpdateSessions: the queues. *)

CappedLimit == IF HardLimit # 0 THEN Least(HardLimit, limit) ELSE limit

\* Mutants: one session beyond the limit is let in; one place stays free.
FullAboveLimit(raised, active) == HardLimit < active
FullBeforeLimit(raised, active) == HardLimit <= active + 1

Full(raised, active) == (HardLimit # 0 /\ raised > HardLimit) \/ HardLimit <= active

\* Mutant: those admitted are taken from the end.
LastOf(q, n) == {q[i].session : i \in (Len(q) - n + 1)..Len(q)}

FirstOf(q, n) == {q[i].session : i \in 1..n}

\* One region's turn: the lists and the limit afterwards, and who is accepted.
Turn(r, lists, lim) ==
  LET raised == Least(lim, logged[0] + logged[1]) + LoginPerTick
      active == Cardinality(Registered) - Waiting(queued, lists)
      full == Full(raised, active)
      n == IF full THEN 0 ELSE Least(LoginPerTick, Len(lists[r]))
  IN IF logged[r] < MaxPop[r] /\ lists[r] # <<>> /\ LoginPerTick # 0
       THEN [lists |-> [lists EXCEPT ![r] = Age(SubSeq(@, n + 1, Len(@)))],
             limit |-> IF full THEN HardLimit ELSE raised,
             next |-> FirstOf(lists[r], n)]
       ELSE [lists |-> lists, limit |-> lim, next |-> {}]

AcceptQueued ==
  /\ phase = "idle" /\ ~stopped
  /\ LET first == Turn(0, priorityQueue, CappedLimit)
         second == Turn(1, first.lists, first.limit)
         next == first.next \cup second.next
     IN /\ limit' = second.limit
        /\ priorityQueue' = second.lists
        /\ inQueue' = inQueue \ next
        /\ passed' = passed \cup next
        /\ logged' = Count(next, {})
  /\ phase' = "add"
  /\ UNCHANGED <<queued, registryVars, answers, closed, hadQueue, loading,
                 player, skipped, todo, stopped, kicked>>

----------------------------------------------------------------------------
(* UpdateSessions: new sessions. *)

\* Mutant: the refused session is not deleted.
RefuseOnly(s) ==
  /\ sessions[Acc(s)] \in loading
  /\ UNCHANGED <<queueVars, tickVars, flagVars, logged, answers, sessions,
                 disconnected, alive, ipCount, lastLogout>>

\* The account's session is waiting for its character: the new one is deleted.
Refuse(s) ==
  /\ sessions[Acc(s)] \in loading
  /\ alive' = alive \ {s}
  /\ closed' = closed \ {s}
  /\ UNCHANGED <<queueVars, tickVars, logged, answers, sessions, disconnected,
                 ipCount, lastLogout, inQueue, hadQueue, passed, loading,
                 player, skipped>>

\* AddQueuedSession's priority, with the count of the address as it is now.
QueuePriority(a, count) ==
  IF IpPenalty = 0 \/ count <= 1 THEN Priority[a]
  ELSE IF IpPenalty >= Priority[a] THEN 0 ELSE Priority[a] - IpPenalty

\* m_accountsLastLogout when sessions that had been in a queue leave.
LastLogout(leaving) ==
  lastLogout \cup (IF Grace THEN {Acc(s) : s \in leaving \cap hadQueue} ELSE {})

\* Mutant: sessions are put aside while the server stops.
LogoutDelayAlways(s) == s \in player

\* Whether s may be kept as a disconnected session.  That its character is
\* between two maps, or that it does not stay for another reason, is a choice.
ForcePlayerLogoutDelay(s) == s \in player /\ ~stopped

\* CanSkipQueue()'s clock: the grace period may be over at any time (inTime).
\* The new session takes the place of the account's old one, if any, which is
\* deleted or stays as a disconnected session; it is admitted or queued.
Register(s, stays, inTime) ==
  LET a == Acc(s)
      r == Region[a]
      old == sessions[a]
      out == IF old = None THEN NoRemoval ELSE Removal(old)
      kept == IF stays THEN {old} ELSE {}
      gone == {old} \ (kept \cup {None})
      count == Count(out.next, gone)
      active == Cardinality(Registered \cup {a}) - Waiting(out.list, out.lists)
      full == count[r] >= MaxPop[r] \/ active >= HardLimit
      skips == a \in Trusted \/ (a \in lastLogout' /\ inTime)
      waits == full /\ ~skips
      one(condition) == IF condition THEN {s} ELSE {}
  IN /\ old \notin loading
     /\ stays => ForcePlayerLogoutDelay(old)
     /\ lastLogout' = LastLogout(kept)
     /\ sessions' = [sessions EXCEPT ![a] = s]
     /\ disconnected' = disconnected \cup kept
     /\ ipCount' = [ipCount EXCEPT ![Address[a]] = @ + 1]
     /\ alive' = alive \ gone
     /\ queued' = out.list \o IF waits /\ ~PriorityMode THEN <<s>> ELSE <<>>
     /\ priorityQueue' =
          IF waits /\ PriorityMode
            THEN [out.lists EXCEPT ![r] = Insert(@, QueuePriority(a, ipCount'[Address[a]]), s)]
            ELSE out.lists
     /\ inQueue' = (inQueue \ (out.next \cup gone)) \cup one(waits)
     /\ hadQueue' = (hadQueue \ gone) \cup one(waits)
     /\ passed' = ((passed \ gone) \cup out.next) \cup one(~waits)
     /\ logged' = IF waits THEN count ELSE [count EXCEPT ![r] = @ + 1]
     /\ closed' = (closed \ gone) \cup kept
     /\ player' = player \ gone
     /\ skipped' = (skipped \ gone) \cup one(full /\ skips)
     /\ UNCHANGED <<limit, loading, answers, tickVars>>

AddSession_ ==
  /\ phase = "add"
  /\ incoming # <<>>
  /\ incoming' = Tail(incoming)
  /\ Refuse(Head(incoming)) \/ \E stays, inTime \in BOOLEAN : Register(Head(incoming), stays, inTime)

EndAdd ==
  /\ phase = "add"
  /\ incoming = <<>>
  /\ phase' = "update"
  /\ todo' = {sessions[a] : a \in Registered}
  /\ UNCHANGED <<queueVars, registryVars, flagVars, logged, answers, stopped, kicked>>

----------------------------------------------------------------------------
(* UpdateSessions: each session in turn. *)

\* Mutant: the queue's flag is not looked at.
LoginOpcodeInQueue(s) ==
  /\ phase = "update" /\ s \in todo
  /\ s \notin loading \cup player
  /\ answers[Acc(s)] < MaxSession
  /\ loading' = loading \cup {s}
  /\ answers' = [answers EXCEPT ![Acc(s)] = @ + 1]
  /\ UNCHANGED <<queueVars, registryVars, tickVars, logged, closed, inQueue,
                 hadQueue, passed, player, skipped>>

\* A character is asked for (ProcessPackets; STATUS_AUTHED is refused to a
\* session in the queue) and its queries are sent to the database.
HandlePlayerLoginOpcode(s) ==
  /\ phase = "update" /\ s \in todo
  /\ s \notin inQueue \cup loading \cup player
  /\ answers[Acc(s)] < MaxSession
  /\ loading' = loading \cup {s}
  /\ answers' = [answers EXCEPT ![Acc(s)] = @ + 1]
  /\ UNCHANGED <<queueVars, registryVars, tickVars, logged, closed, inQueue,
                 hadQueue, passed, player, skipped>>

\* Update() returned false: the session leaves the queue, the map and memory.
DeleteSession(s) ==
  LET a == Acc(s)
      out == Removal(s)
  IN /\ queued' = out.list
     /\ priorityQueue' = out.lists
     /\ lastLogout' = LastLogout(IF out.found THEN {} ELSE {s})
     /\ sessions' = [sessions EXCEPT ![a] = None]
     /\ ipCount' = [ipCount EXCEPT ![Address[a]] = @ - 1]
     /\ alive' = alive \ {s}
     /\ logged' = Count(out.next, {s})
     /\ passed' = (passed \cup out.next) \ {s}
     /\ inQueue' = inQueue \ (out.next \cup {s})
     /\ hadQueue' = hadQueue \ {s}
     /\ closed' = closed \ {s}
     /\ loading' = loading \ {s}
     /\ player' = player \ {s}
     /\ skipped' = skipped \ {s}
     /\ todo' = todo \ {s}
     /\ UNCHANGED <<limit, disconnected, incoming, answers, phase, stopped, kicked>>

\* On the character screen for too long.
CharacterScreenIdleKick(s) ==
  /\ IdleKick
  /\ s \notin player \cup inQueue \cup loading
  /\ DeleteSession(s)

\* The socket is closed and there is no character in the world to keep.
LoseSession(s) ==
  /\ s \in closed
  /\ DeleteSession(s)

\* The socket is closed and the character stays.  Erasing from the map being
\* iterated may move another session to the place just visited.
SetSessionDisconnected(s) ==
  /\ s \in closed
  /\ ForcePlayerLogoutDelay(s)
  /\ sessions' = [sessions EXCEPT ![Acc(s)] = None]
  /\ disconnected' = disconnected \cup {s}
  /\ lastLogout' = LastLogout({s})
  /\ \E missed \in SUBSET (todo \ {s}) :
       /\ Cardinality(missed) <= 1
       /\ todo' = todo \ (missed \cup {s})
  /\ UNCHANGED <<queueVars, flagVars, logged, answers, incoming, alive, ipCount,
                 phase, stopped, kicked>>

\* Nothing happens to the session, or its character is logged out.
KeepSession(s) ==
  /\ s \notin closed
  /\ player' = player \/ (s \notin loading /\ player' = player \ {s})
  /\ todo' = todo \ {s}
  /\ UNCHANGED <<queueVars, registryVars, logged, answers, closed, inQueue,
                 hadQueue, passed, loading, skipped, phase, stopped, kicked>>

UpdateSession(s) ==
  /\ phase = "update" /\ s \in todo
  /\ \/ CharacterScreenIdleKick(s) \/ LoseSession(s)
     \/ SetSessionDisconnected(s) \/ KeepSession(s)

EndUpdate ==
  /\ phase = "update"
  /\ todo = {}
  /\ phase' = "disconnected"
  /\ todo' = disconnected
  /\ UNCHANGED <<queueVars, registryVars, flagVars, logged, answers, stopped, kicked>>

\* Mutant: the timer is not looked at.
DeleteTakenOver(s) ==
  /\ s \notin player
  /\ disconnected' = disconnected \ {s}
  /\ alive' = alive \ {s}
  /\ logged' = Count({}, {s})
  /\ passed' = passed \ {s}
  /\ hadQueue' = hadQueue \ {s}
  /\ closed' = closed \ {s}
  /\ player' = player \ {s}
  /\ skipped' = skipped \ {s}
  /\ UNCHANGED <<sessions, incoming, ipCount, lastLogout, inQueue, loading>>

\* UpdateDisconnected() returned false: m_disconnectTimer has run out, or the session has no
\* character in the world (a newer session took it over, or it is between two
\* maps).
DeleteDisconnected(s) ==
  /\ disconnected' = disconnected \ {s}
  /\ alive' = alive \ {s}
  /\ logged' = Count({}, {s})
  /\ passed' = passed \ {s}
  /\ hadQueue' = hadQueue \ {s}
  /\ closed' = closed \ {s}
  /\ player' = player \ {s}
  /\ skipped' = skipped \ {s}
  /\ UNCHANGED <<sessions, incoming, ipCount, lastLogout, inQueue, loading>>

KeepDisconnected(s) ==
  /\ s \in player
  /\ UNCHANGED <<flagVars, logged, registryVars>>

UpdateDisconnected(s) ==
  /\ phase = "disconnected" /\ s \in todo
  /\ todo' = todo \ {s}
  /\ DeleteDisconnected(s) \/ KeepDisconnected(s)
  /\ UNCHANGED <<queueVars, answers, phase, stopped, kicked>>

EndUpdateDisconnected ==
  /\ phase = "disconnected"
  /\ todo = {}
  /\ phase' = IF kicked THEN "over" ELSE "idle"
  /\ UNCHANGED <<queueVars, registryVars, flagVars, logged, answers, todo, stopped, kicked>>

----------------------------------------------------------------------------
(* The rest of the tick, and the end. *)

\* Mutant: a login that fails returns without clearing the flag.
FinishLoginOrReturn(s) ==
  IF s \in player \/ s \notin loading
    THEN UNCHANGED <<loading, closed, player>>
    ELSE \/ player' = player \cup {s} /\ loading' = loading \ {s} /\ UNCHANGED closed
         \/ closed' = closed \cup {s} /\ UNCHANGED <<loading, player>>

\* HandlePlayerLogin(): the account's session, whichever it is by now, gets the
\* answer to a login request, and a character: one it takes over from a
\* disconnected session, or one that is loaded.  Loading may fail.
FinishLogin(s) ==
  IF s \in player \/ s \notin loading
    THEN loading' = loading \ {s} /\ UNCHANGED <<closed, player>>
    ELSE /\ loading' = loading \ {s}
         /\ \/ /\ \E d \in disconnected \cap player :
                    Acc(d) = Acc(s) /\ player' = (player \ {d}) \cup {s}
               /\ UNCHANGED closed
            \/ player' = player \cup {s} /\ UNCHANGED closed
            \/ closed' = closed \cup {s} /\ UNCHANGED player

HandlePlayerLoginCallback(a) ==
  /\ phase = "idle"
  /\ answers[a] > 0
  /\ answers' = [answers EXCEPT ![a] = @ - 1]
  /\ IF sessions[a] = None THEN UNCHANGED <<loading, closed, player>>
                           ELSE FinishLogin(sessions[a])
  /\ UNCHANGED <<queueVars, registryVars, tickVars, logged, inQueue, hadQueue,
                 passed, skipped>>

StopNow ==
  /\ MayStop /\ ~stopped
  /\ stopped' = TRUE
  /\ UNCHANGED <<queueVars, registryVars, flagVars, logged, answers, phase, todo, kicked>>

\* Shutdown(): KickAll(), then the first part of a last UpdateSessions(), in
\* which the queues are empty.
Shutdown ==
  /\ phase = "idle"
  /\ stopped
  /\ kicked' = TRUE
  /\ queued' = <<>>
  /\ priorityQueue' = [r \in {0, 1} |-> <<>>]
  /\ closed' = closed \cup disconnected \cup {sessions[a] : a \in Registered}
  /\ limit' = CappedLimit
  /\ phase' = "add"
  /\ UNCHANGED <<registryVars, logged, answers, inQueue, hadQueue, passed, loading,
                 player, skipped, todo, stopped>>

Over == phase = "over" /\ UNCHANGED vars

----------------------------------------------------------------------------

UpdateSessions ==
  \/ AcceptQueued \/ AddSession_ \/ EndAdd
  \/ \E s \in Session : HandlePlayerLoginOpcode(s) \/ UpdateSession(s) \/ UpdateDisconnected(s)
  \/ EndUpdate \/ EndUpdateDisconnected \/ Shutdown

Next ==
  \/ UpdateSessions \/ StopNow \/ Over
  \/ \E s \in Session : CloseSocket(s)
  \/ \E a \in Account : Connect(a) \/ HandlePlayerLoginCallback(a)

Spec == Init /\ [][Next]_vars

\* The world thread goes on ticking, and a tick takes finitely many new sessions;
\* no session is missed for ever by the loop over the sessions; a disconnected
\* session's timer, which only counts down, runs out.
Fairness ==
  /\ WF_vars(UpdateSessions)
  /\ SF_vars(EndAdd)
  /\ \A s \in Session :
       SF_vars(UpdateSession(s)) /\ SF_vars(UpdateDisconnected(s) /\ s \notin disconnected')

FairSpec == Spec /\ Fairness
----------------------------------------------------------------------------
(* Properties. *)

Region01 == {0, 1}

\* Every variable stays in its range; no counter goes below zero.
TypeOK ==
  /\ limit \in Nat
  /\ sessions \in [Account -> Session \cup {None}]
  /\ incoming \in Seq(Session)
  /\ queued \in Seq(Session)
  /\ priorityQueue \in [Region01 -> Seq([priority : Nat, session : Session])]
  /\ logged \in [Region01 -> Nat]
  /\ ipCount \in [{Address[a] : a \in Account} -> Nat]
  /\ lastLogout \subseteq Account
  /\ disconnected \cup closed \cup inQueue \cup hadQueue \cup passed \cup loading
       \cup player \cup skipped \cup todo \subseteq alive
  /\ alive \subseteq Session
  /\ answers \in [Account -> 0..MaxSession]
  /\ {stopped, kicked} \subseteq BOOLEAN
  /\ phase \in {"idle", "add", "update", "disconnected", "over"}

RegisteredSessions == {sessions[a] : a \in Registered}

\* The sessions waiting in either kind of queue.
Entries(q) == {e.session : e \in ToSet(q)}
Queued == ToSet(queued) \cup Entries(priorityQueue[0]) \cup Entries(priorityQueue[1])

\* A session that exists is in exactly one place - waiting to be added,
\* registered under its own account, or disconnected - and one that was deleted
\* is in none: nothing dangles and nothing leaks.
OnePlace ==
  /\ TypeOK
  /\ alive = ToSet(incoming) \cup RegisteredSessions \cup disconnected
  /\ IsInjective(incoming)
  /\ \A a \in Registered : Acc(sessions[a]) = a
  /\ ToSet(incoming) \cap (RegisteredSessions \cup disconnected) = {}
  /\ RegisteredSessions \cap disconnected = {}

\* The queues hold exactly the registered sessions that have not passed, each
\* once and in its region's list; the flag that refuses their packets is set, and
\* nobody asks for or plays a character without having passed the queue.
QueueSound ==
  /\ loading \cup player \subseteq passed
  /\ ~kicked => Queued = inQueue /\ Queued = RegisteredSessions \ passed
  /\ IsInjective(queued)
  /\ \A r \in {0, 1} : \A i, j \in 1..Len(priorityQueue[r]) :
       /\ RegionOf(priorityQueue[r][i].session) = r
       /\ priorityQueue[r][i].session = priorityQueue[r][j].session => i = j

\* The population counters, which decide who may enter, count the sessions
\* that passed the queue and still exist.
LoggedCount ==
  \A r \in {0, 1} : logged[r] = Cardinality({s \in alive \cap passed : RegionOf(s) = r})

\* A session waiting for its character has an answer on its way; otherwise its
\* account could never be connected again, because AddSession_ refuses it.
LoadingAnswered == \A s \in loading : answers[Acc(s)] > 0

\* Without those who skip the queue, the limit of players is kept.
Overshoot == IF PriorityMode /\ LoginPerTick > 0 THEN LoginPerTick - 1 ELSE 0
LimitKept ==
  Cardinality(RegisteredSessions \ (inQueue \cup skipped)) <= HardLimit + Overshoot

\* The list of a region is in order of priority.
PriorityOrder ==
  \A r \in {0, 1} : \A i, j \in 1..Len(priorityQueue[r]) :
    i < j => priorityQueue[r][i].priority >= priorityQueue[r][j].priority

\* The sessions ahead of s in its queue.
Ahead(s) ==
  {queued[i] : i \in {j \in 1..Len(queued) : \E k \in (j + 1)..Len(queued) : queued[k] = s}}
  \cup
  LET q == priorityQueue[RegionOf(s)]
  IN {q[i].session : i \in {j \in 1..Len(q) : \E k \in (j + 1)..Len(q) : q[k].session = s}}

\* Whoever passes the queue passes it in order, and stays passed.
PassInOrder ==
  [][\A s \in Queued :
       s \in passed' => Ahead(s) \cap Queued' = {} /\ s \notin Queued']_vars

\* A session that is registered when the server stops is logged out, which saves
\* its character, before the end: it is not put aside for a time that will not
\* come.
ShutdownSavesRegistered ==
  /\ [](phase = "over" => RegisteredSessions \cap player = {})
  /\ [][stopped => disconnected' \subseteq disconnected]_vars

\* A session whose connection is gone is deleted in the end.
ClosedEnds == \A s \in Session : s \in closed ~> s \notin closed \/ kicked

\* "Maximum number of players allowed to login from the queue during a world
\* update tick" (mangosd.conf.dist.in, LoginPerTick): while there is room, the
\* ticks empty the queue.
Room(s) == /\ Active < HardLimit /\ logged[0] + logged[1] < HardLimit
           /\ logged[RegionOf(s)] < MaxPop[RegionOf(s)]
QueueAdvances ==
  \A s \in Session : (s \in Queued /\ Room(s)) ~> (s \notin Queued \/ ~Room(s))
=============================================================================
