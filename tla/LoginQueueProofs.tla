-------------------------- MODULE LoginQueueProofs --------------------------
(***************************************************************************)
(* The registry of sessions and its queues: proofs of the invariants of    *)
(* LoginQueue and of what a step may never do, for any accounts, limits,   *)
(* priorities and regions.                                                 *)
(***************************************************************************)
EXTENDS LoginQueue, FiniteSetTheorems, SequenceTheorems,
        WellFoundedInduction, TLAPS

\* The registry: each session in one place, each registered one under its own account.
RegistryInv ==
  /\ sessions \in [Account -> Session \cup {None}]
  /\ incoming \in Seq(Session)
  /\ disconnected \subseteq Session
  /\ alive = ToSet(incoming) \cup RegisteredSessions \cup disconnected
  /\ IsInjective(incoming)
  /\ \A a \in Registered : Acc(sessions[a]) = a
  /\ ToSet(incoming) \cap (RegisteredSessions \cup disconnected) = {}
  /\ RegisteredSessions \cap disconnected = {}

\* The loops of UpdateSessions visit sessions that are still there.
TodoInv ==
  /\ phase \in {"idle", "add", "update", "disconnected", "over"}
  /\ todo \subseteq CASE phase = "update" -> RegisteredSessions
                      [] phase = "disconnected" -> disconnected
                      [] OTHER -> {}

\* What the flags of a session say about its place.
FlagInv ==
  /\ closed \cup passed \cup hadQueue \cup skipped \subseteq RegisteredSessions \cup disconnected
  /\ inQueue = RegisteredSessions \ passed
  /\ loading \subseteq RegisteredSessions \cap passed
  /\ player \subseteq passed
  /\ loading \cap player = {}

Listed == [priority : Nat, session : Session]

\* Each entry of a list is unique, of the list's region, and in order of priority.
ListSound(r, q) ==
  /\ \A i \in 1..Len(q) : RegionOf(q[i].session) = r
  /\ \A i, j \in 1..Len(q) :
       /\ q[i].session = q[j].session => i = j
       /\ i < j => q[i].priority >= q[j].priority

\* Given queues hold every session once, in the queues of the mode only.
Sound(q, pq) ==
  /\ q \in Seq(Session)
  /\ pq \in [Region01 -> Seq(Listed)]
  /\ IsInjective(q)
  /\ \A r \in Region01 : ListSound(r, pq[r])
  /\ IF PriorityMode THEN q = <<>> ELSE \A r \in Region01 : pq[r] = <<>>

\* The sessions in given queues; the ones in the queues as they are, are those whose
\* flag is set, until KickAll() clears the queues.
Held(q, pq) == ToSet(q) \cup Entries(pq[0]) \cup Entries(pq[1])

QueuesInv ==
  /\ Sound(queued, priorityQueue)
  /\ Queued \subseteq inQueue
  /\ ~kicked => Queued = inQueue

\* How many of given sessions are of each region.
ByRegion(S) == [r \in Region01 |-> Cardinality({s \in S : RegionOf(s) = r})]

\* The addresses of the accounts; the accounts, of given ones, of an address.
Addresses == {Address[a] : a \in Account}
AtAddress(A, i) == {a \in A : Address[a] = i}

\* The counts of the addresses are at least the numbers of their given accounts.
Counted(c, A) ==
  c \in [Addresses -> Nat] /\ \A i \in Addresses : c[i] >= Cardinality(AtAddress(A, i))

CountInv ==
  /\ limit \in Nat
  /\ logged = ByRegion(passed)
  /\ Counted(ipCount, Registered)
  /\ lastLogout \subseteq Account

AnswerInv ==
  /\ answers \in [Account -> 0..MaxSession]
  /\ \A s \in loading : answers[Acc(s)] > 0

\* After KickAll() a character that is in the world belongs to a session whose socket
\* is closed, and that the loop over the sessions has still to visit.
KickInv ==
  /\ {stopped, kicked} \subseteq BOOLEAN
  /\ kicked => stopped /\ phase # "idle"
  /\ phase = "over" => kicked
  /\ kicked => RegisteredSessions \cap player \subseteq
       CASE phase = "add" -> closed
         [] phase = "update" -> closed \cap todo
         [] OTHER -> {}

RoomInv == LimitKept

LoginInv ==
  RegistryInv /\ TodoInv /\ FlagInv /\ QueuesInv /\ CountInv /\ AnswerInv /\ KickInv /\ RoomInv

----------------------------------------------------------------------------
(* The constants. *)

\* The numbers of the configuration are naturals.
LEMMA Numbers ==
  /\ PerTick \in Nat /\ IpPenalty \in Nat /\ HardLimit \in Nat /\ PlayerLimit \in Nat
  /\ LoginPerTick \in Nat /\ MaxSession \in Nat /\ MaxIp \in Nat /\ MaxPriority \in Nat
  /\ PriorityMode \in BOOLEAN
  /\ \A a \in Account : Priority[a] \in Nat
  /\ \A r \in Region01 : MaxPop[r] \in Nat
BY QueueAssumption DEF Region01

\* A session belongs to an account, and its account to a region.
LEMMA SessionParts ==
  /\ \A s \in Session : Acc(s) \in Account /\ RegionOf(s) \in Region01
  /\ \A s \in Session : RegionOf(s) = Region[Acc(s)]
  /\ \A a \in Account : Region[a] \in Region01
  /\ None \notin Session
<1>1. \A a \in Account : Region[a] \in Region01
  BY QueueAssumption DEF Region01
<1>2. \A s \in Session : Acc(s) \in Account
  BY DEF Session, Acc
<1> QED
  BY <1>1, <1>2, NoneAssumption DEF RegionOf

\* There are finitely many sessions.
LEMMA SessionFinite == IsFiniteSet(Account) /\ \A S : S \subseteq Session => IsFiniteSet(S)
<1>1. IsFiniteSet(Account) /\ IsFiniteSet(1..MaxSession)
  BY QueueAssumption, Numbers, FS_Interval
<1>2. IsFiniteSet(Session)
  BY <1>1, FS_Product DEF Session
<1> QED
  BY <1>1, <1>2, FS_Subset

----------------------------------------------------------------------------
(* Lists. *)

\* What the operators on sequences do, position by position.
LEMMA RemovedAt ==
  ASSUME NEW S, NEW q \in Seq(S), NEW i \in 1..Len(q)
  PROVE  /\ RemoveAt(q, i) \in Seq(S)
         /\ Len(RemoveAt(q, i)) = Len(q) - 1
         /\ \A j \in 1..(Len(q) - 1) : RemoveAt(q, i)[j] = IF j < i THEN q[j] ELSE q[j + 1]
<1> DEFINE n == Len(q)
           front == SubSeq(q, 1, i - 1)
           back == SubSeq(q, i + 1, n)
<1>1. n \in Nat /\ i \in 1..n /\ \A j \in 1..n : q[j] \in S
  OBVIOUS
<1>2. /\ front \in Seq(S) /\ Len(front) = i - 1
      /\ \A j \in 1..(i - 1) : front[j] = q[j]
  <2>1. \A j \in 1..(i - 1) : q[j] \in S
    BY <1>1
  <2>2. /\ front \in Seq(S) /\ Len(front) = IF 1 <= i - 1 THEN i - 1 - 1 + 1 ELSE 0
        /\ \A j \in 1..(i - 1 - 1 + 1) : front[j] = q[1 + j - 1]
    BY <1>1, <2>1, SubSeqProperties
  <2> QED
    BY <1>1, <2>2
<1>3. /\ back \in Seq(S) /\ Len(back) = n - i
      /\ \A j \in 1..(n - i) : back[j] = q[i + j]
  <2>1. \A j \in (i + 1)..n : q[j] \in S
    BY <1>1
  <2>2. /\ back \in Seq(S) /\ Len(back) = IF i + 1 <= n THEN n - (i + 1) + 1 ELSE 0
        /\ \A j \in 1..(n - (i + 1) + 1) : back[j] = q[(i + 1) + j - 1]
    BY <1>1, <2>1, SubSeqProperties
  <2> QED
    BY <1>1, <2>2
<1> HIDE DEF front, back
<1>4. /\ front \o back \in Seq(S) /\ Len(front \o back) = Len(front) + Len(back)
      /\ \A j \in 1..(Len(front) + Len(back)) :
           (front \o back)[j] = IF j <= Len(front) THEN front[j] ELSE back[j - Len(front)]
  BY <1>2, <1>3, ConcatProperties
<1>5. RemoveAt(q, i) = front \o back
  BY DEF RemoveAt, front, back
<1>6. Len(front) + Len(back) = n - 1
  BY <1>1, <1>2, <1>3
<1>7. ASSUME NEW j \in 1..(n - 1)
      PROVE  (front \o back)[j] = IF j < i THEN q[j] ELSE q[j + 1]
  <2>1. CASE j < i
    BY <1>1, <1>2, <1>4, <1>6, <2>1
  <2>2. CASE ~(j < i)
    <3>1. /\ j - (i - 1) \in 1..(n - i) /\ i + (j - (i - 1)) = j + 1
      BY <1>1, <2>2
    <3>2. back[j - (i - 1)] = q[j + 1]
      BY <1>3, <3>1
    <3>3. (front \o back)[j] = back[j - Len(front)]
      BY <1>1, <1>2, <1>4, <1>6, <2>2
    <3> QED
      BY <1>2, <2>2, <3>2, <3>3
  <2> QED
    BY <2>1, <2>2
<1> QED
  BY <1>4, <1>5, <1>6, <1>7

\* A sequence with one more element.
LEMMA InsertedAt ==
  ASSUME NEW S, NEW q \in Seq(S), NEW i \in 1..(Len(q) + 1), NEW e \in S
  PROVE  /\ InsertAt(q, i, e) \in Seq(S)
         /\ Len(InsertAt(q, i, e)) = Len(q) + 1
         /\ \A j \in 1..(Len(q) + 1) :
              InsertAt(q, i, e)[j] = IF j < i THEN q[j] ELSE IF j = i THEN e ELSE q[j - 1]
<1> DEFINE n == Len(q)
           front == SubSeq(q, 1, i - 1)
           middle == <<e>>
           back == SubSeq(q, i, n)
<1>1. n \in Nat /\ i \in 1..(n + 1) /\ \A j \in 1..n : q[j] \in S
  OBVIOUS
<1>2. /\ front \in Seq(S) /\ Len(front) = i - 1
      /\ \A j \in 1..(i - 1) : front[j] = q[j]
  <2>1. \A j \in 1..(i - 1) : q[j] \in S
    BY <1>1
  <2>2. /\ front \in Seq(S) /\ Len(front) = IF 1 <= i - 1 THEN i - 1 - 1 + 1 ELSE 0
        /\ \A j \in 1..(i - 1 - 1 + 1) : front[j] = q[1 + j - 1]
    BY <1>1, <2>1, SubSeqProperties
  <2> QED
    BY <1>1, <2>2
<1>3. /\ back \in Seq(S) /\ Len(back) = n - i + 1
      /\ \A j \in 1..(n - i + 1) : back[j] = q[i + j - 1]
  <2>1. \A j \in i..n : q[j] \in S
    BY <1>1
  <2>2. /\ back \in Seq(S) /\ Len(back) = IF i <= n THEN n - i + 1 ELSE 0
        /\ \A j \in 1..(n - i + 1) : back[j] = q[i + j - 1]
    BY <1>1, <2>1, SubSeqProperties
  <2> QED
    BY <1>1, <2>2
<1>4. middle \in Seq(S) /\ Len(middle) = 1 /\ middle[1] = e
  OBVIOUS
<1> HIDE DEF front, middle, back
<1>5. /\ front \o middle \in Seq(S) /\ Len(front \o middle) = Len(front) + Len(middle)
      /\ \A j \in 1..(Len(front) + Len(middle)) :
           (front \o middle)[j] = IF j <= Len(front) THEN front[j] ELSE middle[j - Len(front)]
  BY <1>2, <1>4, ConcatProperties
<1> DEFINE begin == front \o middle
<1>6. /\ begin \in Seq(S) /\ Len(begin) = i
      /\ \A j \in 1..i : begin[j] = IF j < i THEN q[j] ELSE e
  BY <1>1, <1>2, <1>4, <1>5
<1> HIDE DEF begin
<1>7. /\ begin \o back \in Seq(S) /\ Len(begin \o back) = Len(begin) + Len(back)
      /\ \A j \in 1..(Len(begin) + Len(back)) :
           (begin \o back)[j] = IF j <= Len(begin) THEN begin[j] ELSE back[j - Len(begin)]
  BY <1>3, <1>6, ConcatProperties
<1>8. InsertAt(q, i, e) = begin \o back
  BY DEF InsertAt, front, middle, back, begin
<1> HIDE DEF n
<1> QED
  BY <1>1, <1>3, <1>6, <1>7, <1>8 DEF n

\* The rest of a sequence.
LEMMA RestOf ==
  ASSUME NEW S, NEW q \in Seq(S), NEW n \in 0..Len(q)
  PROVE  /\ SubSeq(q, n + 1, Len(q)) \in Seq(S)
         /\ Len(SubSeq(q, n + 1, Len(q))) = Len(q) - n
         /\ \A j \in 1..(Len(q) - n) : SubSeq(q, n + 1, Len(q))[j] = q[j + n]
<1>1. Len(q) \in Nat /\ \A j \in (n + 1)..Len(q) : q[j] \in S
  OBVIOUS
<1>2. /\ SubSeq(q, n + 1, Len(q)) \in Seq(S)
      /\ Len(SubSeq(q, n + 1, Len(q))) = IF n + 1 <= Len(q) THEN Len(q) - (n + 1) + 1 ELSE 0
      /\ \A j \in 1..(Len(q) - (n + 1) + 1) : SubSeq(q, n + 1, Len(q))[j] = q[(n + 1) + j - 1]
  BY <1>1, SubSeqProperties
<1> QED
  BY <1>1, <1>2

\* The elements of a sequence and of a list.
LEMMA Elements ==
  ASSUME NEW S, NEW q \in Seq(S)
  PROVE  /\ Len(q) \in Nat /\ DOMAIN q = 1..Len(q)
         /\ \A x : x \in ToSet(q) <=> \E i \in 1..Len(q) : x = q[i]
         /\ \A x : x \in Entries(q) <=> \E i \in 1..Len(q) : x = q[i].session
         /\ \A i \in 1..Len(q) : q[i] \in S
<1>1. Len(q) \in Nat /\ DOMAIN q = 1..Len(q) /\ \A i \in 1..Len(q) : q[i] \in S
  OBVIOUS
<1>2. \A x : x \in ToSet(q) <=> \E i \in 1..Len(q) : x = q[i]
  BY <1>1 DEF ToSet
<1> QED
  BY <1>1, <1>2 DEF Entries

\* A part of a list, in its order, is sound.
LEMMA PartSound ==
  ASSUME NEW r, NEW q \in Seq(Listed), NEW p \in Seq(Listed), ListSound(r, q),
         NEW f \in [1..Len(p) -> 1..Len(q)],
         \A i, j \in 1..Len(p) : i < j => f[i] < f[j],
         \A i \in 1..Len(p) : p[i].session = q[f[i]].session,
         \A i, j \in 1..Len(p) :
           q[f[i]].priority >= q[f[j]].priority => p[i].priority >= p[j].priority
  PROVE  ListSound(r, p)
<1>1. Len(p) \in Nat /\ Len(q) \in Nat
  OBVIOUS
<1>2. \A i \in 1..Len(p) : f[i] \in 1..Len(q)
  OBVIOUS
<1>3. \A i, j \in 1..Len(p) : f[i] = f[j] => i = j
  BY <1>1, <1>2
<1>4. \A i \in 1..Len(p) : RegionOf(p[i].session) = r
  BY <1>2 DEF ListSound
<1>5. \A i, j \in 1..Len(p) : p[i].session = p[j].session => i = j
  BY <1>2, <1>3 DEF ListSound
<1>6. \A i, j \in 1..Len(p) : i < j => p[i].priority >= p[j].priority
  BY <1>2 DEF ListSound
<1> QED
  BY <1>4, <1>5, <1>6 DEF ListSound

\* RemoveQueuedSession's search: the entry of s leaves the list.
LEMMA EntryRemoved ==
  ASSUME NEW r, NEW q \in Seq(Listed), ListSound(r, q), NEW s
  PROVE  /\ WithoutEntry(q, s) \in Seq(Listed)
         /\ ListSound(r, WithoutEntry(q, s))
         /\ Entries(WithoutEntry(q, s)) = Entries(q) \ {s}
<1>1. CASE s \notin Entries(q)
  <2>1. ~ \E i \in 1..Len(q) : q[i].session = s
    BY <1>1, Elements
  <2>2. WithoutEntry(q, s) = q
    BY <2>1 DEF WithoutEntry, RemoveFirstMatch
  <2> QED
    BY <1>1, <2>2
<1>2. CASE s \in Entries(q)
  <2>1. PICK i \in 1..Len(q) : q[i].session = s
    BY <1>2, Elements
  <2> DEFINE I == {k \in 1..Len(q) : q[k].session = s}
             p == RemoveAt(q, i)
             n == Len(q)
             f == [j \in 1..(n - 1) |-> IF j < i THEN j ELSE j + 1]
  <2>2. n \in Nat /\ i \in 1..n
    OBVIOUS
  <2>3. \A k \in 1..n : q[k].session = s <=> k = i
    BY <2>1 DEF ListSound
  <2>4. I = {i}
    BY <2>3
  <2>5. (CHOOSE x \in I : \A y \in I : x <= y) = i
    BY <2>2, <2>4
  <2>6. SelectInSeq(q, LAMBDA v : v.session = s) = i
    BY <2>4, <2>5 DEF SelectInSeq, Min
  <2>7. WithoutEntry(q, s) = p
    BY <2>1, <2>6 DEF WithoutEntry, RemoveFirstMatch
  <2>8. /\ p \in Seq(Listed) /\ Len(p) = n - 1
        /\ \A j \in 1..(n - 1) : p[j] = IF j < i THEN q[j] ELSE q[j + 1]
    BY RemovedAt
  <2> HIDE DEF p, n, I
  <2>9. f \in [1..Len(p) -> 1..n] /\ \A j \in 1..(n - 1) : f[j] = IF j < i THEN j ELSE j + 1
    BY <2>2, <2>8
  <2> HIDE DEF f
  <2>10. \A j, k \in 1..Len(p) : j < k => f[j] < f[k]
    BY <2>2, <2>8, <2>9
  <2>11. \A j \in 1..Len(p) : p[j] = q[f[j]]
    BY <2>2, <2>8, <2>9
  <2>12. ListSound(r, p)
    <3>1. /\ \A j \in 1..Len(p) : p[j].session = q[f[j]].session
          /\ \A j, k \in 1..Len(p) :
               q[f[j]].priority >= q[f[k]].priority => p[j].priority >= p[k].priority
      BY <2>11
    <3>2. f \in [1..Len(p) -> 1..Len(q)]
      BY <2>9 DEF n
    <3> QED
      BY <2>8, <2>10, <3>1, <3>2, PartSound
  <2>13. \A x : x \in Entries(p) => x \in Entries(q) \ {s}
    <3>1. SUFFICES ASSUME NEW j \in 1..Len(p) PROVE p[j].session \in Entries(q) \ {s}
      BY <2>8, Elements
    <3>2. f[j] \in 1..n /\ f[j] # i
      BY <2>2, <2>8, <2>9
    <3>3. p[j].session # s
      BY <2>3, <2>11, <3>2
    <3> QED
      BY <2>11, <3>2, <3>3, Elements DEF n
  <2>14. \A x : x \in Entries(q) \ {s} => x \in Entries(p)
    <3>1. SUFFICES ASSUME NEW k \in 1..n, k # i PROVE q[k].session \in Entries(p)
      BY <2>1, Elements DEF n
    <3>2. PICK j \in 1..Len(p) : f[j] = k
      <4>1. CASE k < i
        BY <2>2, <2>8, <2>9, <4>1
      <4>2. CASE ~(k < i)
        <5>1. k - 1 \in 1..(n - 1) /\ ~(k - 1 < i) /\ k - 1 + 1 = k
          BY <2>2, <3>1, <4>2
        <5> QED
          BY <2>8, <2>9, <5>1
      <4> QED
        BY <4>1, <4>2
    <3> QED
      BY <2>8, <2>11, <3>2, Elements
  <2> QED
    BY <2>7, <2>8, <2>12, <2>13, <2>14
<1> QED
  BY <1>1, <1>2

\* A set of naturals has a least element.
LEMMA LeastElement ==
  ASSUME NEW S, S \subseteq Nat, S # {}
  PROVE  \E x \in S : \A y \in S : x <= y
<1>1. PICK x \in S : \A y \in S : <<y, x>> \notin OpToRel(<, Nat)
  BY WFMin, NatLessThanWellFounded, Zenon
<1>2. \A y \in S : ~(y < x)
  BY <1>1, Zenon DEF OpToRel
<1> QED
  BY <1>2

\* AddQueuedSession puts a session behind those of its priority and before the lower ones.
LEMMA EntryInserted ==
  ASSUME NEW r, NEW q \in Seq(Listed), ListSound(r, q), NEW p \in Nat, NEW s \in Session,
         RegionOf(s) = r, s \notin Entries(q)
  PROVE  /\ Insert(q, p, s) \in Seq(Listed)
         /\ ListSound(r, Insert(q, p, s))
         /\ Entries(Insert(q, p, s)) = Entries(q) \cup {s}
<1> DEFINE n == Len(q)
<1>1. n \in Nat /\ \A j \in 1..n : q[j] \in Listed /\ q[j].priority \in Nat
  <2>1. \A x \in Listed : x.priority \in Nat
    BY DEF Listed
  <2> QED
    BY <2>1, Elements
<1> DEFINE lower == {j \in 1..n : q[j].priority < p}
           i == IF lower = {} THEN n + 1 ELSE CHOOSE j \in lower : \A k \in lower : j <= k
           e == Entry(p, s)
           t == InsertAt(q, i, e)
<1>2. /\ i \in 1..(n + 1)
      /\ \A j \in 1..n : j < i => q[j].priority >= p
      /\ \A j \in 1..n : j >= i => q[j].priority < p
  <2>1. CASE lower = {}
    <3>1. i = n + 1 /\ \A j \in 1..n : ~(q[j].priority < p)
      BY <2>1
    <3> QED
      BY <1>1, <3>1
  <2>2. CASE lower # {}
    <3>1. lower \subseteq Nat
      BY <1>1
    <3>2. \E j \in lower : \A k \in lower : j <= k
      BY <2>2, <3>1, LeastElement
    <3>3. i \in lower /\ \A k \in lower : i <= k
      BY <2>2, <3>2
    <3> HIDE DEF i
    <3>4. i \in 1..n /\ q[i].priority < p
      BY <3>3
    <3>5. \A j \in 1..n : j < i => q[j].priority >= p
      <4>1. SUFFICES ASSUME NEW j \in 1..n, j < i, q[j].priority < p PROVE FALSE
        BY <1>1
      <4>2. i <= j
        BY <3>3, <4>1
      <4> QED
        BY <1>1, <3>4, <4>1, <4>2
    <3>6. \A j \in 1..n : j >= i => q[j].priority < p
      <4>1. SUFFICES ASSUME NEW j \in 1..n, j > i PROVE q[j].priority < p
        BY <1>1, <3>4
      <4>2. q[i].priority >= q[j].priority
        BY <3>4, <4>1 DEF ListSound
      <4>3. q[i].priority \in Nat /\ q[j].priority \in Nat
        BY <1>1, <3>4
      <4> QED
        BY <3>4, <4>2, <4>3
    <3> QED
      BY <1>1, <3>4, <3>5, <3>6
  <2> QED
    BY <2>1, <2>2
<1>3. e \in Listed /\ e.priority = p /\ e.session = s
  BY DEF Entry, Listed
<1>4. Insert(q, p, s) = t
  BY DEF Insert
<1> HIDE DEF i, e, lower
<1>5. /\ t \in Seq(Listed) /\ Len(t) = n + 1
      /\ \A j \in 1..(n + 1) : t[j] = IF j < i THEN q[j] ELSE IF j = i THEN e ELSE q[j - 1]
  BY <1>2, <1>3, InsertedAt
<1> HIDE DEF n, t
<1>6. \A j \in 1..n : q[j].session # s /\ RegionOf(q[j].session) = r
  BY Elements DEF ListSound, n
<1>7. \A j, k \in 1..n : /\ q[j].session = q[k].session => j = k
                         /\ j < k => q[j].priority >= q[k].priority
  BY DEF ListSound, n
<1>8. \A j \in 1..(n + 1) :
        \/ j < i /\ j \in 1..n /\ t[j] = q[j]
        \/ j = i /\ t[j] = e
        \/ j > i /\ j - 1 \in 1..n /\ j - 1 >= i /\ t[j] = q[j - 1]
  BY <1>1, <1>2, <1>5
<1>9. \A j \in 1..(n + 1) : RegionOf(t[j].session) = r
  BY <1>3, <1>6, <1>8
<1>10. ASSUME NEW j \in 1..(n + 1), NEW k \in 1..(n + 1), t[j].session = t[k].session
       PROVE  j = k
  <2>1. j = i => k = i
    BY <1>3, <1>6, <1>8, <1>10
  <2>2. k = i => j = i
    BY <1>3, <1>6, <1>8, <1>10
  <2>3. CASE j < i /\ k < i
    BY <1>1, <1>2, <1>7, <1>8, <1>10, <2>3
  <2>4. CASE j > i /\ k > i
    <3>1. /\ j - 1 \in 1..n /\ k - 1 \in 1..n
          /\ t[j] = q[j - 1] /\ t[k] = q[k - 1]
      BY <1>1, <1>2, <1>8, <2>4
    <3>2. j - 1 = k - 1
      BY <1>7, <1>10, <3>1
    <3> QED
      BY <3>2
  <2>5. CASE j < i /\ k > i
    <3>1. j \in 1..n /\ k - 1 \in 1..n /\ k - 1 >= i /\ t[j] = q[j] /\ t[k] = q[k - 1]
      BY <1>1, <1>2, <1>8, <2>5
    <3>2. j = k - 1
      BY <1>7, <1>10, <3>1
    <3> QED
      BY <1>1, <1>2, <2>5, <3>1, <3>2
  <2>6. CASE j > i /\ k < i
    <3>1. k \in 1..n /\ j - 1 \in 1..n /\ j - 1 >= i /\ t[k] = q[k] /\ t[j] = q[j - 1]
      BY <1>1, <1>2, <1>8, <2>6
    <3>2. k = j - 1
      BY <1>7, <1>10, <3>1
    <3> QED
      BY <1>1, <1>2, <2>6, <3>1, <3>2
  <2> QED
    BY <1>1, <1>2, <2>1, <2>2, <2>3, <2>4, <2>5, <2>6
<1>11. ASSUME NEW j \in 1..(n + 1), NEW k \in 1..(n + 1), j < k
       PROVE  t[j].priority >= t[k].priority
  <2>1. CASE k < i
    BY <1>1, <1>2, <1>7, <1>8, <1>11, <2>1
  <2>2. CASE k = i
    BY <1>1, <1>2, <1>3, <1>8, <1>11, <2>2
  <2>3. CASE j = i
    <3>1. k - 1 \in 1..n /\ k - 1 >= i /\ t[k] = q[k - 1]
      BY <1>1, <1>2, <1>8, <1>11, <2>3
    <3>2. t[k].priority < p /\ t[k].priority \in Nat
      BY <1>1, <1>2, <3>1
    <3> QED
      BY <1>1, <1>2, <1>3, <1>8, <1>11, <2>3, <3>2
  <2>4. CASE j < i /\ k > i
    <3>1. j \in 1..n /\ k - 1 \in 1..n /\ k - 1 >= i /\ t[j] = q[j] /\ t[k] = q[k - 1]
      BY <1>1, <1>2, <1>8, <2>4
    <3>2. q[j].priority >= p /\ q[k - 1].priority < p
      BY <1>2, <2>4, <3>1
    <3> QED
      BY <1>1, <3>1, <3>2
  <2>5. CASE j > i
    <3>1. j - 1 \in 1..n /\ k - 1 \in 1..n /\ j - 1 < k - 1 /\ t[j] = q[j - 1] /\ t[k] = q[k - 1]
      BY <1>1, <1>2, <1>8, <1>11, <2>5
    <3> QED
      BY <1>7, <3>1
  <2> QED
    BY <1>1, <1>2, <1>11, <2>1, <2>2, <2>3, <2>4, <2>5
<1>12. ListSound(r, t)
  BY <1>5, <1>9, <1>10, <1>11 DEF ListSound
<1>13. Entries(t) = Entries(q) \cup {s}
  <2>1. \A x \in Entries(t) : x \in Entries(q) \cup {s}
    <3>1. SUFFICES ASSUME NEW j \in 1..(n + 1) PROVE t[j].session \in Entries(q) \cup {s}
      BY <1>5, Elements
    <3> QED
      BY <1>3, <1>8, Elements DEF n
  <2>2. s \in Entries(t)
    BY <1>2, <1>3, <1>5, <1>8, Elements
  <2>3. \A x \in Entries(q) : x \in Entries(t)
    <3>1. SUFFICES ASSUME NEW j \in 1..n PROVE q[j].session \in Entries(t)
      BY Elements DEF n
    <3>2. CASE j < i
      <4>1. j \in 1..(n + 1) /\ t[j] = q[j]
        BY <1>1, <1>2, <1>5, <3>2
      <4> QED
        BY <1>5, <4>1, Elements
    <3>3. CASE ~(j < i)
      <4>1. j + 1 \in 1..(n + 1) /\ t[j + 1] = q[j]
        BY <1>1, <1>2, <1>5, <3>3
      <4> QED
        BY <1>5, <4>1, Elements
    <3> QED
      BY <3>2, <3>3
  <2> QED
    BY <2>1, <2>2, <2>3
<1> QED
  BY <1>4, <1>5, <1>12, <1>13

\* The first n sessions of a list are let in, and the others' priority grows.
LEMMA FrontAdmitted ==
  ASSUME NEW r, NEW q \in Seq(Listed), ListSound(r, q), NEW n \in 0..Len(q)
  PROVE  /\ Age(SubSeq(q, n + 1, Len(q))) \in Seq(Listed)
         /\ ListSound(r, Age(SubSeq(q, n + 1, Len(q))))
         /\ Entries(Age(SubSeq(q, n + 1, Len(q)))) = Entries(q) \ FirstOf(q, n)
         /\ FirstOf(q, n) \subseteq Entries(q)
         /\ Len(Age(SubSeq(q, n + 1, Len(q)))) = Len(q) - n
<1> DEFINE u == SubSeq(q, n + 1, Len(q))
           t == Age(u)
           m == Len(q)
           grown(p) == Least(MaxPriority, p + PerTick)
<1>1. m \in Nat /\ n \in 0..m /\ \A j \in 1..m : q[j] \in Listed
  BY Elements
<1>2. /\ u \in Seq(Listed) /\ Len(u) = m - n
      /\ \A j \in 1..(m - n) : u[j] = q[j + n]
  BY RestOf
<1> HIDE DEF u, m
<1>3. \A p \in Nat : grown(p) \in Nat
  BY Numbers DEF Least
<1>4. \A p1, p2 \in Nat : p1 >= p2 => grown(p1) >= grown(p2)
  BY Numbers DEF Least
<1> HIDE DEF grown
<1>5. \A e \in Listed : /\ [e EXCEPT !.priority = grown(@)] \in Listed
                        /\ [e EXCEPT !.priority = grown(@)].session = e.session
                        /\ [e EXCEPT !.priority = grown(@)].priority = grown(e.priority)
                        /\ e.priority \in Nat
  BY <1>3 DEF Listed
<1>6. /\ t \in [1..(m - n) -> Listed] /\ DOMAIN t = 1..(m - n)
      /\ \A j \in 1..(m - n) :
           t[j].session = u[j].session /\ t[j].priority = grown(u[j].priority)
  <2>1. t = [j \in 1..(m - n) |-> [u[j] EXCEPT !.priority = grown(@)]]
    BY <1>2 DEF Age, grown
  <2>2. \A j \in 1..(m - n) : u[j] \in Listed
    BY <1>2
  <2> HIDE DEF t
  <2> QED
    BY <1>5, <2>1, <2>2
<1> HIDE DEF t
<1>7. t \in Seq(Listed) /\ Len(t) = m - n
  <2>1. m - n \in Nat
    BY <1>1
  <2> DEFINE k == m - n
  <2> HIDE DEF k
  <2>2. t = [j \in 1..k |-> t[j]] /\ \A j \in 1..k : t[j] \in Listed
    BY <1>6 DEF k
  <2>3. k \in Nat
    BY <2>1 DEF k
  <2>4. t \in Seq(Listed)
    BY <2>2, <2>3
  <2>5. DOMAIN t = 1..Len(t) /\ Len(t) \in Nat
    BY <2>4, LenProperties
  <2> QED
    BY <1>6, <2>1, <2>4, <2>5
<1> DEFINE f == [j \in 1..(m - n) |-> j + n]
<1>8. f \in [1..Len(t) -> 1..m] /\ \A j \in 1..(m - n) : f[j] = j + n
  BY <1>1, <1>7
<1> HIDE DEF f
<1>9. \A j \in 1..(m - n) : q[f[j]] \in Listed /\ t[j].session = q[f[j]].session
                            /\ t[j].priority = grown(q[f[j]].priority)
  <2>1. SUFFICES ASSUME NEW j \in 1..(m - n)
                 PROVE  /\ q[f[j]] \in Listed /\ t[j].session = q[f[j]].session
                        /\ t[j].priority = grown(q[f[j]].priority)
    OBVIOUS
  <2>2. f[j] \in 1..m /\ u[j] = q[f[j]]
    BY <1>1, <1>2, <1>8
  <2> QED
    BY <1>1, <1>6, <2>2
<1>10. ListSound(r, t)
  <2>1. \A i, j \in 1..Len(t) : i < j => f[i] < f[j]
    BY <1>1, <1>7, <1>8
  <2>2. \A i, j \in 1..Len(t) :
          q[f[i]].priority >= q[f[j]].priority => t[i].priority >= t[j].priority
    <3>1. \A j \in 1..Len(t) : q[f[j]].priority \in Nat /\ t[j].priority = grown(q[f[j]].priority)
      BY <1>5, <1>7, <1>9
    <3> QED
      BY <1>4, <3>1
  <2>3. f \in [1..Len(t) -> 1..Len(q)]
    BY <1>8 DEF m
  <2>4. \A j \in 1..Len(t) : t[j].session = q[f[j]].session
    BY <1>7, <1>9
  <2> QED
    BY <1>7, <2>1, <2>2, <2>3, <2>4, PartSound
<1>11. \A x : x \in FirstOf(q, n) <=> \E i \in 1..n : x = q[i].session
  BY DEF FirstOf
<1>12. \A i, j \in 1..m : q[i].session = q[j].session => i = j
  BY DEF ListSound, m
<1>13. \A x \in FirstOf(q, n) : x \in Entries(q)
  BY <1>1, <1>11, Elements DEF m
<1>14. \A x \in Entries(t) : x \in Entries(q) \ FirstOf(q, n)
  <2>1. SUFFICES ASSUME NEW j \in 1..(m - n) PROVE t[j].session \in Entries(q) \ FirstOf(q, n)
    BY <1>7, Elements
  <2>2. j + n \in 1..m /\ t[j].session = q[j + n].session
    BY <1>1, <1>8, <1>9
  <2>3. \A i \in 1..n : i \in 1..m /\ i # j + n
    BY <1>1
  <2> QED
    BY <1>11, <1>12, <2>2, <2>3, Elements DEF m
<1>15. \A x \in Entries(q) \ FirstOf(q, n) : x \in Entries(t)
  <2>1. SUFFICES ASSUME NEW i \in 1..m, q[i].session \notin FirstOf(q, n)
                 PROVE  q[i].session \in Entries(t)
    BY Elements DEF m
  <2>2. ~(i \in 1..n)
    BY <1>11, <2>1
  <2>3. i - n \in 1..(m - n) /\ (i - n) + n = i
    BY <1>1, <2>2
  <2>4. t[i - n].session = q[i].session
    BY <1>8, <1>9, <2>3
  <2> QED
    BY <1>7, <2>3, <2>4, Elements
<1> QED
  BY <1>7, <1>10, <1>13, <1>14, <1>15 DEF t, u, m

\* The list in order of arrival: a session is searched and erased,
LEMMA SessionRemoved ==
  ASSUME NEW q \in Seq(Session), IsInjective(q), NEW s
  PROVE  /\ RemoveFirst(q, s) \in Seq(Session)
         /\ IsInjective(RemoveFirst(q, s))
         /\ ToSet(RemoveFirst(q, s)) = ToSet(q) \ {s}
         /\ RemoveFirst(q, s) # <<>> =>
              \A i, k \in 1..Len(q) : i < k /\ q[k] = Head(RemoveFirst(q, s)) => q[i] = s
<1>1. Len(q) \in Nat /\ DOMAIN q = 1..Len(q)
  BY Elements
<1>2. \A i, j \in 1..Len(q) : q[i] = q[j] => i = j
  BY <1>1 DEF IsInjective
<1>3. CASE s \notin ToSet(q)
  <2>1. RemoveFirst(q, s) = q
    BY <1>3, Elements DEF RemoveFirst
  <2>2. ASSUME q # <<>>, NEW i \in 1..Len(q), NEW k \in 1..Len(q), i < k, q[k] = Head(q)
        PROVE  q[i] = s
    <3>1. Head(q) = q[1] /\ 1 \in 1..Len(q)
      BY <2>2
    <3> QED
      BY <1>1, <1>2, <2>2, <3>1
  <2> QED
    BY <1>3, <2>1, <2>2
<1>4. CASE s \in ToSet(q)
  <2>1. PICK i \in 1..Len(q) : q[i] = s
    BY <1>4, Elements
  <2> DEFINE I == {k \in 1..Len(q) : q[k] = s}
             p == RemoveAt(q, i)
             n == Len(q)
  <2>2. n \in Nat /\ i \in 1..n
    OBVIOUS
  <2>3. I = {i}
    BY <1>2, <2>1
  <2>4. (CHOOSE x \in I : \A y \in I : x <= y) = i
    BY <2>2, <2>3
  <2>5. SelectInSeq(q, LAMBDA v : v = s) = i
    BY <2>3, <2>4 DEF SelectInSeq, Min
  <2>6. RemoveFirst(q, s) = p
    BY <2>1, <2>5 DEF RemoveFirst
  <2>7. /\ p \in Seq(Session) /\ Len(p) = n - 1
        /\ \A j \in 1..(n - 1) : p[j] = IF j < i THEN q[j] ELSE q[j + 1]
    BY RemovedAt
  <2>8. \A j, k \in 1..n : q[j] = q[k] => j = k
    BY <1>2
  <2>9. \A j \in 1..n : j = i <=> q[j] = s
    BY <2>1, <2>8
  <2>10. DOMAIN p = 1..(n - 1)
    BY <2>7, Elements
  <2>11. p # <<>> => n - 1 # 0 /\ Head(p) = p[1]
    BY <2>2, <2>7
  <2> HIDE DEF p, n, I
  <2>12. \A j \in 1..(n - 1) : \/ j < i /\ j \in 1..n /\ p[j] = q[j]
                               \/ j >= i /\ j + 1 \in 1..n /\ p[j] = q[j + 1]
    BY <2>2, <2>7
  <2>13. IsInjective(p)
    <3>1. SUFFICES ASSUME NEW j \in 1..(n - 1), NEW k \in 1..(n - 1), p[j] = p[k]
                   PROVE  j = k
      BY <2>10 DEF IsInjective
    <3>2. CASE j < i /\ k < i
      BY <2>2, <2>8, <2>12, <3>1, <3>2
    <3>3. CASE j >= i /\ k >= i
      <4>1. j + 1 = k + 1
        BY <2>2, <2>8, <2>12, <3>1, <3>3
      <4> QED
        BY <4>1
    <3>4. CASE j < i /\ k >= i
      <4>1. j = k + 1
        BY <2>2, <2>8, <2>12, <3>1, <3>4
      <4> QED
        BY <2>2, <3>4, <4>1
    <3>5. CASE j >= i /\ k < i
      <4>1. j + 1 = k
        BY <2>2, <2>8, <2>12, <3>1, <3>5
      <4> QED
        BY <2>2, <3>5, <4>1
    <3> QED
      BY <2>2, <3>2, <3>3, <3>4, <3>5
  <2>14. \A x \in ToSet(p) : x \in ToSet(q) \ {s}
    <3>1. SUFFICES ASSUME NEW j \in 1..(n - 1) PROVE p[j] \in ToSet(q) \ {s}
      BY <2>7, Elements
    <3>2. CASE j < i
      BY <2>2, <2>9, <2>12, <3>2, Elements DEF n
    <3>3. CASE j >= i
      <4>1. j + 1 \in 1..n /\ j + 1 # i /\ p[j] = q[j + 1]
        BY <2>2, <2>12, <3>3
      <4> QED
        BY <2>9, <4>1, Elements DEF n
    <3> QED
      BY <2>2, <3>2, <3>3
  <2>15. \A x \in ToSet(q) \ {s} : x \in ToSet(p)
    <3>1. SUFFICES ASSUME NEW k \in 1..n, k # i PROVE q[k] \in ToSet(p)
      BY <2>9, Elements DEF n
    <3>2. CASE k < i
      <4>1. k \in 1..(n - 1) /\ p[k] = q[k]
        BY <2>2, <2>7, <3>2
      <4> QED
        BY <2>7, <4>1, Elements
    <3>3. CASE ~(k < i)
      <4>1. k - 1 \in 1..(n - 1) /\ ~(k - 1 < i) /\ (k - 1) + 1 = k
        BY <2>2, <3>1, <3>3
      <4>2. p[k - 1] = q[k]
        BY <2>7, <4>1
      <4> QED
        BY <2>7, <4>1, <4>2, Elements
    <3> QED
      BY <3>2, <3>3
  <2>16. ASSUME p # <<>>, NEW j \in 1..n, NEW k \in 1..n, j < k, q[k] = Head(p)
         PROVE  q[j] = s
    <3>1. 1 \in 1..(n - 1) /\ 1 \in 1..n /\ 2 \in 1..n
      BY <2>2, <2>11, <2>16
    <3>2. CASE i = 1
      <4>1. q[k] = q[2]
        BY <2>11, <2>12, <2>16, <3>1, <3>2
      <4>2. k = 2
        BY <2>8, <3>1, <4>1
      <4> QED
        BY <2>1, <2>16, <3>2, <4>2
    <3>3. CASE i # 1
      <4>1. q[k] = q[1]
        BY <2>2, <2>11, <2>12, <2>16, <3>1, <3>3
      <4>2. k = 1
        BY <2>8, <3>1, <4>1
      <4> QED
        BY <2>2, <2>16, <4>2
    <3> QED
      BY <3>2, <3>3
  <2> QED
    BY <2>6, <2>7, <2>13, <2>14, <2>15, <2>16 DEF n
<1> QED
  BY <1>3, <1>4

\* its first session is popped,
LEMMA FirstPopped ==
  ASSUME NEW q \in Seq(Session), IsInjective(q), q # <<>>
  PROVE  /\ Head(q) \in Session /\ Head(q) \in ToSet(q)
         /\ Tail(q) \in Seq(Session)
         /\ IsInjective(Tail(q))
         /\ ToSet(Tail(q)) = ToSet(q) \ {Head(q)}
         /\ Len(Tail(q)) = Len(q) - 1
<1> DEFINE p == Tail(q)
           n == Len(q)
<1>1. /\ n \in Nat \ {0} /\ p \in Seq(Session) /\ Len(p) = n - 1 /\ Head(q) = q[1]
      /\ \A i \in 1..(n - 1) : p[i] = q[i + 1]
      /\ \A i \in 1..n : q[i] \in Session
  OBVIOUS
<1>2. \A i, j \in 1..n : q[i] = q[j] => i = j
  BY Elements DEF IsInjective
<1>3. DOMAIN p = 1..(n - 1)
  BY <1>1, Elements
<1>4. q[1] \in ToSet(q)
  BY <1>1, Elements
<1> HIDE DEF p, n
<1>5. \A i \in 1..(n - 1) : i + 1 \in 1..n /\ i + 1 # 1 /\ 1 \in 1..n
  BY <1>1
<1>6. IsInjective(p)
  <2>1. \A i, j \in 1..(n - 1) : i + 1 = j + 1 => i = j
    BY <1>1
  <2> QED
    <3>1. SUFFICES ASSUME NEW i \in 1..(n - 1), NEW j \in 1..(n - 1), p[i] = p[j]
                   PROVE  i = j
      BY <1>3 DEF IsInjective
    <3>2. q[i + 1] = q[j + 1]
      BY <1>1, <3>1
    <3> QED
      BY <1>2, <1>5, <2>1, <3>2
<1>7. \A x \in ToSet(p) : x \in ToSet(q) \ {q[1]}
  <2>1. SUFFICES ASSUME NEW i \in 1..(n - 1) PROVE p[i] \in ToSet(q) \ {q[1]}
    BY <1>1, Elements
  <2> QED
    BY <1>1, <1>2, <1>5, Elements DEF n
<1>8. \A x \in ToSet(q) \ {q[1]} : x \in ToSet(p)
  <2>1. SUFFICES ASSUME NEW i \in 1..n, i # 1 PROVE q[i] \in ToSet(p)
    BY Elements DEF n
  <2>2. i - 1 \in 1..(n - 1) /\ (i - 1) + 1 = i
    BY <1>1, <2>1
  <2>3. p[i - 1] = q[i]
    BY <1>1, <2>2
  <2> QED
    BY <1>1, <2>2, <2>3, Elements
<1> QED
  BY <1>1, <1>4, <1>6, <1>7, <1>8 DEF p, n

\* and a new session is put at its end.
LEMMA SessionAppended ==
  ASSUME NEW S, NEW q \in Seq(S), IsInjective(q), NEW s \in S, s \notin ToSet(q)
  PROVE  /\ Append(q, s) \in Seq(S)
         /\ IsInjective(Append(q, s))
         /\ ToSet(Append(q, s)) = ToSet(q) \cup {s}
         /\ q \o <<s>> = Append(q, s) /\ q \o <<>> = q
<1> DEFINE p == Append(q, s)
           n == Len(q)
<1>1. /\ p \in Seq(S) /\ n \in Nat /\ Len(p) = n + 1
      /\ \A i \in 1..n : p[i] = q[i]
      /\ p[n + 1] = s
  OBVIOUS
<1>2. q \o <<s>> = Append(q, s) /\ q \o <<>> = q
  OBVIOUS
<1>3. DOMAIN p = 1..(n + 1)
  BY <1>1, Elements
<1>4. \A i, j \in 1..n : q[i] = q[j] => i = j
  BY Elements DEF IsInjective
<1>5. \A i \in 1..n : q[i] # s
  BY Elements
<1> HIDE DEF p, n
<1>6. \A i \in 1..(n + 1) : i \in 1..n \/ i = n + 1
  BY <1>1
<1>7. 1..n \subseteq 1..(n + 1) /\ n + 1 \in 1..(n + 1)
  BY <1>1
<1>8. IsInjective(p)
  BY <1>1, <1>3, <1>4, <1>5, <1>6 DEF IsInjective
<1>9. \A x : x \in ToSet(p) <=> x \in ToSet(q) \/ x = s
  <2>1. \A x : x \in ToSet(p) <=> \E i \in 1..(n + 1) : x = p[i]
    BY <1>1, Elements
  <2>2. \A x : x \in ToSet(q) <=> \E i \in 1..n : x = q[i]
    BY Elements DEF n
  <2> QED
    BY <1>1, <1>6, <1>7, <2>1, <2>2
<1> QED
  BY <1>1, <1>2, <1>8, <1>9 DEF p

\* An empty list.
LEMMA EmptyList ==
  /\ <<>> \in Seq(Listed) /\ <<>> \in Seq(Session) /\ Len(<<>>) = 0
  /\ Entries(<<>>) = {} /\ ToSet(<<>>) = {} /\ IsInjective(<<>>)
  /\ \A r : ListSound(r, <<>>)
<1>1. <<>> \in Seq(Listed) /\ <<>> \in Seq(Session) /\ Len(<<>>) = 0 /\ DOMAIN <<>> = {}
  OBVIOUS
<1>2. ToSet(<<>>) = {} /\ IsInjective(<<>>)
  BY <1>1 DEF ToSet, IsInjective
<1>3. \A r : ListSound(r, <<>>)
  BY <1>1 DEF ListSound
<1> QED
  BY <1>1, <1>2, <1>3 DEF Entries

----------------------------------------------------------------------------
(* Counting. *)

\* The counts of sets without a common element, and of what is left of a set.
LEMMA DisjointCount ==
  ASSUME NEW A, NEW B, IsFiniteSet(A), IsFiniteSet(B), A \cap B = {}
  PROVE  /\ IsFiniteSet(A \cup B) /\ Cardinality(A) \in Nat /\ Cardinality(B) \in Nat
         /\ Cardinality(A \cup B) = Cardinality(A) + Cardinality(B)
<1> DEFINE a == Cardinality(A)
           b == Cardinality(B)
           c == Cardinality(A \cup B)
           d == Cardinality(A \cap B)
<1>1. a \in Nat /\ b \in Nat /\ c = a + b - d /\ IsFiniteSet(A \cup B)
  BY FS_Union, FS_CardinalityType
<1>2. d = 0
  BY FS_EmptySet
<1> HIDE DEF a, b, c, d
<1>3. c = a + b
  BY <1>1, <1>2
<1> QED
  BY <1>1, <1>3 DEF a, b, c

\* What is left of a set, and what was taken away.
LEMMA PartCount ==
  ASSUME NEW A, NEW B, IsFiniteSet(A), B \subseteq A
  PROVE  /\ IsFiniteSet(A \ B) /\ IsFiniteSet(B)
         /\ Cardinality(A) \in Nat /\ Cardinality(B) \in Nat /\ Cardinality(A \ B) \in Nat
         /\ Cardinality(A) = Cardinality(A \ B) + Cardinality(B)
<1>1. IsFiniteSet(A \ B) /\ IsFiniteSet(B)
  BY FS_Subset
<1>2. A = (A \ B) \cup B /\ (A \ B) \cap B = {}
  OBVIOUS
<1>3. Cardinality((A \ B) \cup B) = Cardinality(A \ B) + Cardinality(B)
  BY <1>1, <1>2, DisjointCount
<1> QED
  BY <1>1, <1>2, <1>3, FS_CardinalityType

\* A list holds as many sessions as it is long.
LEMMA ListCount ==
  ASSUME NEW r, NEW q \in Seq(Listed), ListSound(r, q)
  PROVE  IsFiniteSet(Entries(q)) /\ Cardinality(Entries(q)) = Len(q)
<1> DEFINE D == 1..Len(q)
           f == [i \in D |-> q[i].session]
<1>1. Len(q) \in Nat /\ IsFiniteSet(D) /\ Cardinality(D) = Len(q)
  BY Elements, FS_Interval
<1>2. f \in [D -> Entries(q)]
  BY Elements
<1>3. f \in Surjection(D, Entries(q))
  BY <1>2, Elements DEF Surjection
<1>4. f \in Injection(D, Entries(q))
  BY <1>2 DEF Injection, IsInjective, ListSound
<1> QED
  BY <1>1, <1>3, <1>4, FS_Surjection

\* A list in order of arrival.
LEMMA SeqCount ==
  ASSUME NEW q \in Seq(Session), IsInjective(q)
  PROVE  IsFiniteSet(ToSet(q)) /\ Cardinality(ToSet(q)) = Len(q)
<1> DEFINE D == 1..Len(q)
           f == [i \in D |-> q[i]]
<1>1. Len(q) \in Nat /\ IsFiniteSet(D) /\ Cardinality(D) = Len(q)
  BY Elements, FS_Interval
<1>2. f \in [D -> ToSet(q)]
  BY Elements
<1>3. f \in Surjection(D, ToSet(q))
  BY <1>2, Elements DEF Surjection
<1>4. f \in Injection(D, ToSet(q))
  BY <1>2, Elements DEF Injection, IsInjective
<1> QED
  BY <1>1, <1>3, <1>4, FS_Surjection

\* There are as many registered sessions as accounts with one.
LEMMA AccountCount ==
  ASSUME NEW f \in [Account -> Session \cup {None}],
         \A a \in Account : f[a] # None => Acc(f[a]) = a,
         NEW A, A = {a \in Account : f[a] # None},
         NEW T, T = {f[a] : a \in A}
  PROVE  /\ IsFiniteSet(A) /\ IsFiniteSet(T) /\ T \subseteq Session
         /\ Cardinality(A) = Cardinality(T) /\ Cardinality(A) \in Nat
<1> DEFINE g == [a \in A |-> f[a]]
<1>1. IsFiniteSet(A)
  BY SessionFinite, FS_Subset
<1>2. g \in [A -> T]
  OBVIOUS
<1>3. g \in Surjection(A, T)
  BY <1>2 DEF Surjection
<1>4. g \in Injection(A, T)
  BY <1>2 DEF Injection, IsInjective
<1> QED
  BY <1>1, <1>3, <1>4, FS_Surjection, FS_CardinalityType

\* GetQueuedSessionCount() is the number of sessions in the queues.
LEMMA WaitingCount ==
  ASSUME NEW q, NEW pq, Sound(q, pq)
  PROVE  /\ IsFiniteSet(Held(q, pq)) /\ Held(q, pq) \subseteq Session
         /\ Waiting(q, pq) = Cardinality(Held(q, pq)) /\ Waiting(q, pq) \in Nat
<1>1. /\ q \in Seq(Session) /\ IsInjective(q)
      /\ pq[0] \in Seq(Listed) /\ pq[1] \in Seq(Listed)
      /\ ListSound(0, pq[0]) /\ ListSound(1, pq[1])
  BY DEF Sound, Region01
<1>2. /\ IsFiniteSet(ToSet(q)) /\ Cardinality(ToSet(q)) = Len(q) /\ Len(q) \in Nat
      /\ IsFiniteSet(Entries(pq[0])) /\ Cardinality(Entries(pq[0])) = Len(pq[0])
      /\ IsFiniteSet(Entries(pq[1])) /\ Cardinality(Entries(pq[1])) = Len(pq[1])
      /\ Len(pq[0]) \in Nat /\ Len(pq[1]) \in Nat
  BY <1>1, SeqCount, ListCount, Elements
<1>3. Entries(pq[0]) \cap Entries(pq[1]) = {}
  <2>1. SUFFICES ASSUME NEW x \in Entries(pq[0]), x \in Entries(pq[1]) PROVE FALSE
    OBVIOUS
  <2>2. RegionOf(x) = 0 /\ RegionOf(x) = 1
    BY <1>1, <2>1, Elements DEF ListSound
  <2> QED
    BY <2>2
<1>4. Held(q, pq) \subseteq Session
  <2>1. ToSet(q) \subseteq Session
    BY <1>1, Elements
  <2>2. \A e \in Listed : e.session \in Session
    BY DEF Listed
  <2>3. Entries(pq[0]) \subseteq Session /\ Entries(pq[1]) \subseteq Session
    BY <1>1, <2>2, Elements
  <2> QED
    BY <2>1, <2>3 DEF Held
<1>5. CASE PriorityMode
  <2>1. Held(q, pq) = Entries(pq[0]) \cup Entries(pq[1])
    BY <1>5, EmptyList DEF Sound, Held
  <2>2. /\ IsFiniteSet(Held(q, pq))
        /\ Cardinality(Held(q, pq)) = Cardinality(Entries(pq[0])) + Cardinality(Entries(pq[1]))
    BY <1>2, <1>3, <2>1, DisjointCount
  <2>3. Waiting(q, pq) = Cardinality(Entries(pq[0])) + Cardinality(Entries(pq[1]))
    BY <1>2, <1>5 DEF Waiting
  <2> QED
    BY <1>2, <1>4, <2>2, <2>3, FS_CardinalityType
<1>6. CASE ~PriorityMode
  <2>1. Held(q, pq) = ToSet(q)
    BY <1>6, EmptyList DEF Sound, Held, Region01
  <2> QED
    BY <1>2, <1>4, <1>6, <2>1 DEF Waiting
<1> QED
  BY <1>5, <1>6

\* Of sessions that are more than those in the queues, the others are in the world.
LEMMA OutsideCount ==
  ASSUME NEW q, NEW pq, Sound(q, pq), NEW T, T \subseteq Session, NEW W, Held(q, pq) \subseteq W,
         NEW n \in Int, Cardinality(T) - Waiting(q, pq) <= n, W \subseteq T
  PROVE  Cardinality(T \ W) <= n
<1>1. IsFiniteSet(T)
  BY SessionFinite
<1>2. /\ Cardinality(T) = Cardinality(T \ W) + Cardinality(W)
      /\ Cardinality(T \ W) \in Nat /\ Cardinality(W) \in Nat /\ IsFiniteSet(W)
  BY <1>1, PartCount
<1>3. Waiting(q, pq) <= Cardinality(W) /\ Waiting(q, pq) \in Nat
  BY <1>2, WaitingCount, FS_Subset
<1> QED
  BY <1>2, <1>3

\* The counters are naturals; after sessions passed the queue and others were
\* deleted they count the ones left; and one more session is counted once.
LEMMA RegionCounts == ASSUME NEW S, S \subseteq Session PROVE ByRegion(S) \in [Region01 -> Nat]
<1>1. \A r \in Region01 : {s \in S : RegionOf(s) = r} \subseteq Session
  OBVIOUS
<1>2. \A r \in Region01 : Cardinality({s \in S : RegionOf(s) = r}) \in Nat
  BY <1>1, SessionFinite, FS_CardinalityType
<1> QED
  BY <1>2 DEF ByRegion

\* After sessions passed the queue and others were deleted.
LEMMA CountsPassed ==
  ASSUME logged = ByRegion(passed), passed \subseteq Session,
         NEW up, up \subseteq Session \ passed, NEW down, down \cap up = {},
         NEW left, left = (passed \cup up) \ down
  PROVE  Count(up, down) = ByRegion(left)
<1>1. SUFFICES ASSUME NEW r \in Region01
               PROVE  Count(up, down)[r] = Cardinality({s \in left : RegionOf(s) = r})
  BY DEF Count, Region01, ByRegion
<1> DEFINE P == {s \in passed : RegionOf(s) = r}
           U == {s \in up : RegionOf(s) = r}
           D == {s \in down \cap passed : RegionOf(s) = r}
<1>2. P \subseteq Session /\ U \subseteq Session /\ D \subseteq Session
  OBVIOUS
<1>3. Count(up, down)[r] = Cardinality(P) + Cardinality(U) - Cardinality(D)
  BY DEF Count, Region01, ByRegion
<1>4. {s \in left : RegionOf(s) = r} = (P \cup U) \ D
  OBVIOUS
<1>5. P \cap U = {} /\ (P \cup U) \cap D = D
  OBVIOUS
<1> HIDE DEF P, U, D
<1>6. IsFiniteSet(P) /\ IsFiniteSet(U) /\ IsFiniteSet(P \cup U)
  BY <1>2, SessionFinite
<1>7. Cardinality(P \cup U) = Cardinality(P) + Cardinality(U)
  BY <1>5, <1>6, DisjointCount
<1>8. /\ Cardinality(P \cup U) = Cardinality((P \cup U) \ D) + Cardinality(D)
      /\ Cardinality((P \cup U) \ D) \in Nat /\ Cardinality(D) \in Nat
  BY <1>5, <1>6, PartCount
<1> DEFINE p == Cardinality(P)
           u == Cardinality(U)
           d == Cardinality(D)
           e == Cardinality((P \cup U) \ D)
<1>9. p \in Nat /\ u \in Nat /\ p + u = e + d /\ e \in Nat /\ d \in Nat /\ Count(up, down)[r] = p + u - d
  BY <1>3, <1>6, <1>7, <1>8, FS_CardinalityType
<1> HIDE DEF p, u, d, e
<1>10. Count(up, down)[r] = e
  BY <1>9
<1> QED
  BY <1>4, <1>10 DEF e

\* After one more session.
LEMMA OneMore ==
  ASSUME NEW S, S \subseteq Session, NEW s \in Session, s \notin S
  PROVE  [ByRegion(S) EXCEPT ![RegionOf(s)] = @ + 1] = ByRegion(S \cup {s})
<1> DEFINE T == S \cup {s}
<1>1. SUFFICES ASSUME NEW r \in Region01
               PROVE  [ByRegion(S) EXCEPT ![RegionOf(s)] = @ + 1][r] = ByRegion(T)[r]
  BY RegionCounts DEF ByRegion
<1> DEFINE A == {x \in S : RegionOf(x) = r}
           B == {x \in T : RegionOf(x) = r}
<1>2. ByRegion(S)[r] = Cardinality(A) /\ ByRegion(T)[r] = Cardinality(B)
  BY DEF ByRegion
<1>3. IsFiniteSet(A)
  <2>1. A \subseteq Session
    OBVIOUS
  <2> QED
    BY <2>1, SessionFinite
<1>4. CASE RegionOf(s) = r
  <2>1. B = A \cup {s} /\ s \notin A
    BY <1>4
  <2> HIDE DEF A, B
  <2>2. Cardinality(B) = Cardinality(A) + 1
    BY <1>3, <2>1, FS_AddElement
  <2> QED
    BY <1>2, <1>4, <2>2, RegionCounts
<1>5. CASE RegionOf(s) # r
  <2>1. B = A
    BY <1>5
  <2> QED
    BY <1>2, <1>5, <2>1, RegionCounts
<1> QED
  BY <1>4, <1>5

----------------------------------------------------------------------------
(* The queues' operations. *)

\* The queues hold sessions.
LEMMA QueuesHold ==
  ASSUME NEW q, NEW pq, Sound(q, pq)
  PROVE  /\ \A x \in Entries(pq[0]) : x \in Session /\ RegionOf(x) = 0
         /\ \A x \in Entries(pq[1]) : x \in Session /\ RegionOf(x) = 1
         /\ \A r \in Region01 : /\ pq[r] \in Seq(Listed) /\ ListSound(r, pq[r])
                                /\ Entries(pq[r]) \subseteq Held(q, pq)
         /\ q \in Seq(Session) /\ IsInjective(q)
<1>1. /\ q \in Seq(Session) /\ IsInjective(q)
      /\ \A r \in Region01 : pq[r] \in Seq(Listed) /\ ListSound(r, pq[r])
  BY DEF Sound
<1>2. \A r \in Region01 : Entries(pq[r]) \subseteq Held(q, pq)
  BY DEF Region01, Held
<1>3. ASSUME NEW r \in Region01, NEW x \in Entries(pq[r]) PROVE x \in Session /\ RegionOf(x) = r
  <2>1. PICK i \in 1..Len(pq[r]) : x = pq[r][i].session
    BY <1>1, <1>3, Elements
  <2>2. pq[r][i] \in Listed
    BY <1>1, Elements
  <2> QED
    BY <1>1, <2>1, <2>2 DEF Listed, ListSound
<1> QED
  BY <1>1, <1>2, <1>3 DEF Region01

\* RemoveQueuedSession: s leaves the queues, and if there is room the first of the
\* list in order of arrival moves up.
LEMMA RemovalEffect ==
  ASSUME Sound(queued, priorityQueue), Cardinality(Registered) \in Nat, NEW s \in Session,
         NEW out, out = Removal(s)
  PROVE  /\ Sound(out.list, out.lists)
         /\ out.next \subseteq Queued \ {s}
         /\ Held(out.list, out.lists) = Queued \ ({s} \cup out.next)
         /\ out.next # {} => Cardinality(Registered) - Waiting(out.list, out.lists) <= HardLimit
         /\ \A x \in out.next : Ahead(x) \subseteq {s}
<1> DEFINE r == RegionOf(s)
           rest == RemoveFirst(queued, s)
<1>1. r \in Region01
  BY SessionParts
<1>2. CASE PriorityMode
  <2>1. /\ out.list = queued /\ out.next = {}
        /\ out.lists = [priorityQueue EXCEPT ![r] = WithoutEntry(@, s)]
    BY <1>2 DEF Removal
  <2>2. priorityQueue \in [Region01 -> Seq(Listed)] /\ queued = <<>>
    BY <1>2 DEF Sound
  <2>3. /\ out.lists[r] = WithoutEntry(priorityQueue[r], s)
        /\ \A x \in Region01 \ {r} : out.lists[x] = priorityQueue[x]
        /\ DOMAIN out.lists = Region01
    BY <1>1, <2>1, <2>2
  <2>4. /\ WithoutEntry(priorityQueue[r], s) \in Seq(Listed)
        /\ ListSound(r, WithoutEntry(priorityQueue[r], s))
        /\ Entries(WithoutEntry(priorityQueue[r], s)) = Entries(priorityQueue[r]) \ {s}
    BY <1>1, QueuesHold, EntryRemoved
  <2>5. \A x \in Region01 : out.lists[x] \in Seq(Listed) /\ ListSound(x, out.lists[x])
    BY <2>3, <2>4, QueuesHold
  <2>6. Sound(out.list, out.lists)
    <3>1. out.lists \in [Region01 -> Seq(Listed)]
      BY <1>1, <2>1, <2>2, <2>4
    <3> QED
      BY <1>2, <2>1, <2>2, <2>5, <3>1 DEF Sound
  <2>7. \A x \in Region01 : Entries(out.lists[x]) = Entries(priorityQueue[x]) \ {s}
    <3>1. SUFFICES ASSUME NEW x \in Region01, x # r, s \in Entries(priorityQueue[x]) PROVE FALSE
      BY <2>3, <2>4
    <3>2. RegionOf(s) = x
      BY <3>1, QueuesHold DEF Region01
    <3> QED
      BY <3>1, <3>2
  <2>8. Held(out.list, out.lists) = Queued \ {s}
    <3>1. ToSet(out.list) = {} /\ ToSet(queued) = {}
      BY <2>1, <2>2, EmptyList
    <3>2. /\ Entries(out.lists[0]) = Entries(priorityQueue[0]) \ {s}
          /\ Entries(out.lists[1]) = Entries(priorityQueue[1]) \ {s}
      BY <2>7 DEF Region01
    <3> QED
      BY <3>1, <3>2 DEF Held, Queued
  <2> QED
    BY <2>1, <2>6, <2>8
<1>3. CASE ~PriorityMode
  <2> DEFINE others == IF s \notin ToSet(queued) /\ Active > 0 THEN Active - 1 ELSE Active
             moves == MovesUp(rest, others)
  <2>1. /\ out.lists = priorityQueue
        /\ out.list = IF moves THEN Tail(rest) ELSE rest
        /\ out.next = IF moves THEN {Head(rest)} ELSE {}
    BY <1>3 DEF Removal, PopFront
  <2>2. /\ queued \in Seq(Session) /\ IsInjective(queued)
        /\ priorityQueue \in [Region01 -> Seq(Listed)]
        /\ \A x \in Region01 : ListSound(x, priorityQueue[x]) /\ priorityQueue[x] = <<>>
    BY <1>3 DEF Sound
  <2>3. /\ rest \in Seq(Session) /\ IsInjective(rest) /\ ToSet(rest) = ToSet(queued) \ {s}
        /\ rest # <<>> =>
             \A i, k \in 1..Len(queued) : i < k /\ queued[k] = Head(rest) => queued[i] = s
    BY <2>2, SessionRemoved
  <2>4. Entries(priorityQueue[0]) = {} /\ Entries(priorityQueue[1]) = {}
    BY <2>2, EmptyList DEF Region01
  <2>5. Queued = ToSet(queued) /\ Held(out.list, out.lists) = ToSet(out.list)
    BY <2>1, <2>4 DEF Queued, Held
  <2>6. \A q : q \in Seq(Session) /\ IsInjective(q) => Sound(q, priorityQueue)
    BY <1>3, <2>2 DEF Sound
  <2> HIDE DEF rest
  <2>7. CASE ~moves
    BY <2>1, <2>3, <2>5, <2>6, <2>7
  <2>8. CASE moves
    <3>1. Cardinality(Registered) - Len(rest) < HardLimit /\ rest # <<>>
      BY <2>8 DEF MovesUp
    <3>2. /\ Head(rest) \in ToSet(rest) /\ Tail(rest) \in Seq(Session) /\ IsInjective(Tail(rest))
          /\ ToSet(Tail(rest)) = ToSet(rest) \ {Head(rest)}
          /\ Len(Tail(rest)) = Len(rest) - 1
      BY <2>3, <3>1, FirstPopped
    <3>3. out.list = Tail(rest) /\ out.next = {Head(rest)}
      BY <2>1, <2>8
    <3>4. Held(out.list, out.lists) = Queued \ ({s} \cup out.next)
      BY <2>3, <2>5, <3>2, <3>3
    <3>5. Waiting(out.list, out.lists) = Len(rest) - 1
      BY <1>3, <3>2, <3>3 DEF Waiting
    <3>6. Cardinality(Registered) - Waiting(out.list, out.lists) <= HardLimit
      BY <2>3, <3>1, <3>5, Numbers
    <3>7. Ahead(Head(rest)) \subseteq {s}
      <4>1. Len(queued) \in Nat
        BY <2>2
      <4>2. ASSUME NEW i \in 1..Len(queued), NEW k \in (i + 1)..Len(queued),
                   queued[k] = Head(rest)
            PROVE  queued[i] = s
        <5>1. k \in 1..Len(queued) /\ i < k
          BY <4>1
        <5> QED
          BY <2>3, <3>1, <4>2, <5>1
      <4>3. RegionOf(Head(rest)) \in Region01
        BY <2>3, <3>1, FirstPopped, SessionParts
      <4>4. Len(priorityQueue[RegionOf(Head(rest))]) = 0
        BY <2>2, <4>3, EmptyList
      <4>5. 1..Len(priorityQueue[RegionOf(Head(rest))]) = {}
        BY <4>4
      <4> QED
        BY <4>2, <4>5 DEF Ahead
    <3> QED
      BY <2>3, <2>5, <2>6, <2>1, <3>2, <3>3, <3>4, <3>6, <3>7
  <2> QED
    BY <2>7, <2>8
<1> QED
  BY <1>2, <1>3

\* A region's turn: its first sessions are accepted, if there is room.
LEMMA TurnEffect ==
  ASSUME NEW lists, Sound(queued, lists), NEW r \in Region01, NEW lim \in Nat,
         logged \in [Region01 -> Nat], Cardinality(Registered) \in Nat,
         NEW t, t = Turn(r, lists, lim)
  PROVE  /\ Sound(queued, t.lists) /\ t.limit \in Nat
         /\ t.next \subseteq Entries(lists[r])
         /\ Held(queued, t.lists) = Held(queued, lists) \ t.next
         /\ \A x \in Region01 \ {r} : t.lists[x] = lists[x]
         /\ \A i, j \in 1..Len(lists[r]) :
              i < j /\ lists[r][j].session \in t.next => lists[r][i].session \in t.next
         /\ t.next # {} =>
              /\ PriorityMode
              /\ Cardinality(Registered) - Waiting(queued, t.lists) <= HardLimit + Overshoot
<1> DEFINE raised == Least(lim, logged[0] + logged[1]) + LoginPerTick
           active == Cardinality(Registered) - Waiting(queued, lists)
           full == Full(raised, active)
           n == IF full THEN 0 ELSE Least(LoginPerTick, Len(lists[r]))
           turns == logged[r] < MaxPop[r] /\ lists[r] # <<>> /\ LoginPerTick # 0
           rest == Age(SubSeq(lists[r], n + 1, Len(lists[r])))
<1>1. /\ turns => /\ t.lists = [lists EXCEPT ![r] = rest]
                  /\ t.limit = (IF full THEN HardLimit ELSE raised)
                  /\ t.next = FirstOf(lists[r], n)
      /\ ~turns => t.lists = lists /\ t.limit = lim /\ t.next = {}
  BY DEF Turn
<1>2. raised \in Nat
  BY Numbers DEF Region01, Least
<1>3. lists[r] \in Seq(Listed) /\ ListSound(r, lists[r]) /\ Len(lists[r]) \in Nat
  BY QueuesHold, Elements
<1>4. n \in 0..Len(lists[r]) /\ n <= LoginPerTick /\ (full => n = 0)
  BY <1>3, Numbers DEF Least
<1>5. CASE ~turns
  BY <1>1, <1>5
<1>6. CASE turns
  <2>1. /\ t.lists = [lists EXCEPT ![r] = rest] /\ t.next = FirstOf(lists[r], n)
        /\ t.limit \in Nat
    BY <1>1, <1>2, <1>6, Numbers
  <2>2. PriorityMode /\ queued = <<>> /\ lists \in [Region01 -> Seq(Listed)]
    <3>1. PriorityMode
      BY <1>6, Numbers DEF Sound
    <3> QED
      BY <3>1 DEF Sound
  <2> HIDE DEF n, full, raised
  <2>3. /\ rest \in Seq(Listed) /\ ListSound(r, rest)
        /\ Entries(rest) = Entries(lists[r]) \ FirstOf(lists[r], n)
        /\ FirstOf(lists[r], n) \subseteq Entries(lists[r])
        /\ Len(rest) = Len(lists[r]) - n
    BY <1>3, <1>4, FrontAdmitted
  <2> HIDE DEF rest
  <2>4. /\ t.lists[r] = rest /\ t.lists \in [Region01 -> Seq(Listed)]
        /\ \A x \in Region01 \ {r} : t.lists[x] = lists[x]
    BY <2>1, <2>2, <2>3
  <2>5. Sound(queued, t.lists)
    <3>1. \A x \in Region01 : ListSound(x, t.lists[x])
      BY <2>3, <2>4, QueuesHold
    <3> QED
      BY <2>2, <2>4, <3>1 DEF Sound
  <2>6. \A x \in Region01 : Entries(t.lists[x]) = Entries(lists[x]) \ t.next
    <3>1. SUFFICES ASSUME NEW x \in Region01, x # r, NEW s \in t.next, s \in Entries(lists[x])
                   PROVE FALSE
      BY <2>1, <2>3, <2>4
    <3>2. RegionOf(s) = x /\ RegionOf(s) = r
      BY <2>1, <2>3, <3>1, QueuesHold DEF Region01
    <3> QED
      BY <3>1, <3>2
  <2>7. Held(queued, t.lists) = Held(queued, lists) \ t.next
    <3>1. ToSet(queued) = {}
      BY <2>2, EmptyList
    <3>2. /\ Entries(t.lists[0]) = Entries(lists[0]) \ t.next
          /\ Entries(t.lists[1]) = Entries(lists[1]) \ t.next
      BY <2>6 DEF Region01
    <3> QED
      BY <3>1, <3>2 DEF Held
  <2>8. ASSUME NEW i \in 1..Len(lists[r]), NEW j \in 1..Len(lists[r]), i < j,
               lists[r][j].session \in t.next
        PROVE  lists[r][i].session \in t.next
    <3>1. PICK k \in 1..n : lists[r][j].session = lists[r][k].session
      BY <2>1, <2>8 DEF FirstOf
    <3>2. j = k
      <4>1. k \in 1..Len(lists[r])
        BY <1>3, <1>4
      <4>2. \A x, y \in 1..Len(lists[r]) : lists[r][x].session = lists[r][y].session => x = y
        BY <1>3 DEF ListSound
      <4> QED
        BY <3>1, <4>1, <4>2
    <3>3. i \in 1..n
      BY <1>3, <1>4, <2>8, <3>2
    <3> QED
      BY <2>1, <3>3 DEF FirstOf
  <2>9. ASSUME t.next # {}
        PROVE  Cardinality(Registered) - Waiting(queued, t.lists) <= HardLimit + Overshoot
    <3>1. n # 0
      <4>1. SUFFICES ASSUME n = 0 PROVE FALSE
        OBVIOUS
      <4>2. 1..n = {}
        BY <4>1
      <4> QED
        BY <2>1, <2>9, <4>2 DEF FirstOf
    <3>2. ~full
      BY <1>4, <3>1
    <3>3. active < HardLimit
      <4>1. ~(HardLimit <= active)
        BY <3>2 DEF full, Full
      <4>2. active \in Int
        BY WaitingCount
      <4> QED
        BY <4>1, <4>2, Numbers
    <3>4. Waiting(queued, t.lists) = Waiting(queued, lists) - n
      <4>1. /\ Len(lists[0]) \in Nat /\ Len(lists[1]) \in Nat
        BY <2>2, Elements DEF Region01
      <4>2. CASE r = 0
        <5>1. Len(t.lists[0]) = Len(lists[0]) - n /\ t.lists[1] = lists[1]
          BY <2>3, <2>4, <4>2 DEF Region01
        <5>2. Waiting(queued, t.lists) = Len(lists[0]) - n + Len(lists[1])
          BY <2>2, <5>1 DEF Waiting
        <5>3. Waiting(queued, lists) = Len(lists[0]) + Len(lists[1])
          BY <2>2 DEF Waiting
        <5> QED
          BY <1>3, <1>4, <4>1, <5>2, <5>3
      <4>3. CASE r = 1
        <5>1. Len(t.lists[1]) = Len(lists[1]) - n /\ t.lists[0] = lists[0]
          BY <2>3, <2>4, <4>3 DEF Region01
        <5>2. Waiting(queued, t.lists) = Len(lists[0]) + (Len(lists[1]) - n)
          BY <2>2, <5>1 DEF Waiting
        <5>3. Waiting(queued, lists) = Len(lists[0]) + Len(lists[1])
          BY <2>2 DEF Waiting
        <5> QED
          BY <1>3, <1>4, <4>1, <5>2, <5>3
      <4> QED
        BY <4>2, <4>3 DEF Region01
    <3>5. Waiting(queued, lists) \in Nat /\ n \in Nat /\ n <= LoginPerTick
      BY <1>3, <1>4, WaitingCount
    <3>6. LoginPerTick \in Nat /\ LoginPerTick > 0
      BY <1>6, Numbers
    <3>7. Overshoot = LoginPerTick - 1
      BY <2>2, <3>6 DEF Overshoot
    <3> QED
      BY <3>3, <3>4, <3>5, <3>6, <3>7, Numbers
  <2> QED
    BY <2>1, <2>2, <2>3, <2>4, <2>5, <2>7, <2>8, <2>9
<1> QED
  BY <1>5, <1>6

----------------------------------------------------------------------------
(* The registry. *)

\* What the invariant says of the registered sessions and of the sets of sessions.
LEMMA RegistryFacts ==
  ASSUME RegistryInv
  PROVE  /\ Registered \subseteq Account /\ IsFiniteSet(Registered)
         /\ RegisteredSessions \subseteq Session /\ IsFiniteSet(RegisteredSessions)
         /\ Cardinality(Registered) = Cardinality(RegisteredSessions)
         /\ Cardinality(Registered) \in Nat
         /\ \A a \in Registered : sessions[a] \in RegisteredSessions /\ Acc(sessions[a]) = a
         /\ \A s \in RegisteredSessions : Acc(s) \in Registered /\ sessions[Acc(s)] = s
         /\ \A a \in Account : a \notin Registered <=> sessions[a] = None
         /\ ToSet(incoming) \subseteq Session /\ alive \subseteq Session
<1>1. /\ Registered \subseteq Account
      /\ \A a \in Registered : sessions[a] \in Session /\ Acc(sessions[a]) = a
      /\ \A a \in Account : a \notin Registered <=> sessions[a] = None
  BY DEF RegistryInv, Registered
<1>2. /\ \A a \in Registered : sessions[a] \in RegisteredSessions
      /\ \A s \in RegisteredSessions : \E a \in Registered : s = sessions[a]
  BY DEF RegisteredSessions
<1>3. \A s \in RegisteredSessions : Acc(s) \in Registered /\ sessions[Acc(s)] = s
  BY <1>1, <1>2
<1>4. /\ IsFiniteSet(Registered) /\ IsFiniteSet(RegisteredSessions)
      /\ RegisteredSessions \subseteq Session
      /\ Cardinality(Registered) = Cardinality(RegisteredSessions)
      /\ Cardinality(Registered) \in Nat
  <2>1. /\ sessions \in [Account -> Session \cup {None}]
        /\ \A a \in Account : sessions[a] # None => Acc(sessions[a]) = a
    BY DEF RegistryInv, Registered
  <2> QED
    BY <2>1, AccountCount DEF Registered, RegisteredSessions
<1>5. ToSet(incoming) \subseteq Session
  BY Elements DEF RegistryInv
<1>6. alive \subseteq Session
  BY <1>4, <1>5 DEF RegistryInv
<1> QED
  BY <1>1, <1>2, <1>3, <1>4, <1>5, <1>6

\* A session takes its account's place.
LEMMA Replaced ==
  ASSUME RegistryInv, NEW s \in Session, sessions' = [sessions EXCEPT ![Acc(s)] = s],
         s \notin RegisteredSessions
  PROVE  /\ sessions' \in [Account -> Session \cup {None}]
         /\ Registered' = Registered \cup {Acc(s)}
         /\ RegisteredSessions' = (RegisteredSessions \ {sessions[Acc(s)]}) \cup {s}
         /\ \A a \in Registered' : Acc(sessions'[a]) = a
<1> DEFINE a == Acc(s)
<1>1. a \in Account /\ s # None
  BY SessionParts
<1>2. /\ sessions \in [Account -> Session \cup {None}]
      /\ \A b \in Registered : Acc(sessions[b]) = b
  BY DEF RegistryInv
<1>3. /\ sessions' \in [Account -> Session \cup {None}]
      /\ sessions'[a] = s /\ \A b \in Account \ {a} : sessions'[b] = sessions[b]
  BY <1>1, <1>2
<1>4. Registered' = Registered \cup {a}
  BY <1>1, <1>3 DEF Registered
<1>5. \A b \in Registered' : Acc(sessions'[b]) = b
  BY <1>2, <1>3, <1>4, RegistryFacts
<1>6. RegisteredSessions' = {sessions'[b] : b \in Registered'}
  BY DEF RegisteredSessions
<1>7. ASSUME NEW x \in RegisteredSessions'
      PROVE  x \in (RegisteredSessions \ {sessions[a]}) \cup {s}
  <2>1. PICK b \in Registered' : x = sessions'[b]
    BY <1>6
  <2>2. CASE b = a
    BY <1>3, <2>1, <2>2
  <2>3. CASE b # a
    <3>1. b \in Registered /\ x = sessions[b] /\ Acc(x) = b
      BY <1>2, <1>3, <1>4, <2>1, <2>3, RegistryFacts
    <3>2. x # sessions[a]
      <4>1. CASE a \in Registered
        BY <1>2, <2>3, <3>1, <4>1
      <4>2. CASE a \notin Registered
        BY <1>1, <3>1, <4>2, RegistryFacts, SessionParts
      <4> QED
        BY <4>1, <4>2
    <3> QED
      BY <3>1, <3>2, RegistryFacts
  <2> QED
    BY <2>2, <2>3
<1>8. ASSUME NEW x \in (RegisteredSessions \ {sessions[a]}) \cup {s}
      PROVE  x \in RegisteredSessions'
  <2>1. CASE x = s
    BY <1>3, <1>4, <1>6, <2>1
  <2>2. CASE x \in RegisteredSessions \ {sessions[a]}
    <3>1. Acc(x) \in Registered /\ sessions[Acc(x)] = x /\ Acc(x) # a
      BY <2>2, RegistryFacts
    <3> QED
      BY <1>3, <1>4, <1>6, <3>1, RegistryFacts
  <2> QED
    BY <2>1, <2>2
<1> QED
  BY <1>3, <1>4, <1>5, <1>7, <1>8

\* A session leaves its account's place.
LEMMA Unregistered ==
  ASSUME RegistryInv, NEW s \in RegisteredSessions,
         sessions' = [sessions EXCEPT ![Acc(s)] = None]
  PROVE  /\ sessions' \in [Account -> Session \cup {None}]
         /\ Registered' = Registered \ {Acc(s)} /\ Acc(s) \in Registered
         /\ RegisteredSessions' = RegisteredSessions \ {s}
         /\ \A a \in Registered' : Acc(sessions'[a]) = a
<1> DEFINE a == Acc(s)
<1>1. a \in Account /\ a \in Registered /\ sessions[a] = s
  BY RegistryFacts
<1>2. /\ sessions \in [Account -> Session \cup {None}]
      /\ \A b \in Registered : Acc(sessions[b]) = b
  BY DEF RegistryInv
<1>3. /\ sessions' \in [Account -> Session \cup {None}]
      /\ sessions'[a] = None /\ \A b \in Account \ {a} : sessions'[b] = sessions[b]
  BY <1>1, <1>2
<1>4. Registered' = Registered \ {a}
  BY <1>1, <1>3 DEF Registered
<1>5. \A b \in Registered' : Acc(sessions'[b]) = b /\ sessions'[b] = sessions[b]
  BY <1>2, <1>3, <1>4, RegistryFacts
<1>6. RegisteredSessions' = {sessions'[b] : b \in Registered'}
  BY DEF RegisteredSessions
<1>7. ASSUME NEW x \in RegisteredSessions' PROVE x \in RegisteredSessions \ {s}
  <2>1. PICK b \in Registered' : x = sessions'[b]
    BY <1>6
  <2>2. b \in Registered /\ x = sessions[b] /\ Acc(x) = b /\ b # a
    BY <1>4, <1>5, <2>1
  <2> QED
    BY <2>2, RegistryFacts
<1>8. ASSUME NEW x \in RegisteredSessions \ {s} PROVE x \in RegisteredSessions'
  <2>1. Acc(x) \in Registered /\ sessions[Acc(x)] = x /\ Acc(x) # a
    BY <1>1, RegistryFacts
  <2> QED
    BY <1>4, <1>5, <1>6, <2>1
<1> QED
  BY <1>1, <1>3, <1>4, <1>5, <1>7, <1>8

\* The flags are those of sessions, and a waiting session has not passed the queue.
LEMMA FlagFacts ==
  ASSUME LoginInv
  PROVE  /\ closed \subseteq Session /\ passed \subseteq Session /\ hadQueue \subseteq Session
         /\ skipped \subseteq Session /\ inQueue \subseteq Session /\ todo \subseteq Session
         /\ disconnected \subseteq Session
         /\ Queued \subseteq RegisteredSessions /\ Queued \cap passed = {}
         /\ Queued = Held(queued, priorityQueue) /\ Queued \subseteq inQueue
         /\ Sound(queued, priorityQueue)
         /\ logged \in [Region01 -> Nat] /\ logged = ByRegion(passed)
         /\ inQueue = RegisteredSessions \ passed
<1>1. /\ RegisteredSessions \subseteq Session /\ disconnected \subseteq Session
  BY RegistryFacts DEF LoginInv, RegistryInv
<1>2. /\ closed \cup passed \cup hadQueue \cup skipped \subseteq RegisteredSessions \cup disconnected
      /\ inQueue = RegisteredSessions \ passed /\ Queued \subseteq inQueue
      /\ Sound(queued, priorityQueue)
  BY DEF LoginInv, FlagInv, QueuesInv
<1>3. todo \subseteq RegisteredSessions \cup disconnected
  BY DEF LoginInv, TodoInv
<1>4. logged = ByRegion(passed) /\ passed \subseteq Session
  BY <1>1, <1>2 DEF LoginInv, CountInv
<1>5. logged \in [Region01 -> Nat]
  BY <1>4, RegionCounts
<1> QED
  BY <1>1, <1>2, <1>3, <1>4, <1>5 DEF Queued, Held

----------------------------------------------------------------------------
(* A part of the invariant holds after a step that leaves alone what it is about. *)

\* The registry.
LEMMA RegistryFrame == RegistryInv /\ UNCHANGED registryVars => RegistryInv'
BY DEF RegistryInv, registryVars, Registered, RegisteredSessions

\* The queues.
LEMMA QueuesFrame == QueuesInv /\ UNCHANGED <<queueVars, inQueue, kicked>> => QueuesInv'
BY DEF QueuesInv, queueVars, Queued

\* The counts.
LEMMA CountFrame ==
  CountInv /\ UNCHANGED <<limit, logged, passed, ipCount, sessions, lastLogout>> => CountInv'
BY DEF CountInv, Registered

\* The room.
LEMMA RoomFrame == RoomInv /\ UNCHANGED <<sessions, inQueue, skipped>> => RoomInv'
BY DEF RoomInv, LimitKept, RegisteredSessions, Registered

----------------------------------------------------------------------------
(* The invariant holds initially and after each of the smaller steps. *)

\* At the start there is no session.
LEMMA InitInv == Init => LoginInv
<1> SUFFICES ASSUME Init PROVE LoginInv
  OBVIOUS
<1>1. Registered = {} /\ RegisteredSessions = {}
  BY DEF Init, Registered, RegisteredSessions
<1>2. RegistryInv
  BY <1>1, EmptyList DEF Init, RegistryInv
<1>3. TodoInv /\ FlagInv /\ KickInv
  BY <1>1 DEF Init, TodoInv, FlagInv, KickInv
<1>4. QueuesInv
  <2>1. queued = <<>> /\ priorityQueue = [r \in Region01 |-> <<>>] /\ inQueue = {}
    BY DEF Init, Region01
  <2>2. \A r \in Region01 : priorityQueue[r] = <<>>
    BY <2>1
  <2>3. Sound(queued, priorityQueue)
    BY <2>1, <2>2, EmptyList DEF Sound
  <2>4. Queued = {}
    BY <2>1, <2>2, EmptyList DEF Queued, Region01
  <2> QED
    BY <2>1, <2>3, <2>4 DEF QueuesInv
<1>5. CountInv
  <2>1. Cardinality({}) = 0
    BY FS_EmptySet
  <2>2. logged = ByRegion(passed)
    <3>1. \A r : {s \in passed : RegionOf(s) = r} = {}
      BY DEF Init
    <3> QED
      BY <2>1, <3>1 DEF Init, Region01, ByRegion
  <2>3. \A i : Cardinality(AtAddress(Registered, i)) = 0
    <3>1. \A i : AtAddress(Registered, i) = {}
      BY <1>1 DEF AtAddress
    <3> QED
      BY <2>1, <3>1
  <2>4. ipCount = [i \in Addresses |-> 0]
    BY DEF Init, Addresses
  <2>5. /\ ipCount \in [Addresses -> Nat]
        /\ \A i \in Addresses : ipCount[i] = 0
    BY <2>4
  <2>6. \A i \in Addresses :
          ipCount[i] >= Cardinality(AtAddress(Registered, i))
    BY <2>3, <2>5
  <2>7. limit \in Nat /\ lastLogout \subseteq Account
    BY Numbers DEF Init
  <2> QED
    BY <2>2, <2>5, <2>6, <2>7 DEF CountInv, Counted
<1>6. AnswerInv
  BY Numbers DEF Init, AnswerInv
<1>7. RoomInv
  <2>1. RegisteredSessions \ (inQueue \cup skipped) = {} /\ Cardinality({}) = 0
    BY <1>1, FS_EmptySet
  <2> QED
    BY <2>1, Numbers DEF RoomInv, LimitKept, Overshoot
<1> QED
  BY <1>2, <1>3, <1>4, <1>5, <1>6, <1>7 DEF LoginInv

\* A new session comes in the hand-over queue only.
LEMMA ConnectStep ==
  ASSUME LoginInv, NEW a \in Account, Connect(a)
  PROVE  LoginInv'
<1>1. PICK n \in 1..MaxSession :
        /\ <<a, n>> \notin alive
        /\ alive' = alive \cup {<<a, n>>}
        /\ incoming' = Append(incoming, <<a, n>>)
  BY DEF Connect
<1> DEFINE s == <<a, n>>
<1>2. s \in Session /\ s \notin alive
  BY <1>1 DEF Session
<1>3. UNCHANGED <<queueVars, flagVars, tickVars, logged, answers, sessions,
                  disconnected, ipCount, lastLogout>>
  BY DEF Connect
<1> HIDE DEF s
<1>4. /\ incoming \in Seq(Session) /\ IsInjective(incoming)
      /\ alive = ToSet(incoming) \cup RegisteredSessions \cup disconnected
  BY DEF LoginInv, RegistryInv
<1>5. /\ Append(incoming, s) \in Seq(Session) /\ IsInjective(Append(incoming, s))
      /\ ToSet(Append(incoming, s)) = ToSet(incoming) \cup {s}
  BY <1>2, <1>4, SessionAppended
<1>6. Registered' = Registered /\ RegisteredSessions' = RegisteredSessions
  BY <1>3 DEF Registered, RegisteredSessions
<1>7. RegistryInv'
  BY <1>1, <1>2, <1>3, <1>4, <1>5, <1>6 DEF LoginInv, RegistryInv, s
<1>8. TodoInv' /\ FlagInv' /\ AnswerInv' /\ KickInv'
  BY <1>3, <1>6 DEF LoginInv, TodoInv, FlagInv, AnswerInv, KickInv, flagVars, tickVars
<1>9. QueuesInv' /\ CountInv' /\ RoomInv'
  BY <1>3, QueuesFrame, CountFrame, RoomFrame DEF LoginInv, flagVars, tickVars, queueVars
<1> QED
  BY <1>7, <1>8, <1>9 DEF LoginInv

\* A socket that closes belongs to a registered session.
LEMMA CloseSocketStep ==
  ASSUME LoginInv, NEW s \in Session, CloseSocket(s)
  PROVE  LoginInv'
<1>1. /\ phase = "update" /\ s \in todo /\ closed' = closed \cup {s}
      /\ UNCHANGED <<queueVars, registryVars, tickVars, logged, answers, inQueue,
                     hadQueue, passed, loading, player, skipped>>
  BY DEF CloseSocket
<1>2. Registered' = Registered /\ RegisteredSessions' = RegisteredSessions
  BY <1>1 DEF Registered, RegisteredSessions, registryVars
<1>3. s \in RegisteredSessions
  BY <1>1 DEF LoginInv, TodoInv
<1>4. TodoInv' /\ FlagInv' /\ AnswerInv' /\ KickInv'
  BY <1>1, <1>2, <1>3
  DEF LoginInv, TodoInv, FlagInv, AnswerInv, KickInv, tickVars, registryVars
<1>5. RegistryInv' /\ QueuesInv' /\ CountInv' /\ RoomInv'
  BY <1>1, RegistryFrame, QueuesFrame, CountFrame, RoomFrame
  DEF LoginInv, tickVars, registryVars, queueVars
<1> QED
  BY <1>4, <1>5 DEF LoginInv

\* A refused session leaves no trace.
LEMMA RefuseStep ==
  ASSUME LoginInv, phase = "add", incoming # <<>>, incoming' = Tail(incoming),
         Refuse(Head(incoming))
  PROVE  LoginInv'
<1> DEFINE s == Head(incoming)
<1>1. /\ alive' = alive \ {s} /\ closed' = closed \ {s}
      /\ UNCHANGED <<queueVars, tickVars, logged, answers, sessions, disconnected,
                     ipCount, lastLogout, inQueue, hadQueue, passed, loading,
                     player, skipped>>
  BY DEF Refuse
<1>2. incoming \in Seq(Session) /\ IsInjective(incoming)
  BY DEF LoginInv, RegistryInv
<1>3. /\ s \in ToSet(incoming)
      /\ incoming' \in Seq(Session) /\ IsInjective(incoming')
      /\ ToSet(incoming') = ToSet(incoming) \ {s}
  BY <1>2, FirstPopped
<1>4. s \notin RegisteredSessions /\ s \notin disconnected
  BY <1>3 DEF LoginInv, RegistryInv
<1> HIDE DEF s
<1>5. Registered' = Registered /\ RegisteredSessions' = RegisteredSessions
  BY <1>1 DEF Registered, RegisteredSessions
<1>6. RegistryInv'
  BY <1>1, <1>3, <1>4, <1>5 DEF LoginInv, RegistryInv
<1>7. TodoInv' /\ FlagInv' /\ AnswerInv' /\ KickInv'
  BY <1>1, <1>4, <1>5 DEF LoginInv, TodoInv, FlagInv, AnswerInv, KickInv, tickVars
<1>8. QueuesInv' /\ CountInv' /\ RoomInv'
  BY <1>1, QueuesFrame, CountFrame, RoomFrame DEF LoginInv, tickVars, queueVars
<1> QED
  BY <1>6, <1>7, <1>8 DEF LoginInv

\* The loop over the sessions starts with all of them.
LEMMA EndAddStep ==
  ASSUME LoginInv, EndAdd
  PROVE  LoginInv'
<1>1. /\ phase = "add" /\ phase' = "update" /\ todo' = RegisteredSessions
      /\ UNCHANGED <<queueVars, registryVars, flagVars, logged, answers, stopped, kicked>>
  BY DEF EndAdd, RegisteredSessions
<1>2. Registered' = Registered /\ RegisteredSessions' = RegisteredSessions
  BY <1>1 DEF Registered, RegisteredSessions, registryVars
<1>3. TodoInv' /\ FlagInv' /\ AnswerInv' /\ KickInv'
  BY <1>1, <1>2 DEF LoginInv, TodoInv, FlagInv, AnswerInv, KickInv, flagVars, registryVars
<1>4. RegistryInv' /\ QueuesInv' /\ CountInv' /\ RoomInv'
  BY <1>1, RegistryFrame, QueuesFrame, CountFrame, RoomFrame
  DEF LoginInv, flagVars, registryVars, queueVars
<1> QED
  BY <1>3, <1>4 DEF LoginInv

\* Whoever asks for a character has passed the queue, and an answer is on its way.
LEMMA LoginOpcodeStep ==
  ASSUME LoginInv, NEW s \in Session, HandlePlayerLoginOpcode(s)
  PROVE  LoginInv'
<1>1. /\ phase = "update" /\ s \in todo /\ s \notin inQueue \cup loading \cup player
      /\ answers[Acc(s)] < MaxSession
      /\ loading' = loading \cup {s}
      /\ answers' = [answers EXCEPT ![Acc(s)] = @ + 1]
      /\ UNCHANGED <<queueVars, registryVars, tickVars, logged, closed, inQueue,
                     hadQueue, passed, player, skipped>>
  BY DEF HandlePlayerLoginOpcode
<1>2. Registered' = Registered /\ RegisteredSessions' = RegisteredSessions
  BY <1>1 DEF Registered, RegisteredSessions, registryVars
<1>3. s \in RegisteredSessions /\ s \in passed
  BY <1>1 DEF LoginInv, TodoInv, FlagInv
<1>4. AnswerInv'
  <2>1. Acc(s) \in Account /\ \A x \in loading : Acc(x) \in Account
    BY SessionParts, RegistryFacts DEF LoginInv, FlagInv
  <2>2. answers \in [Account -> 0..MaxSession] /\ \A x \in loading : answers[Acc(x)] > 0
    BY DEF LoginInv, AnswerInv
  <2>3. answers' \in [Account -> 0..MaxSession]
    BY <1>1, <2>1, <2>2, Numbers
  <2>4. \A x \in Account : answers'[x] >= answers[x]
    BY <1>1, <2>1, <2>2, Numbers
  <2>5. answers'[Acc(s)] > 0
    BY <1>1, <2>1, <2>2, Numbers
  <2>6. \A x \in loading : answers'[Acc(x)] > 0
    BY <2>1, <2>2, <2>3, <2>4, Numbers
  <2> QED
    BY <1>1, <2>3, <2>5, <2>6 DEF AnswerInv
<1>5. TodoInv' /\ FlagInv' /\ KickInv'
  BY <1>1, <1>2, <1>3 DEF LoginInv, TodoInv, FlagInv, KickInv, tickVars, registryVars
<1>6. RegistryInv' /\ QueuesInv' /\ CountInv' /\ RoomInv'
  BY <1>1, RegistryFrame, QueuesFrame, CountFrame, RoomFrame
  DEF LoginInv, tickVars, registryVars, queueVars
<1> QED
  BY <1>4, <1>5, <1>6 DEF LoginInv

\* A visited session whose socket is open has no character after KickAll().
LEMMA KeepSessionStep ==
  ASSUME LoginInv, phase = "update", NEW s \in todo, KeepSession(s)
  PROVE  LoginInv'
<1>1. /\ s \notin closed /\ player' \subseteq player /\ todo' = todo \ {s}
      /\ UNCHANGED <<queueVars, registryVars, logged, answers, closed, inQueue,
                     hadQueue, passed, loading, skipped, phase, stopped, kicked>>
  BY DEF KeepSession
<1>2. Registered' = Registered /\ RegisteredSessions' = RegisteredSessions
  BY <1>1 DEF Registered, RegisteredSessions, registryVars
<1>3. TodoInv' /\ FlagInv' /\ AnswerInv' /\ KickInv'
  BY <1>1, <1>2 DEF LoginInv, TodoInv, FlagInv, AnswerInv, KickInv, registryVars
<1>4. RegistryInv' /\ QueuesInv' /\ CountInv' /\ RoomInv'
  BY <1>1, RegistryFrame, QueuesFrame, CountFrame, RoomFrame
  DEF LoginInv, registryVars, queueVars
<1> QED
  BY <1>3, <1>4 DEF LoginInv

\* The loop over the sessions has visited those with a closed socket.
LEMMA EndUpdateStep ==
  ASSUME LoginInv, EndUpdate
  PROVE  LoginInv'
<1>1. /\ phase = "update" /\ todo = {} /\ phase' = "disconnected" /\ todo' = disconnected
      /\ UNCHANGED <<queueVars, registryVars, flagVars, logged, answers, stopped, kicked>>
  BY DEF EndUpdate
<1>2. Registered' = Registered /\ RegisteredSessions' = RegisteredSessions
  BY <1>1 DEF Registered, RegisteredSessions, registryVars
<1>3. TodoInv' /\ FlagInv' /\ AnswerInv' /\ KickInv'
  BY <1>1, <1>2 DEF LoginInv, TodoInv, FlagInv, AnswerInv, KickInv, flagVars, registryVars
<1>4. RegistryInv' /\ QueuesInv' /\ CountInv' /\ RoomInv'
  BY <1>1, RegistryFrame, QueuesFrame, CountFrame, RoomFrame
  DEF LoginInv, flagVars, registryVars, queueVars
<1> QED
  BY <1>3, <1>4 DEF LoginInv

\* A disconnected session that is deleted is no longer counted.
LEMMA DeleteDisconnectedStep ==
  ASSUME LoginInv, phase = "disconnected", NEW s \in todo, todo' = todo \ {s},
         DeleteDisconnected(s), UNCHANGED <<queueVars, answers, phase, stopped, kicked>>
  PROVE  LoginInv'
<1>1. /\ disconnected' = disconnected \ {s} /\ alive' = alive \ {s}
      /\ logged' = Count({}, {s}) /\ passed' = passed \ {s} /\ hadQueue' = hadQueue \ {s}
      /\ closed' = closed \ {s} /\ player' = player \ {s} /\ skipped' = skipped \ {s}
      /\ UNCHANGED <<sessions, incoming, ipCount, lastLogout, inQueue, loading>>
  BY DEF DeleteDisconnected
<1>2. Registered' = Registered /\ RegisteredSessions' = RegisteredSessions
  BY <1>1 DEF Registered, RegisteredSessions
<1>3. s \in disconnected /\ s \notin RegisteredSessions /\ s \notin ToSet(incoming)
  BY DEF LoginInv, TodoInv, RegistryInv
<1>4. RegistryInv'
  BY <1>1, <1>2, <1>3 DEF LoginInv, RegistryInv
<1>5. TodoInv' /\ FlagInv' /\ AnswerInv' /\ KickInv'
  BY <1>1, <1>2, <1>3 DEF LoginInv, TodoInv, FlagInv, AnswerInv, KickInv
<1>6. QueuesInv'
  BY <1>1, QueuesFrame DEF LoginInv, queueVars
<1>7. CountInv'
  <2>1. logged' = ByRegion(passed')
    <3>1. {} \subseteq Session \ passed /\ {s} \cap {} = {} /\ passed' = (passed \cup {}) \ {s}
      BY <1>1
    <3> QED
      BY <1>1, <3>1, FlagFacts, CountsPassed
  <2> QED
    BY <1>1, <1>2, <2>1 DEF LoginInv, CountInv, queueVars
<1>8. RoomInv'
  <2>1. RegisteredSessions' \ (inQueue' \cup skipped') = RegisteredSessions \ (inQueue \cup skipped)
    BY <1>1, <1>2, <1>3
  <2> QED
    BY <2>1 DEF LoginInv, RoomInv, LimitKept
<1> QED
  BY <1>4, <1>5, <1>6, <1>7, <1>8 DEF LoginInv

\* A disconnected session that stays is visited.
LEMMA KeepDisconnectedStep ==
  ASSUME LoginInv, phase = "disconnected", NEW s \in todo, todo' = todo \ {s},
         KeepDisconnected(s), UNCHANGED <<queueVars, answers, phase, stopped, kicked>>
  PROVE  LoginInv'
<1>1. UNCHANGED <<flagVars, logged, registryVars>>
  BY DEF KeepDisconnected
<1>2. Registered' = Registered /\ RegisteredSessions' = RegisteredSessions
  BY <1>1 DEF Registered, RegisteredSessions, registryVars
<1>3. TodoInv' /\ FlagInv' /\ AnswerInv' /\ KickInv'
  BY <1>1, <1>2 DEF LoginInv, TodoInv, FlagInv, AnswerInv, KickInv, flagVars, registryVars
<1>4. RegistryInv' /\ QueuesInv' /\ CountInv' /\ RoomInv'
  BY <1>1, RegistryFrame, QueuesFrame, CountFrame, RoomFrame
  DEF LoginInv, flagVars, registryVars, queueVars
<1> QED
  BY <1>3, <1>4 DEF LoginInv

\* The tick ends.
LEMMA EndUpdateDisconnectedStep ==
  ASSUME LoginInv, EndUpdateDisconnected
  PROVE  LoginInv'
<1>1. /\ phase = "disconnected" /\ todo = {} /\ phase' = IF kicked THEN "over" ELSE "idle"
      /\ UNCHANGED <<queueVars, registryVars, flagVars, logged, answers, todo, stopped, kicked>>
  BY DEF EndUpdateDisconnected
<1>2. Registered' = Registered /\ RegisteredSessions' = RegisteredSessions
  BY <1>1 DEF Registered, RegisteredSessions, registryVars
<1>3. TodoInv' /\ FlagInv' /\ AnswerInv' /\ KickInv'
  BY <1>1, <1>2 DEF LoginInv, TodoInv, FlagInv, AnswerInv, KickInv, flagVars, registryVars
<1>4. RegistryInv' /\ QueuesInv' /\ CountInv' /\ RoomInv'
  BY <1>1, RegistryFrame, QueuesFrame, CountFrame, RoomFrame
  DEF LoginInv, flagVars, registryVars, queueVars
<1> QED
  BY <1>3, <1>4 DEF LoginInv

\* The account's session gets the answer, and is no longer loading.
LEMMA LoginCallbackStep ==
  ASSUME LoginInv, NEW a \in Account, HandlePlayerLoginCallback(a)
  PROVE  LoginInv'
<1>1. /\ phase = "idle" /\ answers[a] > 0
      /\ answers' = [answers EXCEPT ![a] = @ - 1]
      /\ UNCHANGED <<queueVars, registryVars, tickVars, logged, inQueue, hadQueue,
                     passed, skipped>>
  BY DEF HandlePlayerLoginCallback
<1>2. Registered' = Registered /\ RegisteredSessions' = RegisteredSessions
  BY <1>1 DEF Registered, RegisteredSessions, registryVars
<1>3. /\ loading' \subseteq loading
      /\ \A x \in loading' : Acc(x) # a
      /\ closed' \subseteq closed \cup RegisteredSessions
      /\ player' \subseteq player \cup (loading \ loading')
  <2>1. \A x \in loading : Acc(x) = a => sessions[a] = x /\ sessions[a] # None
    <3>1. loading \subseteq RegisteredSessions
      BY DEF LoginInv, FlagInv
    <3> QED
      BY <3>1, RegistryFacts, SessionParts DEF LoginInv
  <2>2. CASE sessions[a] = None
    <3>1. UNCHANGED <<loading, closed, player>>
      BY <2>2 DEF HandlePlayerLoginCallback
    <3> QED
      BY <2>1, <2>2, <3>1
  <2>3. CASE sessions[a] # None
    <3> DEFINE s == sessions[a]
    <3>1. FinishLogin(s)
      BY <2>3 DEF HandlePlayerLoginCallback
    <3>2. s \in RegisteredSessions
      BY <2>3, RegistryFacts DEF LoginInv
    <3>3. \A x \in loading : Acc(x) = a => s = x
      BY <2>1
    <3> HIDE DEF s
    <3>4. loading' = loading \ {s}
      BY <3>1 DEF FinishLogin
    <3>5. CASE s \in player \/ s \notin loading
      BY <3>1, <3>3, <3>4, <3>5 DEF FinishLogin
    <3>6. CASE ~(s \in player \/ s \notin loading)
      <4>1. /\ closed' \subseteq closed \cup {s}
            /\ player' \subseteq player \cup {s}
        BY <3>1, <3>6 DEF FinishLogin
      <4> QED
        BY <3>2, <3>3, <3>4, <3>6, <4>1
    <3> QED
      BY <3>5, <3>6
  <2> QED
    BY <2>2, <2>3
<1>4. FlagInv'
  <2>1. closed' \subseteq RegisteredSessions \cup disconnected
    BY <1>3 DEF LoginInv, FlagInv
  <2>2. /\ loading \subseteq RegisteredSessions \cap passed /\ loading \cap player = {}
        /\ player \subseteq passed
    BY DEF LoginInv, FlagInv
  <2>3. loading' \subseteq RegisteredSessions \cap passed /\ player' \subseteq passed
    BY <1>3, <2>2
  <2>4. loading' \cap player' = {}
    BY <1>3, <2>2
  <2> QED
    BY <1>1, <1>2, <2>1, <2>3, <2>4 DEF LoginInv, FlagInv, registryVars
<1>5. AnswerInv'
  <2>1. answers \in [Account -> 0..MaxSession] /\ \A x \in loading : answers[Acc(x)] > 0
    BY DEF LoginInv, AnswerInv
  <2>2. answers' \in [Account -> 0..MaxSession] /\ \A b \in Account \ {a} : answers'[b] = answers[b]
    BY <1>1, <2>1, Numbers
  <2>3. \A x \in loading : Acc(x) \in Account
    BY SessionParts, RegistryFacts DEF LoginInv, FlagInv
  <2> QED
    BY <1>3, <2>1, <2>2, <2>3 DEF AnswerInv
<1>6. TodoInv' /\ KickInv'
  BY <1>1, <1>2 DEF LoginInv, TodoInv, KickInv, tickVars, registryVars
<1>7. RegistryInv' /\ QueuesInv' /\ CountInv' /\ RoomInv'
  BY <1>1, RegistryFrame, QueuesFrame, CountFrame, RoomFrame
  DEF LoginInv, tickVars, registryVars, queueVars
<1> QED
  BY <1>4, <1>5, <1>6, <1>7 DEF LoginInv

\* The stop flag alone changes nothing else.
LEMMA StopNowStep ==
  ASSUME LoginInv, StopNow
  PROVE  LoginInv'
<1>1. /\ ~stopped /\ stopped' = TRUE
      /\ UNCHANGED <<queueVars, registryVars, flagVars, logged, answers, phase, todo, kicked>>
  BY DEF StopNow
<1>2. Registered' = Registered /\ RegisteredSessions' = RegisteredSessions
  BY <1>1 DEF Registered, RegisteredSessions, registryVars
<1>3. TodoInv' /\ FlagInv' /\ AnswerInv' /\ KickInv'
  BY <1>1, <1>2 DEF LoginInv, TodoInv, FlagInv, AnswerInv, KickInv, flagVars, registryVars
<1>4. RegistryInv' /\ QueuesInv' /\ CountInv' /\ RoomInv'
  BY <1>1, RegistryFrame, QueuesFrame, CountFrame, RoomFrame
  DEF LoginInv, flagVars, registryVars, queueVars
<1> QED
  BY <1>3, <1>4 DEF LoginInv

\* KickAll() closes every socket and clears the queues.
LEMMA ShutdownStep ==
  ASSUME LoginInv, Shutdown
  PROVE  LoginInv'
<1>1. /\ phase = "idle" /\ stopped /\ kicked' = TRUE /\ queued' = <<>>
      /\ priorityQueue' = [r \in Region01 |-> <<>>]
      /\ closed' = closed \cup disconnected \cup RegisteredSessions
      /\ limit' = CappedLimit /\ phase' = "add"
      /\ UNCHANGED <<registryVars, logged, answers, inQueue, hadQueue, passed, loading,
                     player, skipped, todo, stopped>>
  BY DEF Shutdown, RegisteredSessions, Region01
<1>2. Registered' = Registered /\ RegisteredSessions' = RegisteredSessions
  BY <1>1 DEF Registered, RegisteredSessions, registryVars
<1>3. TodoInv' /\ FlagInv' /\ AnswerInv' /\ KickInv'
  BY <1>1, <1>2 DEF LoginInv, TodoInv, FlagInv, AnswerInv, KickInv, registryVars
<1>4. QueuesInv'
  <2>1. \A r \in Region01 : priorityQueue'[r] = <<>>
    BY <1>1
  <2>2. Sound(queued', priorityQueue')
    BY <1>1, <2>1, EmptyList DEF Sound
  <2>3. Queued' = {}
    BY <1>1, <2>1, EmptyList DEF Queued, Region01
  <2> QED
    BY <1>1, <2>2, <2>3 DEF QueuesInv
<1>5. CountInv'
  <2>1. limit' \in Nat
    BY <1>1, Numbers DEF LoginInv, CountInv, CappedLimit, Least
  <2> QED
    BY <1>1, <1>2, <2>1 DEF LoginInv, CountInv, registryVars
<1>6. RegistryInv' /\ RoomInv'
  BY <1>1, RegistryFrame, RoomFrame DEF LoginInv, registryVars
<1> QED
  BY <1>3, <1>4, <1>5, <1>6 DEF LoginInv

----------------------------------------------------------------------------
(* What the larger steps do to the counts, the room and the order. *)

\* The counts of the addresses follow an account that comes or goes.
LEMMA AddressUp ==
  ASSUME NEW A, A \subseteq Account, NEW a \in Account, NEW c, Counted(c, A),
         NEW d, d = [c EXCEPT ![Address[a]] = @ + 1], NEW B, B = A \cup {a}
  PROVE  Counted(d, B) /\ d[Address[a]] \in Nat
<1>1. Address[a] \in Addresses
  BY DEF Addresses
<1>2. c \in [Addresses -> Nat] /\ \A i \in Addresses : c[i] >= Cardinality(AtAddress(A, i))
  BY DEF Counted
<1>3. d \in [Addresses -> Nat] /\ d[Address[a]] \in Nat
  BY <1>1, <1>2
<1>4. ASSUME NEW i \in Addresses PROVE d[i] >= Cardinality(AtAddress(B, i))
  <2>1. IsFiniteSet(AtAddress(A, i)) /\ Cardinality(AtAddress(A, i)) \in Nat
    <3>1. AtAddress(A, i) \subseteq Account
      BY DEF AtAddress
    <3> QED
      BY <3>1, SessionFinite, FS_Subset, FS_CardinalityType
  <2>2. CASE Address[a] = i
    <3>1. AtAddress(B, i) = AtAddress(A, i) \cup {a}
      BY <2>2 DEF AtAddress
    <3>2. Cardinality(AtAddress(B, i)) <= Cardinality(AtAddress(A, i)) + 1
      <4>1. CASE a \in AtAddress(A, i)
        <5>1. AtAddress(B, i) = AtAddress(A, i)
          BY <3>1, <4>1
        <5> QED
          BY <2>1, <5>1
      <4>2. CASE a \notin AtAddress(A, i)
        <5>1. Cardinality(AtAddress(A, i) \cup {a}) = Cardinality(AtAddress(A, i)) + 1
          BY <2>1, <4>2, FS_AddElement
        <5>2. Cardinality(AtAddress(B, i)) = Cardinality(AtAddress(A, i)) + 1
          BY <3>1, <5>1
        <5> QED
          BY <2>1, <5>2
      <4> QED
        BY <4>1, <4>2
    <3>3. Cardinality(AtAddress(B, i)) \in Nat
      BY <2>1, <3>1, FS_AddElement, FS_CardinalityType
    <3>4. d[i] = c[i] + 1 /\ c[i] \in Nat
      BY <1>2, <2>2
    <3> QED
      BY <1>2, <2>1, <3>2, <3>3, <3>4
  <2>3. CASE Address[a] # i
    <3>1. AtAddress(B, i) = AtAddress(A, i)
      BY <2>3 DEF AtAddress
    <3> QED
      BY <1>2, <2>3, <3>1
  <2> QED
    BY <2>2, <2>3
<1> QED
  BY <1>3, <1>4 DEF Counted

\* An account that goes.
LEMMA AddressDown ==
  ASSUME NEW A, A \subseteq Account, NEW a \in A, NEW c, Counted(c, A),
         NEW d, d = [c EXCEPT ![Address[a]] = @ - 1], NEW B, B = A \ {a}
  PROVE  Counted(d, B)
<1>1. Address[a] \in Addresses
  BY DEF Addresses
<1>2. c \in [Addresses -> Nat] /\ \A i \in Addresses : c[i] >= Cardinality(AtAddress(A, i))
  BY DEF Counted
<1>3. ASSUME NEW i \in Addresses PROVE d[i] \in Nat /\ d[i] >= Cardinality(AtAddress(B, i))
  <2>1. IsFiniteSet(AtAddress(A, i)) /\ Cardinality(AtAddress(A, i)) \in Nat
    <3>1. AtAddress(A, i) \subseteq Account
      BY DEF AtAddress
    <3> QED
      BY <3>1, SessionFinite, FS_Subset, FS_CardinalityType
  <2>2. CASE Address[a] = i
    <3>1. AtAddress(B, i) = AtAddress(A, i) \ {a} /\ {a} \subseteq AtAddress(A, i)
      BY <2>2 DEF AtAddress
    <3>2. /\ Cardinality(AtAddress(A, i)) = Cardinality(AtAddress(B, i)) + Cardinality({a})
          /\ Cardinality(AtAddress(B, i)) \in Nat
      BY <2>1, <3>1, PartCount
    <3>3. Cardinality({a}) = 1
      BY FS_Singleton
    <3>4. d[i] = c[i] - 1 /\ c[i] \in Nat
      BY <1>2, <2>2
    <3> QED
      BY <1>2, <2>1, <3>2, <3>3, <3>4
  <2>3. CASE Address[a] # i
    <3>1. AtAddress(B, i) = AtAddress(A, i)
      BY <2>3 DEF AtAddress
    <3> QED
      BY <1>2, <2>3, <3>1
  <2> QED
    BY <2>2, <2>3
<1>4. d \in [Addresses -> Nat]
  BY <1>2, <1>3
<1> QED
  BY <1>3, <1>4 DEF Counted

\* Fewer accounts.
LEMMA AddressLess ==
  ASSUME NEW A, A \subseteq Account, NEW B, B \subseteq A, NEW c, Counted(c, A)
  PROVE  Counted(c, B)
<1>1. SUFFICES ASSUME NEW i \in Addresses PROVE c[i] >= Cardinality(AtAddress(B, i))
  BY DEF Counted
<1>2. AtAddress(B, i) \subseteq AtAddress(A, i) /\ AtAddress(A, i) \subseteq Account
  BY DEF AtAddress
<1>3. IsFiniteSet(AtAddress(A, i)) /\ IsFiniteSet(AtAddress(B, i))
  BY <1>2, SessionFinite, FS_Subset
<1>4. /\ Cardinality(AtAddress(B, i)) <= Cardinality(AtAddress(A, i))
      /\ Cardinality(AtAddress(A, i)) \in Nat /\ Cardinality(AtAddress(B, i)) \in Nat
  BY <1>2, <1>3, FS_Subset, FS_CardinalityType
<1>5. c[i] >= Cardinality(AtAddress(A, i)) /\ c[i] \in Nat
  BY DEF Counted
<1> QED
  BY <1>4, <1>5

\* The limit is kept if there was room among the active, or if no one comes in.
LEMMA RoomAmongActive ==
  ASSUME NEW q, NEW pq, Sound(q, pq), NEW T, T \subseteq Session,
         NEW W, Held(q, pq) \subseteq W, W \subseteq T, NEW S,
         Cardinality(T) - Waiting(q, pq) <= HardLimit + Overshoot
  PROVE  Cardinality(T \ (W \cup S)) <= HardLimit + Overshoot
<1>1. HardLimit + Overshoot \in Int
  BY Numbers DEF Overshoot
<1>2. Cardinality(T \ W) <= HardLimit + Overshoot
  BY <1>1, OutsideCount
<1>3. IsFiniteSet(T \ W) /\ T \ (W \cup S) \subseteq T \ W
  <2>1. T \ W \subseteq Session
    OBVIOUS
  <2> QED
    BY <2>1, SessionFinite
<1>4. /\ Cardinality(T \ (W \cup S)) <= Cardinality(T \ W)
      /\ Cardinality(T \ (W \cup S)) \in Nat /\ Cardinality(T \ W) \in Nat
  BY <1>3, FS_Subset, FS_CardinalityType
<1> QED
  BY <1>1, <1>2, <1>4

\* Nobody came in.
LEMMA RoomLeft ==
  ASSUME LoginInv, NEW T, T \subseteq RegisteredSessions \ (inQueue \cup skipped)
  PROVE  Cardinality(T) <= HardLimit + Overshoot
<1> DEFINE U == RegisteredSessions \ (inQueue \cup skipped)
<1>1. HardLimit + Overshoot \in Int
  BY Numbers DEF Overshoot
<1>2. IsFiniteSet(U)
  <2>1. U \subseteq Session
    BY RegistryFacts DEF LoginInv
  <2> QED
    BY <2>1, SessionFinite
<1>3. Cardinality(U) <= HardLimit + Overshoot
  BY DEF LoginInv, RoomInv, LimitKept
<1> HIDE DEF U
<1>4. /\ Cardinality(T) <= Cardinality(U) /\ Cardinality(T) \in Nat /\ Cardinality(U) \in Nat
  <2>1. T \subseteq U
    BY DEF U
  <2> QED
    BY <1>2, <2>1, FS_Subset, FS_CardinalityType
<1> QED
  BY <1>1, <1>3, <1>4

\* The sessions ahead of one in a region's list are accepted in the same turn.
LEMMA AheadInTurn ==
  ASSUME Sound(queued, priorityQueue), PriorityMode, NEW r \in Region01,
         NEW N, N \subseteq Entries(priorityQueue[r]), NEW s \in N,
         \A i, j \in 1..Len(priorityQueue[r]) :
           i < j /\ priorityQueue[r][j].session \in N => priorityQueue[r][i].session \in N
  PROVE  Ahead(s) \subseteq N
<1>1. RegionOf(s) = r
  BY QueuesHold DEF Region01
<1>2. queued = <<>>
  BY DEF Sound
<1>3. {j \in 1..Len(queued) : \E k \in (j + 1)..Len(queued) : queued[k] = s} = {}
  BY <1>2, EmptyList
<1> DEFINE q == priorityQueue[r]
<1>4. Len(q) \in Nat
  BY QueuesHold, Elements
<1>5. ASSUME NEW i \in 1..Len(q), NEW k \in (i + 1)..Len(q), q[k].session = s
      PROVE  q[i].session \in N
  <2>1. k \in 1..Len(q) /\ i < k
    BY <1>4
  <2> QED
    BY <1>5, <2>1
<1> QED
  BY <1>1, <1>3, <1>5 DEF Ahead

----------------------------------------------------------------------------
(* The larger steps.  What each does to the order in which sessions pass is *)
(* stated with it.                                                         *)

InOrder == \A s \in Queued : s \in passed' => Ahead(s) \cap Queued' = {} /\ s \notin Queued'

\* The two regions' turns one after the other.
LEMMA AcceptQueuedStep ==
  ASSUME LoginInv, AcceptQueued
  PROVE  LoginInv' /\ InOrder
<1> DEFINE first == Turn(0, priorityQueue, CappedLimit)
           second == Turn(1, first.lists, first.limit)
           next == first.next \cup second.next
<1>1. /\ phase = "idle" /\ phase' = "add"
      /\ limit' = second.limit /\ priorityQueue' = second.lists
      /\ inQueue' = inQueue \ next /\ passed' = passed \cup next
      /\ logged' = Count(next, {})
      /\ UNCHANGED <<queued, registryVars, answers, closed, hadQueue, loading,
                     player, skipped, todo, stopped, kicked>>
  BY DEF AcceptQueued
<1>2. 0 \in Region01 /\ 1 \in Region01 /\ 0 # 1 /\ \A x \in Region01 : x = 0 \/ x = 1
  BY DEF Region01
<1>3. CappedLimit \in Nat /\ Cardinality(Registered) \in Nat
  BY Numbers, RegistryFacts DEF LoginInv, CountInv, CappedLimit, Least
<1>4. /\ Sound(queued, first.lists) /\ first.limit \in Nat
      /\ first.next \subseteq Entries(priorityQueue[0])
      /\ Held(queued, first.lists) = Held(queued, priorityQueue) \ first.next
      /\ \A x \in Region01 \ {0} : first.lists[x] = priorityQueue[x]
      /\ \A i, j \in 1..Len(priorityQueue[0]) :
           i < j /\ priorityQueue[0][j].session \in first.next
             => priorityQueue[0][i].session \in first.next
      /\ first.next # {} =>
           /\ PriorityMode
           /\ Cardinality(Registered) - Waiting(queued, first.lists) <= HardLimit + Overshoot
  BY <1>2, <1>3, FlagFacts, TurnEffect
<1> HIDE DEF first
<1>5. /\ Sound(queued, second.lists) /\ second.limit \in Nat
      /\ second.next \subseteq Entries(first.lists[1])
      /\ Held(queued, second.lists) = Held(queued, first.lists) \ second.next
      /\ \A i, j \in 1..Len(first.lists[1]) :
           i < j /\ first.lists[1][j].session \in second.next
             => first.lists[1][i].session \in second.next
      /\ second.next # {} =>
           /\ PriorityMode
           /\ Cardinality(Registered) - Waiting(queued, second.lists) <= HardLimit + Overshoot
  <2>1. /\ Sound(queued, first.lists) /\ first.limit \in Nat /\ logged \in [Region01 -> Nat]
        /\ 1 \in Region01 /\ Cardinality(Registered) \in Nat
    BY <1>2, <1>3, <1>4, FlagFacts
  <2>2. second = Turn(1, first.lists, first.limit)
    OBVIOUS
  <2> HIDE DEF second, next
  <2>3. Sound(queued, second.lists) /\ second.limit \in Nat
    BY <2>1, <2>2, TurnEffect
  <2>4. /\ second.next \subseteq Entries(first.lists[1])
        /\ Held(queued, second.lists) = Held(queued, first.lists) \ second.next
    BY <2>1, <2>2, TurnEffect
  <2>5. \A i, j \in 1..Len(first.lists[1]) :
          i < j /\ first.lists[1][j].session \in second.next
            => first.lists[1][i].session \in second.next
    BY <2>1, <2>2, TurnEffect
  <2>6. second.next # {} =>
           /\ PriorityMode
           /\ Cardinality(Registered) - Waiting(queued, second.lists) <= HardLimit + Overshoot
    BY <2>1, <2>2, TurnEffect
  <2> QED
    BY <2>3, <2>4, <2>5, <2>6
<1> HIDE DEF second
<1>6. first.lists[1] = priorityQueue[1]
  BY <1>2, <1>4
<1>7. /\ next \subseteq Queued /\ Held(queued, second.lists) = Queued \ next
      /\ Queued \subseteq RegisteredSessions /\ Queued \cap passed = {}
  BY <1>4, <1>5, <1>6, FlagFacts DEF Queued
<1>8. Queued' = Queued \ next
  <2>1. Queued' = Held(queued, second.lists)
    BY <1>1 DEF Queued, Held
  <2> QED
    BY <1>7, <2>1
<1> HIDE DEF next
<1>9. Registered' = Registered /\ RegisteredSessions' = RegisteredSessions
  BY <1>1 DEF Registered, RegisteredSessions, registryVars
<1>10. TodoInv' /\ AnswerInv' /\ KickInv'
  BY <1>1, <1>9 DEF LoginInv, TodoInv, AnswerInv, KickInv, registryVars
<1>11. FlagInv'
  BY <1>1, <1>7, <1>9 DEF LoginInv, FlagInv, registryVars
<1>12. QueuesInv'
  BY <1>1, <1>5, <1>8 DEF LoginInv, QueuesInv
<1>13. CountInv'
  <2>1. logged' = ByRegion(passed')
    <3>1. /\ next \subseteq Session \ passed /\ {} \cap next = {}
          /\ passed' = (passed \cup next) \ {}
      BY <1>1, <1>7, RegistryFacts DEF LoginInv
    <3> QED
      BY <1>1, <3>1, FlagFacts, CountsPassed
  <2> QED
    BY <1>1, <1>5, <1>9, <2>1 DEF LoginInv, CountInv, registryVars
<1>14. RoomInv'
  <2>1. CASE next = {}
    <3>1. UNCHANGED <<sessions, inQueue, skipped>>
      BY <1>1, <2>1 DEF registryVars
    <3> QED
      BY <3>1, RoomFrame DEF LoginInv
  <2>2. CASE next # {}
    <3>1. Cardinality(Registered) - Waiting(queued, second.lists) <= HardLimit + Overshoot
      <4>1. CASE second.next # {}
        BY <1>5, <4>1
      <4>2. CASE second.next = {}
        <5>1. Held(queued, second.lists) = Held(queued, first.lists) /\ first.next # {}
          BY <1>5, <2>2, <4>2 DEF next
        <5>2. /\ Waiting(queued, second.lists) = Cardinality(Held(queued, second.lists))
              /\ Waiting(queued, first.lists) = Cardinality(Held(queued, first.lists))
          BY <1>4, <1>5, WaitingCount
        <5> QED
          BY <1>4, <4>2, <5>1, <5>2
      <4> QED
        BY <4>1, <4>2
    <3>2. /\ Held(queued, second.lists) \subseteq inQueue' /\ inQueue' \subseteq RegisteredSessions
          /\ RegisteredSessions \subseteq Session
          /\ Cardinality(Registered) = Cardinality(RegisteredSessions)
      BY <1>1, <1>7, FlagFacts, RegistryFacts DEF LoginInv, FlagInv
    <3>3. Cardinality(RegisteredSessions \ (inQueue' \cup skipped')) <= HardLimit + Overshoot
      BY <1>5, <3>1, <3>2, RoomAmongActive
    <3>4. Overshoot' = Overshoot
      BY DEF Overshoot
    <3> QED
      BY <1>9, <3>3, <3>4 DEF RoomInv, LimitKept
  <2> QED
    BY <2>1, <2>2
<1>15. InOrder
  <2>1. SUFFICES ASSUME NEW s \in Queued, s \in passed'
                 PROVE  Ahead(s) \cap Queued' = {} /\ s \notin Queued'
    BY DEF InOrder
  <2>2. s \in next
    BY <1>1, <1>7, <2>1
  <2>3. Ahead(s) \subseteq next
    <3>1. Sound(queued, priorityQueue)
      BY FlagFacts
    <3>2. CASE s \in first.next
      <4>1. Ahead(s) \subseteq first.next
        BY <1>2, <1>4, <3>1, <3>2, AheadInTurn
      <4> QED
        BY <4>1 DEF next
    <3>3. CASE s \in second.next
      <4>1. Ahead(s) \subseteq second.next
        BY <1>2, <1>5, <1>6, <3>1, <3>3, AheadInTurn
      <4> QED
        BY <4>1 DEF next
    <3> QED
      BY <2>2, <3>2, <3>3 DEF next
  <2> QED
    BY <1>8, <2>2, <2>3
<1>16. RegistryInv'
  BY <1>1, RegistryFrame DEF LoginInv, registryVars
<1> QED
  BY <1>10, <1>11, <1>12, <1>13, <1>14, <1>15, <1>16 DEF LoginInv

\* A session leaves the queue and the registry, and another one may move up.
LEMMA DeleteSessionStep ==
  ASSUME LoginInv, phase = "update", NEW s \in todo, DeleteSession(s)
  PROVE  LoginInv' /\ InOrder
<1> DEFINE out == Removal(s)
<1>1. /\ queued' = out.list /\ priorityQueue' = out.lists
      /\ sessions' = [sessions EXCEPT ![Acc(s)] = None]
      /\ ipCount' = [ipCount EXCEPT ![Address[Acc(s)]] = @ - 1]
      /\ alive' = alive \ {s} /\ logged' = Count(out.next, {s})
      /\ passed' = (passed \cup out.next) \ {s}
      /\ inQueue' = inQueue \ (out.next \cup {s}) /\ hadQueue' = hadQueue \ {s}
      /\ closed' = closed \ {s} /\ loading' = loading \ {s} /\ player' = player \ {s}
      /\ skipped' = skipped \ {s} /\ todo' = todo \ {s}
      /\ UNCHANGED <<limit, disconnected, incoming, answers, phase, stopped, kicked>>
  BY DEF DeleteSession
<1>2. lastLogout' \subseteq Account
  <2>1. lastLogout' \subseteq lastLogout \cup {Acc(x) : x \in {s}}
    BY DEF DeleteSession, LastLogout
  <2>2. Acc(s) \in Account /\ lastLogout \subseteq Account
    BY FlagFacts, SessionParts DEF LoginInv, CountInv
  <2> QED
    BY <2>1, <2>2
<1>3. s \in RegisteredSessions /\ s \in Session
  BY RegistryFacts DEF LoginInv, TodoInv
<1>4. /\ Sound(out.list, out.lists)
      /\ out.next \subseteq Queued \ {s}
      /\ Held(out.list, out.lists) = Queued \ ({s} \cup out.next)
      /\ out.next # {} => Cardinality(Registered) - Waiting(out.list, out.lists) <= HardLimit
      /\ \A x \in out.next : Ahead(x) \subseteq {s}
  BY <1>3, FlagFacts, RegistryFacts, RemovalEffect DEF LoginInv
<1> DEFINE next == out.next
           list == out.list
           lists == out.lists
<1> HIDE DEF next, list, lists, out
<1>5. /\ sessions' \in [Account -> Session \cup {None}]
      /\ Registered' = Registered \ {Acc(s)} /\ Acc(s) \in Registered
      /\ RegisteredSessions' = RegisteredSessions \ {s}
      /\ \A a \in Registered' : Acc(sessions'[a]) = a
  BY <1>1, <1>3, Unregistered DEF LoginInv
<1>6. s \notin ToSet(incoming) /\ s \notin disconnected
  BY <1>3 DEF LoginInv, RegistryInv
<1>7. RegistryInv'
  BY <1>1, <1>5, <1>6 DEF LoginInv, RegistryInv
<1>8. TodoInv' /\ AnswerInv' /\ KickInv'
  BY <1>1, <1>5 DEF LoginInv, TodoInv, AnswerInv, KickInv
<1>9. /\ next \subseteq Queued \ {s} /\ Queued \subseteq RegisteredSessions /\ Queued \cap passed = {}
      /\ Queued' = Queued \ ({s} \cup next) /\ Queued \subseteq inQueue
  <2>1. Queued' = Held(out.list, out.lists)
    BY <1>1 DEF Queued, Held
  <2> QED
    BY <1>4, <2>1, FlagFacts DEF next
<1>10. FlagInv'
  <2>1. FlagInv /\ passed' = (passed \cup next) \ {s} /\ inQueue' = inQueue \ (next \cup {s})
    BY <1>1 DEF LoginInv, next
  <2> QED
    BY <1>1, <1>5, <1>9, <2>1 DEF FlagInv
<1>11. QueuesInv'
  BY <1>1, <1>4, <1>9 DEF LoginInv, QueuesInv, next
<1>12. CountInv'
  <2>1. logged' = ByRegion(passed')
    <3>1. /\ next \subseteq Session \ passed /\ {s} \cap next = {}
          /\ passed' = (passed \cup next) \ {s}
      BY <1>1, <1>9, RegistryFacts DEF LoginInv, next
    <3>2. logged' = Count(next, {s})
      BY <1>1 DEF next
    <3> QED
      BY <3>1, <3>2, FlagFacts, CountsPassed
  <2>2. Counted(ipCount', Registered')
    <3>1. Counted(ipCount, Registered)
      BY DEF LoginInv, CountInv
    <3>2. Registered \subseteq Account
      BY RegistryFacts DEF LoginInv
    <3> QED
      BY <1>1, <1>5, <3>1, <3>2, AddressDown
  <2>3. limit' \in Nat
    BY <1>1 DEF LoginInv, CountInv
  <2> QED
    BY <1>2, <2>1, <2>2, <2>3 DEF CountInv
<1>13. RoomInv'
  <2>1. Cardinality(RegisteredSessions' \ (inQueue' \cup skipped')) <= HardLimit + Overshoot
    <3>1. CASE next = {}
      <4>1. RegisteredSessions' \ (inQueue' \cup skipped') \subseteq RegisteredSessions \ (inQueue \cup skipped)
        BY <1>1, <1>5, <3>1 DEF next
      <4> QED
        BY <4>1, RoomLeft
    <3>2. CASE next # {}
      <4>1. /\ IsFiniteSet(RegisteredSessions) /\ RegisteredSessions \subseteq Session
            /\ Cardinality(Registered) = Cardinality(RegisteredSessions)
            /\ Cardinality(Registered) \in Nat
        BY RegistryFacts DEF LoginInv
      <4>2. /\ Cardinality(RegisteredSessions') <= Cardinality(RegisteredSessions)
            /\ Cardinality(RegisteredSessions') \in Nat
        BY <1>5, <4>1, FS_Subset, FS_CardinalityType
      <4>3. Cardinality(RegisteredSessions') - Waiting(out.list, out.lists) <= HardLimit + Overshoot
        <5>1. Waiting(out.list, out.lists) \in Nat
          BY <1>4, WaitingCount
        <5>2. Overshoot \in Nat
          BY Numbers DEF Overshoot
        <5>3. Cardinality(Registered) - Waiting(out.list, out.lists) <= HardLimit
          BY <1>4, <3>2 DEF next
        <5> QED
          BY <4>1, <4>2, <5>1, <5>2, <5>3, Numbers
      <4>4. Held(out.list, out.lists) \subseteq inQueue' /\ inQueue' \subseteq RegisteredSessions'
        BY <1>1, <1>4, <1>5, <1>9, FlagFacts DEF next
      <4>5. RegisteredSessions' \subseteq Session
        BY <1>5, <4>1
      <4> QED
        BY <1>4, <4>3, <4>4, <4>5, RoomAmongActive
    <3> QED
      BY <3>1, <3>2
  <2> QED
    BY <2>1 DEF RoomInv, LimitKept, Overshoot
<1>14. InOrder
  <2>1. SUFFICES ASSUME NEW x \in Queued, x \in passed'
                 PROVE  Ahead(x) \cap Queued' = {} /\ x \notin Queued'
    BY DEF InOrder
  <2>2. x \in next
    BY <1>1, <1>9, <2>1 DEF next
  <2>3. Ahead(x) \subseteq {s}
    BY <1>4, <2>2 DEF next
  <2> QED
    BY <1>9, <2>2, <2>3
<1> QED
  BY <1>7, <1>8, <1>10, <1>11, <1>12, <1>13, <1>14 DEF LoginInv

\* A session moves from the registry to the disconnected ones, not after the stop.
LEMMA SetSessionDisconnectedStep ==
  ASSUME LoginInv, phase = "update", NEW s \in todo, SetSessionDisconnected(s)
  PROVE  LoginInv'
<1>1. /\ s \in closed /\ s \in player /\ ~stopped
      /\ sessions' = [sessions EXCEPT ![Acc(s)] = None]
      /\ disconnected' = disconnected \cup {s}
      /\ todo' \subseteq todo \ {s}
      /\ UNCHANGED <<queueVars, flagVars, logged, answers, incoming, alive, ipCount,
                     phase, stopped, kicked>>
  BY DEF SetSessionDisconnected, ForcePlayerLogoutDelay
<1>2. lastLogout' \subseteq Account
  <2>1. lastLogout' \subseteq lastLogout \cup {Acc(x) : x \in {s}}
    BY DEF SetSessionDisconnected, LastLogout
  <2>2. Acc(s) \in Account /\ lastLogout \subseteq Account
    BY FlagFacts, SessionParts DEF LoginInv, CountInv
  <2> QED
    BY <2>1, <2>2
<1>3. s \in RegisteredSessions /\ s \in Session /\ s \in passed /\ s \notin loading
  BY <1>1, RegistryFacts DEF LoginInv, TodoInv, FlagInv
<1>4. /\ sessions' \in [Account -> Session \cup {None}]
      /\ Registered' = Registered \ {Acc(s)}
      /\ RegisteredSessions' = RegisteredSessions \ {s}
      /\ \A a \in Registered' : Acc(sessions'[a]) = a
  BY <1>1, <1>3, Unregistered DEF LoginInv
<1>5. s \notin ToSet(incoming) /\ s \notin disconnected
  BY <1>3 DEF LoginInv, RegistryInv
<1>6. RegistryInv'
  BY <1>1, <1>3, <1>4, <1>5 DEF LoginInv, RegistryInv
<1>7. AnswerInv' /\ FlagInv'
  BY <1>1, <1>3, <1>4 DEF LoginInv, FlagInv, AnswerInv, flagVars
<1>8. TodoInv' /\ KickInv'
  <2>1. TodoInv'
    BY <1>1, <1>4 DEF LoginInv, TodoInv
  <2>2. ~kicked
    BY <1>1 DEF LoginInv, KickInv
  <2>3. KickInv'
    BY <1>1, <2>2 DEF LoginInv, KickInv
  <2> QED
    BY <2>1, <2>3
<1>9. QueuesInv'
  BY <1>1, QueuesFrame DEF LoginInv, flagVars
<1>10. CountInv'
  <2>1. Counted(ipCount, Registered')
    <3>1. Registered \subseteq Account /\ Registered' \subseteq Registered
      BY <1>4, RegistryFacts DEF LoginInv
    <3>2. Counted(ipCount, Registered)
      BY DEF LoginInv, CountInv
    <3> QED
      BY <3>1, <3>2, AddressLess
  <2>2. limit' \in Nat /\ logged' = ByRegion(passed') /\ ipCount' = ipCount
    BY <1>1 DEF LoginInv, CountInv, queueVars, flagVars
  <2> QED
    BY <1>2, <2>1, <2>2 DEF CountInv
<1>11. RoomInv'
  <2>1. RegisteredSessions' \ (inQueue' \cup skipped') \subseteq RegisteredSessions \ (inQueue \cup skipped)
    BY <1>1, <1>4 DEF flagVars
  <2> QED
    BY <2>1, RoomLeft DEF RoomInv, LimitKept, Overshoot
<1> QED
  BY <1>6, <1>7, <1>8, <1>9, <1>10, <1>11 DEF LoginInv

\* AddSession_'s use of RemoveQueuedSession: nothing happens without an old session.
LEMMA OldRemoved ==
  ASSUME LoginInv, NEW a \in Account, NEW out,
         out = IF sessions[a] = None THEN NoRemoval ELSE Removal(sessions[a])
  PROVE  /\ Sound(out.list, out.lists)
         /\ out.next \subseteq Queued \ {sessions[a]}
         /\ Held(out.list, out.lists) = Queued \ ({sessions[a]} \cup out.next)
         /\ out.next # {} =>
              Cardinality(Registered) - Waiting(out.list, out.lists) <= HardLimit /\ a \in Registered
         /\ \A x \in out.next : Ahead(x) \subseteq {sessions[a]}
<1>1. Sound(queued, priorityQueue) /\ Queued = Held(queued, priorityQueue) /\ Queued \subseteq Session
  BY FlagFacts, RegistryFacts DEF LoginInv
<1>2. CASE sessions[a] = None
  <2>1. out.list = queued /\ out.lists = priorityQueue /\ out.next = {}
    BY <1>2 DEF NoRemoval
  <2>2. None \notin Queued
    BY <1>1, SessionParts
  <2> QED
    BY <1>1, <1>2, <2>1, <2>2
<1>3. CASE sessions[a] # None
  <2>1. out = Removal(sessions[a])
    BY <1>3
  <2>2. a \in Registered /\ sessions[a] \in Session /\ Cardinality(Registered) \in Nat
    BY <1>3, RegistryFacts DEF LoginInv
  <2>3. /\ Sound(out.list, out.lists)
        /\ out.next \subseteq Queued \ {sessions[a]}
        /\ Held(out.list, out.lists) = Queued \ ({sessions[a]} \cup out.next)
    BY <1>1, <2>1, <2>2, RemovalEffect
  <2>4. out.next # {} => Cardinality(Registered) - Waiting(out.list, out.lists) <= HardLimit
    BY <1>1, <2>1, <2>2, RemovalEffect
  <2>5. \A x \in out.next : Ahead(x) \subseteq {sessions[a]}
    BY <1>1, <2>1, <2>2, RemovalEffect
  <2> QED
    BY <2>2, <2>3, <2>4, <2>5
<1> QED
  BY <1>2, <1>3

\* A session that waits comes into the queue of the mode.
WithEntry(lists, p, s) == [lists EXCEPT ![RegionOf(s)] = Insert(@, p, s)]

\* A session that waits in its region's list.
LEMMA EnqueuedByPriority ==
  ASSUME PriorityMode, NEW list, NEW lists, Sound(list, lists),
         NEW s \in Session, s \notin Held(list, lists), NEW p \in Nat
  PROVE  /\ Sound(list, WithEntry(lists, p, s))
         /\ \A x : x \in Held(list, WithEntry(lists, p, s)) <=> x \in Held(list, lists) \/ x = s
<1> DEFINE r == RegionOf(s)
           pq == WithEntry(lists, p, s)
<1>1. /\ list = <<>> /\ list \in Seq(Session) /\ IsInjective(list)
      /\ lists \in [Region01 -> Seq(Listed)] /\ \A x \in Region01 : ListSound(x, lists[x])
  BY DEF Sound
<1>2. r \in Region01
  BY SessionParts
<1>3. s \notin Entries(lists[r])
  BY <1>2, QueuesHold
<1>4. /\ Insert(lists[r], p, s) \in Seq(Listed)
      /\ ListSound(r, Insert(lists[r], p, s))
      /\ Entries(Insert(lists[r], p, s)) = Entries(lists[r]) \cup {s}
  BY <1>1, <1>2, <1>3, EntryInserted
<1>5. /\ pq \in [Region01 -> Seq(Listed)] /\ pq[r] = Insert(lists[r], p, s)
      /\ \A x \in Region01 \ {r} : pq[x] = lists[x]
  BY <1>1, <1>2, <1>4 DEF WithEntry
<1> HIDE DEF pq
<1>6. \A x \in Region01 : ListSound(x, pq[x])
  BY <1>1, <1>4, <1>5
<1>7. Sound(list, pq)
  BY <1>1, <1>5, <1>6 DEF Sound
<1>8. Held(list, pq) = Held(list, lists) \cup {s}
  <2>1. CASE r = 0
    <3>1. Entries(pq[0]) = Entries(lists[0]) \cup {s} /\ pq[1] = lists[1]
      BY <1>4, <1>5, <2>1 DEF Region01
    <3> QED
      BY <3>1 DEF Held
  <2>2. CASE r = 1
    <3>1. Entries(pq[1]) = Entries(lists[1]) \cup {s} /\ pq[0] = lists[0]
      BY <1>4, <1>5, <2>2 DEF Region01
    <3> QED
      BY <3>1 DEF Held
  <2> QED
    BY <1>2, <2>1, <2>2 DEF Region01
<1> QED
  BY <1>7, <1>8 DEF pq

\* A session that waits in order of arrival.
LEMMA EnqueuedLast ==
  ASSUME ~PriorityMode, NEW list, NEW lists, Sound(list, lists),
         NEW s \in Session, s \notin Held(list, lists), NEW q, q = list \o <<s>>
  PROVE  Sound(q, lists) /\ \A x : x \in Held(q, lists) <=> x \in Held(list, lists) \/ x = s
<1>1. /\ list \in Seq(Session) /\ IsInjective(list)
      /\ lists \in [Region01 -> Seq(Listed)] /\ \A x \in Region01 : ListSound(x, lists[x])
      /\ \A x \in Region01 : lists[x] = <<>>
  BY DEF Sound
<1>2. s \notin ToSet(list)
  BY DEF Held
<1>3. /\ q \in Seq(Session) /\ IsInjective(q) /\ ToSet(q) = ToSet(list) \cup {s}
  <2>1. list \o <<s>> = Append(list, s)
    BY <1>1, <1>2, SessionAppended
  <2>2. /\ Append(list, s) \in Seq(Session) /\ IsInjective(Append(list, s))
        /\ ToSet(Append(list, s)) = ToSet(list) \cup {s}
    BY <1>1, <1>2, SessionAppended
  <2> QED
    BY <2>1, <2>2
<1>4. Sound(q, lists)
  BY <1>1, <1>3 DEF Sound
<1>5. Held(q, lists) = Held(list, lists) \cup {s}
  BY <1>3 DEF Held
<1> QED
  BY <1>4, <1>5

\* A session's priority is a natural number.
LEMMA PriorityNat == \A a \in Account : \A n \in Nat : QueuePriority(a, n) \in Nat
<1> SUFFICES ASSUME NEW a \in Account, NEW n \in Nat PROVE QueuePriority(a, n) \in Nat
  OBVIOUS
<1>1. Priority[a] \in Nat /\ IpPenalty \in Nat
  BY Numbers
<1> QED
  BY <1>1 DEF QueuePriority

\* AddSession_ for the head s of the queue of new sessions: old is the session that
\* leaves its place, next the ones that move up; it stays among the disconnected
\* ones (kept) or is deleted (gone).
LEMMA RegisterStep ==
  ASSUME LoginInv, phase = "add", incoming # <<>>, incoming' = Tail(incoming),
         NEW s, s = Head(incoming), NEW stays \in BOOLEAN, NEW inTime \in BOOLEAN,
         Register(s, stays, inTime)
  PROVE  LoginInv' /\ InOrder /\ (stopped => disconnected' \subseteq disconnected)
<1> DEFINE a == Acc(s)
           r == Region[a]
           old == sessions[a]
           out == IF old = None THEN NoRemoval ELSE Removal(old)
           kept == IF stays THEN {old} ELSE {}
           gone == {old} \ (kept \cup {None})
           count == Count(out.next, gone)
           active == Cardinality(Registered \cup {a}) - Waiting(out.list, out.lists)
           full == count[r] >= MaxPop[r] \/ active >= HardLimit
           skips == a \in Trusted \/ (a \in lastLogout' /\ inTime)
           waits == full /\ ~skips
           p == QueuePriority(a, ipCount'[Address[a]])
           next == out.next
           list == out.list
           lists == out.lists
           entering == IF waits THEN {} ELSE {s}
           waiting == IF waits THEN {s} ELSE {}
           skipping == IF full /\ skips THEN {s} ELSE {}
<1>1. /\ old \notin loading
      /\ stays => old \in player /\ ~stopped
      /\ lastLogout' = LastLogout(kept)
      /\ sessions' = [sessions EXCEPT ![a] = s]
      /\ disconnected' = disconnected \cup kept
      /\ ipCount' = [ipCount EXCEPT ![Address[a]] = @ + 1]
      /\ alive' = alive \ gone
      /\ queued' = list \o IF waits /\ ~PriorityMode THEN <<s>> ELSE <<>>
      /\ priorityQueue' =
           IF waits /\ PriorityMode THEN [lists EXCEPT ![r] = Insert(@, p, s)] ELSE lists
      /\ inQueue' = (inQueue \ (next \cup gone)) \cup waiting
      /\ hadQueue' = (hadQueue \ gone) \cup waiting
      /\ passed' = ((passed \ gone) \cup next) \cup entering
      /\ logged' = IF waits THEN count ELSE [count EXCEPT ![r] = @ + 1]
      /\ closed' = (closed \ gone) \cup kept
      /\ player' = player \ gone
      /\ skipped' = (skipped \ gone) \cup skipping
      /\ UNCHANGED <<limit, loading, answers, tickVars>>
  BY DEF Register, ForcePlayerLogoutDelay
<1>2. waits \in BOOLEAN /\ (~waits /\ skipping = {} => active < HardLimit)
  <2>1. ~waits /\ skipping = {} => ~full
    OBVIOUS
  <2>2. ~full => ~(active >= HardLimit)
    OBVIOUS
  <2>3. waits \in BOOLEAN
    OBVIOUS
  <2> HIDE DEF active, full, skips, waits
  <2>4. active \in Int
    <3>1. Sound(out.list, out.lists)
      <4>1. Acc(s) \in Account
        BY FirstPopped, SessionParts DEF LoginInv, RegistryInv
      <4> QED
        BY <4>1, OldRemoved
    <3>2. Waiting(out.list, out.lists) \in Nat
      BY <3>1, WaitingCount
    <3>3. Cardinality(Registered \cup {a}) \in Nat
      BY RegistryFacts, FS_AddElement, FS_CardinalityType DEF LoginInv
    <3> QED
      BY <3>2, <3>3 DEF active
  <2> QED
    BY <2>1, <2>2, <2>3, <2>4, Numbers
<1>3. /\ s \in Session /\ a \in Account /\ r = RegionOf(s) /\ r \in Region01
      /\ s \in ToSet(incoming) /\ s \notin RegisteredSessions /\ s \notin disconnected
      /\ incoming' \in Seq(Session) /\ IsInjective(incoming')
      /\ ToSet(incoming') = ToSet(incoming) \ {s}
  <2>1. incoming \in Seq(Session) /\ IsInjective(incoming)
    BY DEF LoginInv, RegistryInv
  <2>2. /\ s \in Session /\ s \in ToSet(incoming)
        /\ incoming' \in Seq(Session) /\ IsInjective(incoming')
        /\ ToSet(incoming') = ToSet(incoming) \ {s}
    BY <2>1, FirstPopped
  <2> QED
    BY <2>2, SessionParts DEF LoginInv, RegistryInv
<1>4. /\ Sound(list, lists)
      /\ next \subseteq Queued \ {old}
      /\ Held(list, lists) = Queued \ ({old} \cup next)
      /\ next # {} =>
           Cardinality(Registered) - Waiting(list, lists) <= HardLimit /\ a \in Registered
      /\ \A x \in next : Ahead(x) \subseteq {old}
  BY <1>3, OldRemoved
<1>5. active = Cardinality(Registered \cup {a}) - Waiting(list, lists)
  OBVIOUS
<1>6. count = Count(next, gone)
  OBVIOUS
<1>7. skipping \subseteq {s} /\ entering = {s} \ waiting /\ (waits => waiting = {s} /\ entering = {})
      /\ (~waits => waiting = {} /\ entering = {s})
  OBVIOUS
<1> HIDE DEF out, count, active, full, skips, waits, p, next, list, lists,
             entering, waiting, skipping, r
<1>8. /\ old = None \/ old \in RegisteredSessions
      /\ kept \subseteq RegisteredSessions \cap player
      /\ gone \subseteq RegisteredSessions
      /\ kept \cup gone = {old} \ {None} /\ kept \cap gone = {}
      /\ None \notin RegisteredSessions /\ None \notin disconnected /\ None \notin player
      /\ old \notin disconnected /\ old \notin ToSet(incoming) /\ old # s
      /\ None \notin Queued /\ None \notin passed /\ None \notin inQueue /\ None \notin ToSet(incoming)
  <2>1. old = None \/ old \in RegisteredSessions
    BY <1>3, RegistryFacts DEF LoginInv
  <2>2. /\ None \notin RegisteredSessions /\ None \notin disconnected /\ None \notin player
        /\ None \notin Queued /\ None \notin passed /\ None \notin inQueue
        /\ None \notin ToSet(incoming)
    BY SessionParts, FlagFacts, RegistryFacts DEF LoginInv, FlagInv
  <2>3. old \notin disconnected /\ old \notin ToSet(incoming) /\ old # s
    BY <1>3, <2>1, <2>2, SessionParts DEF LoginInv, RegistryInv
  <2> QED
    BY <1>1, <2>1, <2>2, <2>3
<1>9. stopped => disconnected' \subseteq disconnected
  BY <1>1
<1> HIDE DEF old, kept, gone, a
<1>10. /\ sessions' \in [Account -> Session \cup {None}]
       /\ Registered' = Registered \cup {a}
       /\ RegisteredSessions' = (RegisteredSessions \ {old}) \cup {s}
       /\ \A b \in Registered' : Acc(sessions'[b]) = b
  BY <1>1, <1>3, Replaced DEF LoginInv, a, old
<1>11. /\ Queued \subseteq RegisteredSessions /\ Queued \cap passed = {} /\ Queued \subseteq inQueue
       /\ passed \subseteq RegisteredSessions \cup disconnected
       /\ inQueue = RegisteredSessions \ passed
       /\ player \subseteq passed /\ loading \subseteq RegisteredSessions \cap passed
       /\ passed \subseteq Session /\ RegisteredSessions \subseteq Session
       /\ Cardinality(Registered) = Cardinality(RegisteredSessions)
  BY FlagFacts, RegistryFacts DEF LoginInv, FlagInv
<1>12. s \notin Queued /\ s \notin passed /\ s \notin inQueue /\ s \notin player /\ s \notin loading
  BY <1>3, <1>11
<1>13. RegistryInv'
  <2>1. alive' = ToSet(incoming') \cup RegisteredSessions' \cup disconnected'
    <3>1. alive = ToSet(incoming) \cup RegisteredSessions \cup disconnected
      BY DEF LoginInv, RegistryInv
    <3>2. gone \cap ToSet(incoming) = {} /\ gone \cap disconnected = {}
      BY <1>8
    <3>3. alive' = ToSet(incoming) \cup (RegisteredSessions \ gone) \cup disconnected
      BY <1>1, <3>1, <3>2
    <3>4. RegisteredSessions \ gone = (RegisteredSessions \ {old}) \cup kept
      BY <1>8
    <3> QED
      BY <1>1, <1>3, <1>10, <3>3, <3>4
  <2>2. disconnected' \subseteq Session
    BY <1>1, <1>8, <1>11 DEF LoginInv, RegistryInv
  <2>3. ToSet(incoming') \cap (RegisteredSessions' \cup disconnected') = {}
    <3>1. ToSet(incoming) \cap (RegisteredSessions \cup disconnected) = {}
      BY DEF LoginInv, RegistryInv
    <3> QED
      BY <1>1, <1>3, <1>8, <1>10, <3>1
  <2>4. RegisteredSessions' \cap disconnected' = {}
    <3>1. RegisteredSessions \cap disconnected = {}
      BY DEF LoginInv, RegistryInv
    <3>2. kept \subseteq {old}
      BY <1>8
    <3> QED
      BY <1>1, <1>3, <1>8, <1>10, <3>1, <3>2
  <2> QED
    BY <1>3, <1>10, <2>1, <2>2, <2>3, <2>4 DEF RegistryInv
<1>14. inQueue' = RegisteredSessions' \ passed'
  <2>1. inQueue' = (inQueue \ (next \cup gone)) \cup waiting
    BY <1>1
  <2>2. kept \cap inQueue = {}
    BY <1>8, <1>11
  <2>3. inQueue \ (next \cup gone) = ((RegisteredSessions \ {old}) \ passed) \ next
    BY <1>8, <1>11, <2>2
  <2>4. (RegisteredSessions \ {old}) \ passed' = ((RegisteredSessions \ {old}) \ passed) \ next
    BY <1>1, <1>3, <1>7, <1>8
  <2>5. {s} \ passed' = waiting
    BY <1>1, <1>4, <1>7, <1>8, <1>12
  <2> QED
    BY <1>10, <2>1, <2>3, <2>4, <2>5
<1>15. FlagInv'
  <2>1. closed \cup passed \cup hadQueue \cup skipped \subseteq RegisteredSessions \cup disconnected
    BY DEF LoginInv, FlagInv
  <2>2. (RegisteredSessions \cup disconnected) \ gone \subseteq RegisteredSessions' \cup disconnected'
    BY <1>1, <1>8, <1>10
  <2>3. next \subseteq RegisteredSessions' /\ waiting \subseteq {s} /\ entering \subseteq {s}
    BY <1>4, <1>7, <1>10, <1>11
  <2>4. s \in RegisteredSessions' /\ kept \subseteq disconnected'
    BY <1>1, <1>10
  <2>5. closed' \cup passed' \cup hadQueue' \cup skipped' \subseteq RegisteredSessions' \cup disconnected'
    <3>1. closed' \subseteq RegisteredSessions' \cup disconnected'
      BY <1>1, <2>1, <2>2, <2>4
    <3>2. passed' \subseteq RegisteredSessions' \cup disconnected'
      BY <1>1, <2>1, <2>2, <2>3, <2>4
    <3>3. hadQueue' \subseteq RegisteredSessions' \cup disconnected'
      BY <1>1, <2>1, <2>2, <2>3, <2>4
    <3>4. skipped' \subseteq RegisteredSessions' \cup disconnected'
      BY <1>1, <1>7, <2>1, <2>2, <2>4
    <3> QED
      BY <3>1, <3>2, <3>3, <3>4
  <2>6. /\ loading' = loading /\ loading \cap {old} = {} /\ gone \subseteq {old}
    BY <1>1, <1>8
  <2>7. loading' \subseteq RegisteredSessions' \cap passed'
    BY <1>1, <1>10, <1>11, <2>6
  <2>8. player' \subseteq passed' /\ loading' \cap player' = {}
    BY <1>1, <1>11, <2>6 DEF LoginInv, FlagInv
  <2> QED
    BY <1>14, <2>5, <2>7, <2>8 DEF FlagInv
<1>16. Counted(ipCount', Registered') /\ p \in Nat
  <2>1. Counted(ipCount, Registered) /\ Registered \subseteq Account
    BY RegistryFacts DEF LoginInv, CountInv
  <2>2. Counted(ipCount', Registered') /\ ipCount'[Address[a]] \in Nat
    <3>1. ipCount' = [ipCount EXCEPT ![Address[a]] = @ + 1] /\ Registered' = Registered \cup {a}
      BY <1>1, <1>10
    <3>2. a \in Account
      BY <1>3
    <3> QED
      BY <2>1, <3>1, <3>2, AddressUp
  <2> QED
    BY <1>3, <2>2, PriorityNat DEF p
<1>17. Sound(queued', priorityQueue') /\ Queued' = Held(list, lists) \cup waiting
  <2>1. s \notin Held(list, lists)
    BY <1>4, <1>12
  <2>2. /\ queued' = list \o IF waits /\ ~PriorityMode THEN <<s>> ELSE <<>>
        /\ priorityQueue' =
             IF waits /\ PriorityMode THEN [lists EXCEPT ![r] = Insert(@, p, s)] ELSE lists
        /\ Sound(list, lists) /\ s \in Session /\ p \in Nat /\ waits \in BOOLEAN
        /\ r = RegionOf(s)
    BY <1>1, <1>2, <1>3, <1>4, <1>16
  <2>3. /\ Sound(queued', priorityQueue')
        /\ Held(queued', priorityQueue') = Held(list, lists) \cup waiting
    <3>1. CASE ~waits
      <4>1. list \o <<>> = list
        BY <2>2, SessionAppended DEF Sound
      <4>2. queued' = list /\ priorityQueue' = lists
        BY <2>2, <3>1, <4>1
      <4> QED
        BY <1>7, <2>2, <3>1, <4>2
    <3>2. CASE waits /\ PriorityMode
      <4>1. list \o <<>> = list
        BY <2>2, SessionAppended DEF Sound
      <4>2. queued' = list /\ priorityQueue' = [lists EXCEPT ![RegionOf(s)] = Insert(@, p, s)]
        BY <2>2, <3>2, <4>1
      <4>3. /\ Sound(list, priorityQueue')
            /\ \A x : x \in Held(list, priorityQueue') <=> x \in Held(list, lists) \/ x = s
        <5>1. /\ PriorityMode /\ Sound(list, lists) /\ s \in Session /\ s \notin Held(list, lists)
              /\ p \in Nat /\ priorityQueue' = WithEntry(lists, p, s)
          BY <2>1, <2>2, <3>2, <4>2 DEF WithEntry
        <5>2. Sound(list, priorityQueue')
          BY <5>1, EnqueuedByPriority
        <5>3. \A x : x \in Held(list, priorityQueue') <=> x \in Held(list, lists) \/ x = s
          BY <5>1, EnqueuedByPriority
        <5> QED
          BY <5>2, <5>3
      <4> QED
        BY <1>7, <3>2, <4>2, <4>3
    <3>3. CASE waits /\ ~PriorityMode
      <4>1. queued' = list \o <<s>> /\ priorityQueue' = lists
        BY <2>2, <3>3
      <4>2. /\ Sound(queued', lists)
            /\ \A x : x \in Held(queued', lists) <=> x \in Held(list, lists) \/ x = s
        <5>1. /\ ~PriorityMode /\ Sound(list, lists) /\ s \in Session /\ s \notin Held(list, lists)
              /\ queued' = list \o <<s>>
          BY <2>1, <2>2, <3>3, <4>1
        <5>2. Sound(queued', lists)
          BY <5>1, EnqueuedLast
        <5>3. \A x : x \in Held(queued', lists) <=> x \in Held(list, lists) \/ x = s
          BY <5>1, EnqueuedLast
        <5> QED
          BY <5>2, <5>3
      <4> QED
        BY <1>7, <3>3, <4>1, <4>2
    <3> QED
      BY <2>2, <3>1, <3>2, <3>3
  <2>4. Queued' = Held(queued', priorityQueue')
    BY DEF Queued, Held
  <2> QED
    BY <2>3, <2>4
<1>18. QueuesInv'
  <2>1. kept \cap inQueue = {}
    BY <1>8, <1>11
  <2>2. inQueue \ ({old} \cup next) = inQueue \ (next \cup gone)
    BY <1>8, <2>1
  <2>3. Queued' \subseteq inQueue'
    BY <1>1, <1>4, <1>11, <1>17, <2>2
  <2>4. ~kicked' => Queued' = inQueue'
    <3>1. ~kicked' => Queued = inQueue
      BY <1>1 DEF LoginInv, QueuesInv, tickVars
    <3> QED
      BY <1>1, <1>4, <1>17, <2>2, <3>1
  <2> QED
    BY <1>17, <2>3, <2>4 DEF QueuesInv
<1>19. CountInv'
  <2> DEFINE rest == (passed \cup next) \ gone
  <2>1. count = ByRegion(rest)
    <3>1. next \subseteq Session \ passed /\ gone \cap next = {}
      BY <1>4, <1>8, <1>11
    <3> QED
      BY <1>6, <1>11, <3>1, FlagFacts, CountsPassed
  <2>2. rest \subseteq Session /\ s \notin rest /\ passed' = rest \cup entering
    <3>1. gone \cap next = {} /\ next \subseteq Session /\ s \notin next
      BY <1>4, <1>8, <1>11, <1>12
    <3> QED
      BY <1>1, <1>11, <1>12, <3>1
  <2> HIDE DEF rest
  <2>3. logged' = ByRegion(passed')
    <3>1. CASE waits
      <4>1. logged' = ByRegion(rest) /\ passed' = rest
        BY <1>1, <1>7, <2>1, <2>2, <3>1
      <4> QED
        BY <4>1
    <3>2. CASE ~waits
      <4>1. logged' = [ByRegion(rest) EXCEPT ![RegionOf(s)] = @ + 1] /\ passed' = rest \cup {s}
        BY <1>1, <1>3, <1>7, <2>1, <2>2, <3>2
      <4> QED
        BY <1>3, <2>2, <4>1, OneMore
    <3> QED
      BY <3>1, <3>2
  <2>4. lastLogout' \subseteq Account
    <3>1. lastLogout' \subseteq lastLogout \cup {Acc(x) : x \in kept}
      BY <1>1 DEF LastLogout
    <3>2. \A x \in kept : Acc(x) \in Account
      BY <1>8, <1>11, SessionParts
    <3> QED
      BY <3>1, <3>2 DEF LoginInv, CountInv
  <2>5. limit' \in Nat
    BY <1>1 DEF LoginInv, CountInv
  <2> QED
    BY <1>16, <2>3, <2>4, <2>5 DEF CountInv
<1>20. TodoInv' /\ AnswerInv'
  BY <1>1 DEF LoginInv, TodoInv, AnswerInv, tickVars
<1>21. KickInv'
  <2>1. kicked' => RegisteredSessions \cap player \subseteq closed
    BY <1>1 DEF LoginInv, KickInv, tickVars
  <2>2. kicked' => RegisteredSessions' \cap player' \subseteq closed'
    BY <1>1, <1>10, <1>12, <2>1
  <2> QED
    BY <1>1, <2>2 DEF LoginInv, KickInv, tickVars
<1>22. RoomInv'
  <2>1. Cardinality(RegisteredSessions' \ (inQueue' \cup skipped')) <= HardLimit + Overshoot
    <3>1. CASE next = {} /\ (waits \/ skipping # {})
      <4>1. s \in inQueue' \cup skipped'
        BY <1>1, <1>7, <3>1
      <4>2. RegisteredSessions \ {old} \subseteq RegisteredSessions \ gone
        BY <1>8
      <4>3. RegisteredSessions' \ (inQueue' \cup skipped') \subseteq RegisteredSessions \ (inQueue \cup skipped)
        BY <1>1, <1>8, <1>10, <3>1, <4>1, <4>2
      <4> QED
        BY <4>3, RoomLeft
    <3>2. CASE next # {} \/ (~waits /\ skipping = {})
      <4>1. /\ Cardinality(RegisteredSessions') = Cardinality(Registered')
            /\ Cardinality(Registered') \in Nat
            /\ RegisteredSessions' \subseteq Session
        <5>1. /\ sessions' \in [Account -> Session \cup {None}]
              /\ \A b \in Account : sessions'[b] # None => Acc(sessions'[b]) = b
          BY <1>10 DEF Registered
        <5> QED
          BY <5>1, AccountCount DEF Registered, RegisteredSessions
      <4>2. Cardinality(Registered') - Waiting(list, lists) <= HardLimit
        <5>1. CASE next # {}
          <6>1. Registered' = Registered
            BY <1>4, <1>10, <5>1
          <6> QED
            BY <1>4, <5>1, <6>1
        <5>2. CASE next = {}
          <6>1. active < HardLimit
            BY <1>2, <3>2, <5>2
          <6>2. active = Cardinality(Registered') - Waiting(list, lists)
            BY <1>5, <1>10
          <6>3. Waiting(list, lists) \in Nat
            BY <1>4, WaitingCount
          <6> QED
            BY <4>1, <6>1, <6>2, <6>3, Numbers
        <5> QED
          BY <5>1, <5>2
      <4>3. Cardinality(RegisteredSessions') - Waiting(list, lists) <= HardLimit + Overshoot
        <5>1. Overshoot \in Nat
          BY Numbers DEF Overshoot
        <5>2. Waiting(list, lists) \in Nat
          BY <1>4, WaitingCount
        <5> QED
          BY <4>1, <4>2, <5>1, <5>2, Numbers
      <4>4. Held(list, lists) \subseteq inQueue' /\ inQueue' \subseteq RegisteredSessions'
        <5>1. Held(list, lists) \subseteq inQueue \ (next \cup gone)
          BY <1>4, <1>8, <1>11
        <5> QED
          BY <1>1, <1>14, <5>1
      <4> QED
        BY <1>4, <4>1, <4>3, <4>4, RoomAmongActive
    <3> QED
      BY <3>1, <3>2
  <2> QED
    BY <2>1 DEF RoomInv, LimitKept, Overshoot
<1>23. InOrder
  <2>1. SUFFICES ASSUME NEW x \in Queued, x \in passed'
                 PROVE  Ahead(x) \cap Queued' = {} /\ x \notin Queued'
    BY DEF InOrder
  <2>2. x \in next
    BY <1>1, <1>7, <1>11, <1>12, <2>1
  <2>3. Ahead(x) \subseteq {old}
    BY <1>4, <2>2
  <2>4. old \notin Queued' /\ x \notin Queued'
    BY <1>4, <1>7, <1>8, <1>12, <1>17, <2>2
  <2> QED
    BY <2>3, <2>4
<1> QED
  BY <1>9, <1>13, <1>15, <1>18, <1>19, <1>20, <1>21, <1>22, <1>23 DEF LoginInv

----------------------------------------------------------------------------
(* The theorems. *)

PutAside == stopped => disconnected' \subseteq disconnected

\* Who has not passed the queue before does not pass it in most steps.
LEMMA NobodyPasses ==
  ASSUME LoginInv, passed' \subseteq passed
  PROVE  InOrder
BY FlagFacts DEF InOrder

\* Every step keeps the invariant and the order.
LEMMA NextInv == LoginInv /\ [Next]_vars => LoginInv' /\ InOrder /\ PutAside
<1> SUFFICES ASSUME LoginInv, [Next]_vars PROVE LoginInv' /\ InOrder /\ PutAside
  OBVIOUS
<1>1. CASE AcceptQueued
  BY <1>1, AcceptQueuedStep DEF AcceptQueued, PutAside, registryVars
<1>2. CASE AddSession_
  <2>1. /\ phase = "add" /\ incoming # <<>> /\ incoming' = Tail(incoming)
        /\ \/ Refuse(Head(incoming))
           \/ \E stays, inTime \in BOOLEAN : Register(Head(incoming), stays, inTime)
    BY <1>2 DEF AddSession_
  <2>2. CASE Refuse(Head(incoming))
    <3>1. LoginInv'
      BY <2>1, <2>2, RefuseStep
    <3> QED
      BY <2>2, <3>1, NobodyPasses DEF Refuse, PutAside
  <2>3. CASE \E stays, inTime \in BOOLEAN : Register(Head(incoming), stays, inTime)
    <3>1. PICK stays \in BOOLEAN, inTime \in BOOLEAN : Register(Head(incoming), stays, inTime)
      BY <2>3
    <3> QED
      BY <2>1, <3>1, RegisterStep DEF PutAside
  <2> QED
    BY <2>1, <2>2, <2>3
<1>3. CASE EndAdd
  BY <1>3, EndAddStep, NobodyPasses DEF EndAdd, PutAside, registryVars, flagVars
<1>4. ASSUME NEW s \in Session, HandlePlayerLoginOpcode(s)
      PROVE  LoginInv' /\ InOrder /\ PutAside
  BY <1>4, LoginOpcodeStep, NobodyPasses DEF HandlePlayerLoginOpcode, PutAside, registryVars
<1>5. ASSUME NEW s \in Session, UpdateSession(s)
      PROVE  LoginInv' /\ InOrder /\ PutAside
  <2>1. phase = "update" /\ s \in todo
    BY <1>5 DEF UpdateSession
  <2>2. CASE CharacterScreenIdleKick(s) \/ LoseSession(s)
    <3>1. DeleteSession(s)
      BY <2>2 DEF CharacterScreenIdleKick, LoseSession
    <3>2. LoginInv' /\ InOrder
      BY <2>1, <3>1, DeleteSessionStep
    <3>3. PutAside
      BY <3>1 DEF DeleteSession, PutAside
    <3> QED
      BY <3>2, <3>3
  <2>3. CASE SetSessionDisconnected(s)
    <3>1. LoginInv'
      BY <2>1, <2>3, SetSessionDisconnectedStep
    <3> QED
      BY <2>3, <3>1, NobodyPasses
      DEF SetSessionDisconnected, ForcePlayerLogoutDelay, PutAside, flagVars
  <2>4. CASE KeepSession(s)
    <3>1. LoginInv'
      BY <2>1, <2>4, KeepSessionStep
    <3> QED
      BY <2>4, <3>1, NobodyPasses DEF KeepSession, PutAside, registryVars
  <2> QED
    BY <1>5, <2>2, <2>3, <2>4 DEF UpdateSession
<1>6. ASSUME NEW s \in Session, UpdateDisconnected(s)
      PROVE  LoginInv' /\ InOrder /\ PutAside
  <2>1. /\ phase = "disconnected" /\ s \in todo /\ todo' = todo \ {s}
        /\ DeleteDisconnected(s) \/ KeepDisconnected(s)
        /\ UNCHANGED <<queueVars, answers, phase, stopped, kicked>>
    BY <1>6 DEF UpdateDisconnected
  <2>2. CASE DeleteDisconnected(s)
    <3>1. LoginInv'
      BY <2>1, <2>2, DeleteDisconnectedStep
    <3> QED
      BY <2>2, <3>1, NobodyPasses DEF DeleteDisconnected, PutAside
  <2>3. CASE KeepDisconnected(s)
    <3>1. LoginInv'
      BY <2>1, <2>3, KeepDisconnectedStep
    <3> QED
      BY <2>3, <3>1, NobodyPasses DEF KeepDisconnected, PutAside, registryVars, flagVars
  <2> QED
    BY <2>1, <2>2, <2>3
<1>7. CASE EndUpdate
  BY <1>7, EndUpdateStep, NobodyPasses DEF EndUpdate, PutAside, registryVars, flagVars
<1>8. CASE EndUpdateDisconnected
  BY <1>8, EndUpdateDisconnectedStep, NobodyPasses
  DEF EndUpdateDisconnected, PutAside, registryVars, flagVars
<1>9. CASE Shutdown
  BY <1>9, ShutdownStep, NobodyPasses DEF Shutdown, PutAside, registryVars
<1>10. CASE StopNow
  BY <1>10, StopNowStep, NobodyPasses DEF StopNow, PutAside, registryVars, flagVars
<1>11. ASSUME NEW s \in Session, CloseSocket(s)
       PROVE  LoginInv' /\ InOrder /\ PutAside
  BY <1>11, CloseSocketStep, NobodyPasses DEF CloseSocket, PutAside, registryVars
<1>12. ASSUME NEW a \in Account, Connect(a)
       PROVE  LoginInv' /\ InOrder /\ PutAside
  BY <1>12, ConnectStep, NobodyPasses DEF Connect, PutAside, flagVars
<1>13. ASSUME NEW a \in Account, HandlePlayerLoginCallback(a)
       PROVE  LoginInv' /\ InOrder /\ PutAside
  BY <1>13, LoginCallbackStep, NobodyPasses DEF HandlePlayerLoginCallback, PutAside, registryVars
<1>14. CASE UNCHANGED vars
  <2>1. UNCHANGED <<queueVars, registryVars, flagVars, tickVars, logged, answers>>
    BY <1>14 DEF vars
  <2>2. RegisteredSessions' = RegisteredSessions
    BY <2>1 DEF Registered, RegisteredSessions, registryVars
  <2>3. RegistryInv' /\ QueuesInv' /\ CountInv' /\ RoomInv'
    BY <2>1, RegistryFrame, QueuesFrame, CountFrame, RoomFrame
    DEF LoginInv, flagVars, tickVars, registryVars, queueVars
  <2>4. TodoInv' /\ FlagInv' /\ AnswerInv' /\ KickInv'
    BY <2>1, <2>2
    DEF LoginInv, TodoInv, FlagInv, AnswerInv, KickInv, flagVars, tickVars, registryVars
  <2> QED
    BY <2>1, <2>3, <2>4, NobodyPasses DEF LoginInv, PutAside, registryVars, flagVars
<1> QED
  BY <1>1, <1>2, <1>3, <1>4, <1>5, <1>6, <1>7, <1>8, <1>9, <1>10, <1>11, <1>12, <1>13, <1>14
  DEF Next, UpdateSessions, Over

\* The inductive invariant holds whatever the clients do and whenever the server stops.
THEOREM LoginInvHolds == Spec => []LoginInv
<1>1. LoginInv /\ [Next]_vars => LoginInv'
  BY NextInv
<1> QED
  BY InitInv, <1>1, PTL DEF Spec

\* No counter goes below zero, and no flag or list names a deleted session.
THEOREM TypeOKHolds == Spec => []TypeOK
<1>1. LoginInv => TypeOK
  <2> SUFFICES ASSUME LoginInv PROVE TypeOK
    OBVIOUS
  <2>1. /\ limit \in Nat /\ logged \in [Region01 -> Nat] /\ lastLogout \subseteq Account
        /\ ipCount \in [{Address[a] : a \in Account} -> Nat]
    BY FlagFacts DEF LoginInv, CountInv, Counted, Addresses
  <2>2. /\ sessions \in [Account -> Session \cup {None}] /\ incoming \in Seq(Session)
        /\ queued \in Seq(Session)
        /\ priorityQueue \in [Region01 -> Seq([priority : Nat, session : Session])]
        /\ alive \subseteq Session
    BY RegistryFacts, FlagFacts DEF LoginInv, RegistryInv, Sound, Listed
  <2>3. RegisteredSessions \cup disconnected \subseteq alive
    BY DEF LoginInv, RegistryInv
  <2>4. todo \subseteq RegisteredSessions \cup disconnected
    BY DEF LoginInv, TodoInv
  <2>5. disconnected \cup closed \cup inQueue \cup hadQueue \cup passed \cup loading
          \cup player \cup skipped \cup todo \subseteq alive
    BY <2>3, <2>4 DEF LoginInv, FlagInv
  <2> QED
    BY <2>1, <2>2, <2>5 DEF LoginInv, TypeOK, TodoInv, AnswerInv, KickInv
<1> QED
  BY LoginInvHolds, <1>1, PTL

\* A session is in one place while it exists - new, registered under its own account
\* or disconnected - and in none once it is deleted.
THEOREM OnePlaceHolds == Spec => []OnePlace
<1>1. LoginInv /\ TypeOK => OnePlace
  BY DEF LoginInv, RegistryInv, OnePlace
<1> QED
  BY LoginInvHolds, TypeOKHolds, <1>1, PTL

\* The queues hold each waiting session once, in its region's list, and nobody has a
\* character without having passed the queue.
THEOREM QueueSoundHolds == Spec => []QueueSound
<1>1. LoginInv => QueueSound
  <2> SUFFICES ASSUME LoginInv PROVE QueueSound
    OBVIOUS
  <2>1. loading \cup player \subseteq passed
    BY DEF LoginInv, FlagInv
  <2>2. ~kicked => Queued = inQueue /\ Queued = RegisteredSessions \ passed
    BY DEF LoginInv, QueuesInv, FlagInv
  <2>3. IsInjective(queued) /\ \A r \in Region01 : ListSound(r, priorityQueue[r])
    BY DEF LoginInv, QueuesInv, Sound
  <2> QED
    BY <2>1, <2>2, <2>3 DEF QueueSound, ListSound, Region01
<1> QED
  BY LoginInvHolds, <1>1, PTL

\* The list of a region is in order of priority, however the priorities grow.
THEOREM PriorityOrderHolds == Spec => []PriorityOrder
<1>1. LoginInv => PriorityOrder
  <2> SUFFICES ASSUME LoginInv PROVE PriorityOrder
    OBVIOUS
  <2>1. \A r \in Region01 : ListSound(r, priorityQueue[r])
    BY DEF LoginInv, QueuesInv, Sound
  <2> QED
    BY <2>1 DEF PriorityOrder, ListSound, Region01
<1> QED
  BY LoginInvHolds, <1>1, PTL

\* The population counters agree with the sessions that passed the queue and exist.
THEOREM LoggedCountHolds == Spec => []LoggedCount
<1>1. LoginInv => LoggedCount
  <2> SUFFICES ASSUME LoginInv, NEW r \in Region01
               PROVE  logged[r] = Cardinality({s \in alive \cap passed : RegionOf(s) = r})
    BY DEF LoggedCount, Region01
  <2>1. alive \cap passed = passed
    BY DEF LoginInv, RegistryInv, FlagInv
  <2> QED
    BY <2>1, FlagFacts DEF ByRegion
<1> QED
  BY LoginInvHolds, <1>1, PTL

\* Whoever waits for its character has an answer on its way.
THEOREM LoadingAnsweredHolds == Spec => []LoadingAnswered
<1>1. LoginInv => LoadingAnswered
  BY DEF LoginInv, AnswerInv, LoadingAnswered
<1> QED
  BY LoginInvHolds, <1>1, PTL

\* The limit of players is kept, but for those who skip the queue.
THEOREM LimitKeptHolds == Spec => []LimitKept
<1>1. LoginInv => LimitKept
  BY DEF LoginInv, RoomInv
<1> QED
  BY LoginInvHolds, <1>1, PTL

\* Whoever passes the queue passes it after those ahead, and for good.
THEOREM PassInOrderHolds == Spec => PassInOrder
<1>1. LoginInv /\ [Next]_vars =>
        [\A s \in Queued : s \in passed' => Ahead(s) \cap Queued' = {} /\ s \notin Queued']_vars
  BY NextInv DEF InOrder
<1> QED
  BY LoginInvHolds, <1>1, PTL DEF Spec, PassInOrder

\* A session registered when the server stops is logged out before the end, and none
\* is put aside after that.
THEOREM ShutdownSavesRegisteredHolds == Spec => ShutdownSavesRegistered
<1>1. LoginInv => (phase = "over" => RegisteredSessions \cap player = {})
  BY DEF LoginInv, KickInv
<1>2. LoginInv /\ [Next]_vars => [stopped => disconnected' \subseteq disconnected]_vars
  BY NextInv DEF PutAside
<1> QED
  BY LoginInvHolds, <1>1, <1>2, PTL DEF Spec, ShutdownSavesRegistered

=============================================================================
