--------------------------- MODULE EconomyProofs ---------------------------
(***************************************************************************)
(* What players own: proofs of the invariants of Economy and of what       *)
(* auctions owe, for any finite sets of players and items, any prices,     *)
(* deposit, postage and starting money, and a cut of at most the price.    *)
(*                                                                         *)
(* Settled, the table mail as it will be when everything queued has been   *)
(* executed, is what the server's memory agrees with (StoreInv).  A step   *)
(* is described by the mails that leave Settled and those that enter it    *)
(* (Turns); items and money are followed through that.                     *)
(***************************************************************************)
EXTENDS Economy, FiniteSetTheorems, SequenceTheorems, WellFoundedInduction,
        TLAPS

----------------------------------------------------------------------------
(* Induction.  The theorems of the library that have an operator parameter
   cannot be used, so it goes through well-founded sets. *)

\* The strict subsets of a finite set's subsets can be counted down.
LEMMA SubsetsWellFounded ==
  ASSUME NEW U, IsFiniteSet(U)
  PROVE  IsWellFoundedOn(StrictSubsetOrdering(U), SUBSET U)
<1>1. FiniteSubsetsOf(U) = SUBSET U
  BY FS_FiniteSubsetsOfFinite
<1>2. IsWellFoundedOn(StrictSubsetOrdering(U), FiniteSubsetsOf(U))
  BY FS_StrictSubsetOrderingWellFounded
<1> QED BY <1>1, <1>2

\* Induction over the subsets of a finite set: F is the set of those it holds of.
LEMMA SubsetInduction ==
  ASSUME NEW U, IsFiniteSet(U), NEW F,
         \A T \in SUBSET U : (\A V \in SUBSET T : V # T => V \in F) => T \in F
  PROVE  \A T \in SUBSET U : T \in F
<1> SUFFICES ASSUME NEW W \in SUBSET U, W \notin F PROVE FALSE
  OBVIOUS
<1> DEFINE Bad == {T \in SUBSET U : T \notin F}
<1>1. Bad \subseteq SUBSET U /\ Bad # {}
  OBVIOUS
<1>2. \E T \in Bad : \A V \in Bad : ~ (<<V, T>> \in StrictSubsetOrdering(U))
  <2>1. IsWellFoundedOn(StrictSubsetOrdering(U), SUBSET U)
    BY SubsetsWellFounded
  <2> HIDE DEF Bad
  <2> QED BY <1>1, <2>1, WFMin
<1>3. PICK T \in Bad : \A V \in Bad : ~ (<<V, T>> \in StrictSubsetOrdering(U))
  BY <1>2
<1>4. ASSUME NEW V \in SUBSET T, V # T PROVE V \in F
  <2>1. V \in SUBSET U /\ <<V, T>> \in StrictSubsetOrdering(U)
    BY <1>4 DEF StrictSubsetOrdering
  <2> QED BY <2>1, <1>3
<1>5. T \in F
  BY <1>4
<1> QED BY <1>5

\* Induction over the numbers: S is the set of those it holds of.
LEMMA SetInduction ==
  ASSUME NEW S, 0 \in S, \A n \in Nat : n \in S => n + 1 \in S
  PROVE  \A n \in Nat : n \in S
<1> SUFFICES ASSUME NEW n \in Nat, n \notin S PROVE FALSE
  OBVIOUS
<1> DEFINE T == {0..k : k \in {j \in 0..n : j \notin S}}
<1>1. T \subseteq SUBSET (0..n) /\ 0..n \in T
  OBVIOUS
<1>2. PICK M \in T : \A K \in T : ~ (<<K, M>> \in StrictSubsetOrdering(0..n))
  <2>1. IsWellFoundedOn(StrictSubsetOrdering(0..n), SUBSET (0..n))
    <3>1. IsFiniteSet(0..n)
      BY FS_Interval
    <3> QED BY <3>1, SubsetsWellFounded
  <2>2. T # {}
    BY <1>1
  <2>3. \E M \in T : \A K \in T : ~ (<<K, M>> \in StrictSubsetOrdering(0..n))
    <3> HIDE DEF T
    <3> QED BY <2>1, <2>2, <1>1, WFMin
  <2> QED BY <2>3
<1>3. PICK m \in 0..n : M = 0..m /\ m \notin S
  OBVIOUS
<1>4. m - 1 \in 0..n /\ m - 1 \notin S
  <2>1. m # 0
    BY <1>3
  <2>2. m - 1 \in 0..n /\ m - 1 \in Nat /\ (m - 1) + 1 = m
    BY <2>1
  <2> QED BY <2>2, <1>3
<1>5. 0..(m-1) \in T /\ <<0..(m-1), 0..m>> \in StrictSubsetOrdering(0..n)
  <2>1. 0..(m-1) \in T
    BY <1>4
  <2>2. 0..(m-1) \subseteq 0..m /\ m \notin 0..(m-1) /\ m \in 0..m
    BY <1>4
  <2>3. 0..m \in SUBSET (0..n) /\ 0..(m-1) \in SUBSET (0..n)
    BY <1>4
  <2> QED BY <2>1, <2>2, <2>3 DEF StrictSubsetOrdering
<1> QED BY <1>2, <1>3, <1>5

\* The element that a sum takes first, and the table of the sums of all subsets of U.
Pick(S) == CHOOSE x \in S : TRUE
Summed(f, U, g) == g = [s \in SUBSET U |-> IF s = {} THEN 0 ELSE f[Pick(s)] + g[s \ {Pick(s)}]]

\* The sum of f over a set is the entry of such a table.
LEMMA SumUnfold ==
  ASSUME NEW f, NEW U
  PROVE  SumFunctionOnSet(f, U) = (CHOOSE g : Summed(f, U, g))[U]
BY DEF SumFunctionOnSet, FoldFunctionOnSet, MapThenFoldSet, Summed, Pick

\* The element a sum takes is one of the set.
LEMMA PickIn ==
  ASSUME NEW S, S # {}
  PROVE  Pick(S) \in S
BY DEF Pick

\* There is such a table: sums over finite sets are defined.
LEMMA SumExists ==
  ASSUME NEW f, NEW U, IsFiniteSet(U)
  PROVE  \E g : Summed(f, U, g)
<1> DEFINE Sized(n) == {s \in SUBSET U : Cardinality(s) <= n}
           Next0(g, s) == IF s = {} THEN 0 ELSE f[Pick(s)] + g[s \ {Pick(s)}]
           Good == {n \in Nat : \E g : g = [s \in Sized(n) |-> Next0(g, s)]}
<1>0. \A s \in SUBSET U : IsFiniteSet(s) /\ Cardinality(s) \in Nat /\ Cardinality(s) <= Cardinality(U)
                          /\ (Cardinality(s) = 0 <=> s = {})
  BY FS_Subset, FS_CardinalityType, FS_EmptySet
<1>1. 0 \in Good
  <2> DEFINE g == [s \in Sized(0) |-> 0]
  <2>1. \A s \in Sized(0) : s = {}
    BY <1>0
  <2>2. g = [s \in Sized(0) |-> Next0(g, s)]
    <3>1. \A s \in Sized(0) : g[s] = Next0(g, s)
      <4> HIDE DEF Sized
      <4> QED BY <2>1
    <3> DEFINE h == [s \in Sized(0) |-> Next0(g, s)]
    <3>2. g = [s \in Sized(0) |-> g[s]] /\ h = [s \in Sized(0) |-> h[s]] /\ \A s \in Sized(0) : g[s] = h[s]
      <4> HIDE DEF Sized, Next0
      <4> QED BY <3>1
    <3> HIDE DEF Sized, Next0, g
    <3> QED BY <3>2
  <2> HIDE DEF g, Sized, Next0
  <2> QED BY <2>2
<1>2. ASSUME NEW n \in Nat, n \in Good PROVE n + 1 \in Good
  <2>1. PICK g : g = [s \in Sized(n) |-> Next0(g, s)]
    <3> HIDE DEF Sized, Next0
    <3> QED BY <1>2
  <2> DEFINE h == [s \in Sized(n + 1) |-> Next0(g, s)]
  <2>2. ASSUME NEW s \in Sized(n + 1) PROVE h[s] = Next0(h, s)
    <3>1. CASE s = {}
      BY <3>1, <2>2
    <3>2. CASE s # {}
      <4> DEFINE t == s \ {Pick(s)}
      <4>1. Pick(s) \in s /\ s \in SUBSET U /\ IsFiniteSet(s) /\ Cardinality(s) <= n + 1
        BY <3>2, PickIn, <1>0, <2>2
      <4>2. t \in SUBSET U /\ Cardinality(t) = Cardinality(s) - 1 /\ Cardinality(s) \in Nat
        BY <4>1, FS_RemoveElement, <1>0
      <4>3. t \in Sized(n) /\ t \in Sized(n + 1)
        BY <4>1, <4>2
      <4>4. g[t] = Next0(g, t)
        <5> HIDE DEF Sized, Next0, t, h
        <5> QED BY <4>3, <2>1
      <4>5. h[t] = Next0(g, t)
        <5> HIDE DEF Sized, Next0, t
        <5> QED BY <4>3
      <4>6. h[s] = Next0(g, s)
        <5> HIDE DEF Sized, Next0, t
        <5> QED BY <2>2
      <4>7. Next0(g, s) = f[Pick(s)] + g[t] /\ Next0(h, s) = f[Pick(s)] + h[t]
        <5> HIDE DEF h
        <5> QED BY <3>2
      <4> HIDE DEF Sized, Next0, t, h
      <4> QED BY <4>4, <4>5, <4>6, <4>7
    <3> QED BY <3>1, <3>2
  <2>3. h = [s \in Sized(n + 1) |-> Next0(h, s)]
    <3> DEFINE k == [s \in Sized(n + 1) |-> Next0(h, s)]
    <3>1. h = [s \in Sized(n + 1) |-> h[s]] /\ k = [s \in Sized(n + 1) |-> k[s]]
      <4> HIDE DEF Sized, Next0
      <4> QED OBVIOUS
    <3>2. \A s \in Sized(n + 1) : h[s] = k[s]
      <4> HIDE DEF Sized, Next0, h
      <4> QED BY <2>2
    <3> HIDE DEF Sized, Next0, h
    <3> QED BY <3>1, <3>2
  <2> HIDE DEF h, Sized, Next0
  <2> QED BY <2>3
<1>3. Cardinality(U) \in Good
  <2>1. Cardinality(U) \in Nat
    BY <1>0
  <2> HIDE DEF Good
  <2> QED BY <1>1, <1>2, <2>1, SetInduction
<1>4. Sized(Cardinality(U)) = SUBSET U
  BY <1>0
<1>5. PICK g : g = [s \in SUBSET U |-> Next0(g, s)]
  <2> HIDE DEF Sized, Next0
  <2> QED BY <1>3, <1>4
<1> QED BY <1>5 DEF Summed

\* What the recursion says of a finite set.
LEMMA SumFunctionExists ==
  ASSUME NEW f, NEW U, IsFiniteSet(U)
  PROVE  \E g : Summed(f, U, g) /\ SumFunctionOnSet(f, U) = g[U]
<1> DEFINE g == CHOOSE h : Summed(f, U, h)
<1>1. Summed(f, U, g)
  BY SumExists
<1>2. SumFunctionOnSet(f, U) = g[U]
  BY SumUnfold
<1> QED BY <1>1, <1>2

\* One step of a sum.
LEMMA SummedStep ==
  ASSUME NEW f, NEW U, NEW g, Summed(f, U, g), NEW s \in SUBSET U
  PROVE  g[s] = IF s = {} THEN 0 ELSE f[Pick(s)] + g[s \ {Pick(s)}]
BY DEF Summed

\* Sums of integers are integers.
LEMMA SummedInt ==
  ASSUME NEW f, NEW U, IsFiniteSet(U), NEW g, Summed(f, U, g), \A x \in U : f[x] \in Int
  PROVE  \A s \in SUBSET U : g[s] \in Int
<1> DEFINE F == {s \in SUBSET U : g[s] \in Int}
<1>1. ASSUME NEW s \in SUBSET U, \A v \in SUBSET s : v # s => v \in F
      PROVE  s \in F
  <2>1. CASE s = {}
    BY <2>1, SummedStep
  <2>2. CASE s # {}
    <3>1. Pick(s) \in s /\ s \ {Pick(s)} \in SUBSET s /\ s \ {Pick(s)} # s
      BY <2>2, PickIn
    <3>2. g[s] = f[Pick(s)] + g[s \ {Pick(s)}]
      BY <2>2, SummedStep
    <3> QED BY <3>1, <3>2, <1>1
  <2> QED BY <2>1, <2>2
<1>2. \A s \in SUBSET U : s \in F
  <2> HIDE DEF F
  <2> QED BY <1>1, SubsetInduction
<1> QED BY <1>2

\* It does not matter which element is taken first.
LEMMA SummedAny ==
  ASSUME NEW f, NEW U, IsFiniteSet(U), NEW g, Summed(f, U, g), \A x \in U : f[x] \in Int
  PROVE  \A s, x : s \in SUBSET U /\ x \in s => g[s] = f[x] + g[s \ {x}]
<1> DEFINE F == {s \in SUBSET U : \A x \in s : g[s] = f[x] + g[s \ {x}]}
<1>0. \A s \in SUBSET U : g[s] \in Int
  BY SummedInt
<1>1. ASSUME NEW s \in SUBSET U, \A v \in SUBSET s : v # s => v \in F
      PROVE  s \in F
  <2> SUFFICES ASSUME NEW x \in s PROVE g[s] = f[x] + g[s \ {x}]
    OBVIOUS
  <2> DEFINE c == Pick(s)
  <2>1. c \in s /\ g[s] = f[c] + g[s \ {c}]
    <3>1. s # {}
      OBVIOUS
    <3> QED BY <3>1, PickIn, SummedStep
  <2>2. CASE x = c
    BY <2>1, <2>2
  <2>3. CASE x # c
    <3>1. s \ {c} \in F /\ s \ {x} \in F
      <4>1. s \ {c} \in SUBSET s /\ s \ {c} # s /\ s \ {x} \in SUBSET s /\ s \ {x} # s
        BY <2>1
      <4> QED BY <4>1, <1>1
    <3>2. g[s \ {c}] = f[x] + g[(s \ {c}) \ {x}] /\ g[s \ {x}] = f[c] + g[(s \ {x}) \ {c}]
      BY <3>1, <2>1, <2>3
    <3>3. (s \ {c}) \ {x} = (s \ {x}) \ {c} /\ (s \ {c}) \ {x} \in SUBSET U
      OBVIOUS
    <3>4. f[x] \in Int /\ f[c] \in Int /\ g[(s \ {c}) \ {x}] \in Int
      BY <1>0, <3>3, <2>1
    <3> DEFINE r == g[(s \ {c}) \ {x}]
    <3>5. g[s] = f[c] + (f[x] + r) /\ g[s \ {x}] = f[c] + r
      BY <2>1, <3>2, <3>3
    <3>6. r \in Int
      BY <3>4
    <3> HIDE DEF c, r
    <3> QED BY <3>4, <3>5, <3>6
  <2> QED BY <2>2, <2>3
<1>2. \A s \in SUBSET U : s \in F
  <2> HIDE DEF F
  <2> QED BY <1>1, SubsetInduction
<1> QED BY <1>2

\* The sum over a part is the same, whatever it is a part of, for functions that agree.
LEMMA SummedPart ==
  ASSUME NEW f, NEW U, NEW g, Summed(f, U, g),
         NEW e, NEW V \in SUBSET U, IsFiniteSet(V), NEW h, Summed(e, V, h),
         \A x \in V : e[x] = f[x]
  PROVE  \A s \in SUBSET V : g[s] = h[s]
<1> DEFINE F == {s \in SUBSET V : g[s] = h[s]}
<1>1. ASSUME NEW s \in SUBSET V, \A v \in SUBSET s : v # s => v \in F
      PROVE  s \in F
  <2>1. CASE s = {}
    BY <2>1, SummedStep
  <2>2. CASE s # {}
    <3>1. Pick(s) \in s /\ s \ {Pick(s)} \in SUBSET s /\ s \ {Pick(s)} # s /\ s \in SUBSET U
      BY <2>2, PickIn
    <3>2. g[s] = f[Pick(s)] + g[s \ {Pick(s)}] /\ h[s] = e[Pick(s)] + h[s \ {Pick(s)}]
      BY <2>2, <3>1, SummedStep
    <3> QED BY <3>1, <3>2, <1>1
  <2> QED BY <2>1, <2>2
<1>2. \A s \in SUBSET V : s \in F
  <2> HIDE DEF F
  <2> QED BY <1>1, SubsetInduction
<1> QED BY <1>2

\* The sum over no element.
LEMMA SumEmpty ==
  ASSUME NEW f
  PROVE  SumFunctionOnSet(f, {}) = 0
<1>1. PICK g : Summed(f, {}, g) /\ SumFunctionOnSet(f, {}) = g[{}]
  BY FS_EmptySet, SumFunctionExists
<1> QED BY <1>1, SummedStep

\* The sum of integers is an integer.
LEMMA SumInt ==
  ASSUME NEW f, NEW U, IsFiniteSet(U), \A x \in U : f[x] \in Int
  PROVE  SumFunctionOnSet(f, U) \in Int
<1>1. PICK g : Summed(f, U, g) /\ SumFunctionOnSet(f, U) = g[U]
  BY SumFunctionExists
<1> QED BY <1>1, SummedInt

\* Functions that agree on a set have the same sum over it.
LEMMA SumSame ==
  ASSUME NEW f, NEW e, NEW U, IsFiniteSet(U), \A x \in U : e[x] = f[x]
  PROVE  SumFunctionOnSet(f, U) = SumFunctionOnSet(e, U)
<1>1. PICK g : Summed(f, U, g) /\ SumFunctionOnSet(f, U) = g[U]
  BY SumFunctionExists
<1>2. PICK h : Summed(e, U, h) /\ SumFunctionOnSet(e, U) = h[U]
  BY SumFunctionExists
<1> QED BY <1>1, <1>2, SummedPart

\* One more element adds its value, whatever order the sum takes them in.
LEMMA SumAdd ==
  ASSUME NEW f, NEW U, IsFiniteSet(U), NEW x, x \notin U, \A y \in U \cup {x} : f[y] \in Int
  PROVE  SumFunctionOnSet(f, U \cup {x}) = f[x] + SumFunctionOnSet(f, U)
<1> DEFINE W == U \cup {x}
<1>0. IsFiniteSet(W) /\ U \in SUBSET W /\ x \in W /\ W \ {x} = U
  BY FS_AddElement
<1>1. PICK g : Summed(f, W, g) /\ SumFunctionOnSet(f, W) = g[W]
  BY <1>0, SumFunctionExists
<1>2. PICK h : Summed(f, U, h) /\ SumFunctionOnSet(f, U) = h[U]
  BY SumFunctionExists
<1>3. g[W] = f[x] + g[U]
  <2>1. \A y \in W : f[y] \in Int
    OBVIOUS
  <2>0. IsFiniteSet(W) /\ Summed(f, W, g)
    BY <1>0, <1>1
  <2> HIDE DEF W
  <2>2. W \in SUBSET W /\ x \in W /\ W \ {x} = U
    BY <1>0
  <2>3. g[W] = f[x] + g[W \ {x}]
    BY <2>0, <2>1, <2>2, SummedAny
  <2> QED BY <2>2, <2>3
<1>4. g[U] = h[U]
  <2> HIDE DEF W
  <2> QED BY <1>0, <1>1, <1>2, SummedPart
<1> HIDE DEF W
<1>5. SumFunctionOnSet(f, W) = f[x] + SumFunctionOnSet(f, U)
  BY <1>1, <1>2, <1>3, <1>4
<1> QED BY <1>5 DEF W

\* The sum over two sets without a common element.
LEMMA SumSplit ==
  ASSUME NEW f, NEW U, IsFiniteSet(U), NEW V, IsFiniteSet(V), U \cap V = {},
         \A y \in U \cup V : f[y] \in Int
  PROVE  SumFunctionOnSet(f, U \cup V) = SumFunctionOnSet(f, U) + SumFunctionOnSet(f, V)
<1> DEFINE F == {s \in SUBSET V : SumFunctionOnSet(f, U \cup s)
                                    = SumFunctionOnSet(f, U) + SumFunctionOnSet(f, s)}
<1>0. SumFunctionOnSet(f, U) \in Int
  BY SumInt
<1>1. ASSUME NEW s \in SUBSET V, \A v \in SUBSET s : v # s => v \in F
      PROVE  s \in F
  <2>1. CASE s = {}
    <3>1. U \cup s = U
      BY <2>1
    <3> QED BY <3>1, <2>1, <1>0, SumEmpty
  <2>2. CASE s # {}
    <3> DEFINE x == Pick(s)
               t == s \ {x}
    <3>1. x \in s /\ t \in SUBSET s /\ t # s /\ x \notin t /\ s = t \cup {x}
      BY <2>2, PickIn
    <3>2. IsFiniteSet(t) /\ IsFiniteSet(U \cup t) /\ x \notin U \cup t /\ U \cup s = (U \cup t) \cup {x}
      BY <3>1, FS_Subset, FS_Union
    <3> HIDE DEF x, t
    <3>3. SumFunctionOnSet(f, s) = f[x] + SumFunctionOnSet(f, t)
      <4>1. \A y \in t \cup {x} : f[y] \in Int
        BY <3>1
      <4>2. SumFunctionOnSet(f, t \cup {x}) = f[x] + SumFunctionOnSet(f, t)
        BY <4>1, <3>1, <3>2, SumAdd
      <4> QED BY <4>2, <3>1
    <3>4. SumFunctionOnSet(f, U \cup s) = f[x] + SumFunctionOnSet(f, U \cup t)
      <4>1. \A y \in (U \cup t) \cup {x} : f[y] \in Int
        BY <3>1
      <4>2. SumFunctionOnSet(f, (U \cup t) \cup {x}) = f[x] + SumFunctionOnSet(f, U \cup t)
        BY <4>1, <3>2, SumAdd
      <4> QED BY <4>2, <3>2
    <3>5. SumFunctionOnSet(f, t) \in Int /\ f[x] \in Int
      BY <3>1, <3>2, SumInt
    <3>6. SumFunctionOnSet(f, U \cup t) = SumFunctionOnSet(f, U) + SumFunctionOnSet(f, t)
      BY <3>1, <1>1
    <3>7. SumFunctionOnSet(f, U \cup s) = SumFunctionOnSet(f, U) + SumFunctionOnSet(f, s)
      BY <3>3, <3>4, <3>5, <3>6, <1>0
    <3> QED BY <3>7
  <2> QED BY <2>1, <2>2
<1>2. V \in F
  <2> HIDE DEF F
  <2> QED BY <1>1, SubsetInduction
<1> QED BY <1>2

\* A mail as the server can hold it, and a statement about one.
MailSet ==
  [id : Nat, to : Player \cup {None}, from : Player \cup {None}, item : Item \cup {None},
   money : Nat, cod : Nat, normal : BOOLEAN, final : BOOLEAN]

WriteSet ==
  [serial : Player \cup {None}, op : {"insert", "delete", "update", "return"}, mail : MailSet]

DraftSet ==
  [to : Player \cup {None}, from : Player \cup {None}, item : Item \cup {None},
   money : Nat, cod : Nat, normal : BOOLEAN, final : BOOLEAN]

----------------------------------------------------------------------------
(* Lists. *)

\* What the operators on sequences do, position by position.
LEMMA RemovedAt ==
  ASSUME NEW S, NEW q \in Seq(S), NEW i \in 1..Len(q)
  PROVE  /\ RemoveAt(q, i) \in Seq(S)
         /\ Len(RemoveAt(q, i)) = Len(q) - 1
         /\ \A j \in 1..(Len(q) - 1) : RemoveAt(q, i)[j] = IF j < i THEN q[j] ELSE q[j + 1]
<1> DEFINE n == Len(q)
           front == SubSeq(q, 1, i - 1)
           back == SubSeq(q, i + 1, n)
<1>1. n \in Nat /\ i \in 1..n /\ \A j \in 1..n : q[j] \in S
  OBVIOUS
<1>2. /\ front \in Seq(S) /\ Len(front) = i - 1
      /\ \A j \in 1..(i - 1) : front[j] = q[j]
  <2>1. \A j \in 1..(i - 1) : q[j] \in S
    BY <1>1
  <2>2. /\ front \in Seq(S) /\ Len(front) = IF 1 <= i - 1 THEN i - 1 - 1 + 1 ELSE 0
        /\ \A j \in 1..(i - 1 - 1 + 1) : front[j] = q[1 + j - 1]
    BY <1>1, <2>1, SubSeqProperties
  <2> QED
    BY <1>1, <2>2
<1>3. /\ back \in Seq(S) /\ Len(back) = n - i
      /\ \A j \in 1..(n - i) : back[j] = q[i + j]
  <2>1. \A j \in (i + 1)..n : q[j] \in S
    BY <1>1
  <2>2. /\ back \in Seq(S) /\ Len(back) = IF i + 1 <= n THEN n - (i + 1) + 1 ELSE 0
        /\ \A j \in 1..(n - (i + 1) + 1) : back[j] = q[(i + 1) + j - 1]
    BY <1>1, <2>1, SubSeqProperties
  <2> QED
    BY <1>1, <2>2
<1> HIDE DEF front, back
<1>4. /\ front \o back \in Seq(S) /\ Len(front \o back) = Len(front) + Len(back)
      /\ \A j \in 1..(Len(front) + Len(back)) :
           (front \o back)[j] = IF j <= Len(front) THEN front[j] ELSE back[j - Len(front)]
  BY <1>2, <1>3, ConcatProperties
<1>5. RemoveAt(q, i) = front \o back
  BY DEF RemoveAt, front, back
<1>6. Len(front) + Len(back) = n - 1
  BY <1>1, <1>2, <1>3
<1>7. ASSUME NEW j \in 1..(n - 1)
      PROVE  (front \o back)[j] = IF j < i THEN q[j] ELSE q[j + 1]
  <2>1. CASE j < i
    BY <1>1, <1>2, <1>4, <1>6, <2>1
  <2>2. CASE ~(j < i)
    <3>1. /\ j - (i - 1) \in 1..(n - i) /\ i + (j - (i - 1)) = j + 1
      BY <1>1, <2>2
    <3>2. back[j - (i - 1)] = q[j + 1]
      BY <1>3, <3>1
    <3>3. (front \o back)[j] = back[j - Len(front)]
      BY <1>1, <1>2, <1>4, <1>6, <2>2
    <3> QED
      BY <1>2, <2>2, <3>2, <3>3
  <2> QED
    BY <2>1, <2>2
<1> QED
  BY <1>4, <1>5, <1>6, <1>7

----------------------------------------------------------------------------
(* The table after some statements. *)

\* The tables on the way from table to what writes make of it.
Stages(table, writes, g) ==
  g = [k \in 0..Len(writes) |-> IF k = 0 THEN table ELSE Apply(g[k - 1], writes[k])]

\* Executed() is the last of those tables.
LEMMA ExecutedUnfold ==
  ASSUME NEW T, NEW ws
  PROVE  Executed(T, ws) = (CHOOSE g : Stages(T, ws, g))[Len(ws)]
BY DEF Executed, Stages

\* There are such tables.
LEMMA StagesExist ==
  ASSUME NEW T, NEW ws, Len(ws) \in Nat
  PROVE  \E g : Stages(T, ws, g)
<1> DEFINE After(g, k) == IF k = 0 THEN T ELSE Apply(g[k - 1], ws[k])
           Good == {n \in Nat : \E g : g = [k \in 0..n |-> After(g, k)]}
<1>1. 0 \in Good
  <2> DEFINE g == [k \in 0..0 |-> T]
             h == [k \in 0..0 |-> After(g, k)]
  <2>1. g = [k \in 0..0 |-> g[k]] /\ h = [k \in 0..0 |-> h[k]] /\ \A k \in 0..0 : g[k] = h[k]
    OBVIOUS
  <2>2. g = h
    <3> HIDE DEF g, h
    <3> QED BY <2>1
  <2> HIDE DEF g, After
  <2> QED BY <2>2
<1>2. ASSUME NEW n \in Nat, n \in Good PROVE n + 1 \in Good
  <2>1. PICK g : g = [k \in 0..n |-> After(g, k)]
    <3> HIDE DEF After
    <3> QED BY <1>2
  <2>2. \A k \in 0..n : g[k] = After(g, k)
    <3> HIDE DEF After
    <3> QED BY <2>1
  <2> DEFINE h == [k \in 0..(n + 1) |-> IF k = n + 1 THEN After(g, k) ELSE g[k]]
             e == [k \in 0..(n + 1) |-> After(h, k)]
  <2>3. ASSUME NEW k \in 0..(n + 1) PROVE h[k] = After(h, k)
    <3>1. CASE k = 0
      <4>1. k \in 0..n /\ k # n + 1
        BY <3>1
      <4>2. h[k] = g[k] /\ g[k] = After(g, k)
        BY <4>1, <2>2
      <4> QED BY <3>1, <4>2
    <3>2. CASE k # 0
      <4>1. k - 1 \in 0..n /\ k - 1 \in 0..(n + 1) /\ k - 1 # n + 1
        BY <3>2
      <4>2. h[k - 1] = g[k - 1]
        <5> HIDE DEF After
        <5> QED BY <4>1
      <4>3. h[k] = After(g, k)
        <5>1. k # n + 1 => k \in 0..n
          OBVIOUS
        <5> HIDE DEF After
        <5> QED BY <5>1, <2>2
      <4>4. After(h, k) = Apply(h[k - 1], ws[k]) /\ After(g, k) = Apply(g[k - 1], ws[k])
        <5> HIDE DEF h
        <5> QED BY <3>2
      <4> HIDE DEF h, After
      <4> QED BY <4>2, <4>3, <4>4
    <3> QED BY <3>1, <3>2
  <2>4. h = e
    <3>1. h = [k \in 0..(n + 1) |-> h[k]] /\ e = [k \in 0..(n + 1) |-> e[k]]
      <4> HIDE DEF After
      <4> QED OBVIOUS
    <3>2. \A k \in 0..(n + 1) : h[k] = e[k]
      <4> HIDE DEF h, After
      <4> QED BY <2>3
    <3> HIDE DEF h, e
    <3> QED BY <3>1, <3>2
  <2> HIDE DEF h, After
  <2> QED BY <2>4
<1>3. Len(ws) \in Good
  <2> HIDE DEF Good
  <2> QED BY <1>1, <1>2, SetInduction
<1> QED BY <1>3 DEF Stages

\* What the recursion says: each stage is the one before with a statement applied.
LEMMA ExecutedStages ==
  ASSUME NEW T, NEW ws, Len(ws) \in Nat
  PROVE  \E g : /\ g[0] = T
                /\ \A k \in 1..Len(ws) : g[k] = Apply(g[k - 1], ws[k])
                /\ Executed(T, ws) = g[Len(ws)]
<1> DEFINE g == CHOOSE h : Stages(T, ws, h)
           n == Len(ws)
<1>1. g = [k \in 0..n |-> IF k = 0 THEN T ELSE Apply(g[k - 1], ws[k])]
  <2>1. Stages(T, ws, g)
    BY StagesExist
  <2> HIDE DEF g
  <2> QED BY <2>1 DEF Stages
<1>2. Executed(T, ws) = g[n]
  BY ExecutedUnfold
<1> HIDE DEF g, n
<1>3. n \in Nat
  BY DEF n
<1>4. \A k \in 0..n : g[k] = IF k = 0 THEN T ELSE Apply(g[k - 1], ws[k])
  BY <1>1
<1>5. 0 \in 0..n /\ \A k \in 1..n : k \in 0..n /\ k # 0
  BY <1>3
<1>6. g[0] = T /\ \A k \in 1..n : g[k] = Apply(g[k - 1], ws[k])
  BY <1>4, <1>5
<1> QED BY <1>2, <1>6 DEF n

\* Any stages lead to the same table.
LEMMA ExecutedIs ==
  ASSUME NEW T, NEW ws, Len(ws) \in Nat, NEW g, g[0] = T,
         \A k \in 1..Len(ws) : g[k] = Apply(g[k - 1], ws[k])
  PROVE  Executed(T, ws) = g[Len(ws)]
<1> DEFINE n == Len(ws)
<1>1. PICK h : /\ h[0] = T
               /\ \A k \in 1..n : h[k] = Apply(h[k - 1], ws[k])
               /\ Executed(T, ws) = h[n]
  BY ExecutedStages
<1> DEFINE Good == {k \in Nat : k <= n => g[k] = h[k]}
<1>2. 0 \in Good
  BY <1>1
<1>3. ASSUME NEW k \in Nat, k \in Good PROVE k + 1 \in Good
  <2> SUFFICES ASSUME k + 1 <= n PROVE g[k + 1] = h[k + 1]
    OBVIOUS
  <2>1. k + 1 \in 1..n /\ (k + 1) - 1 = k /\ k <= n
    OBVIOUS
  <2>2. g[k] = h[k]
    BY <2>1, <1>3
  <2>3. g[k + 1] = Apply(g[(k + 1) - 1], ws[k + 1]) /\ h[k + 1] = Apply(h[(k + 1) - 1], ws[k + 1])
    BY <2>1, <1>1
  <2> QED BY <2>1, <2>2, <2>3
<1>4. n \in Good
  <2> HIDE DEF Good
  <2> QED BY <1>2, <1>3, SetInduction
<1> QED BY <1>1, <1>4

\* No statement changes nothing.
LEMMA ExecutedNone ==
  ASSUME NEW T
  PROVE  Executed(T, <<>>) = T
<1> DEFINE g == [k \in 0..0 |-> T]
           ws == <<>>
<1>1. g[0] = T /\ \A k \in 1..Len(ws) : g[k] = Apply(g[k - 1], ws[k])
  OBVIOUS
<1>2. Len(ws) = 0 /\ Len(ws) \in Nat
  OBVIOUS
<1> HIDE DEF g, ws
<1>3. Executed(T, ws) = g[Len(ws)]
  BY <1>1, <1>2, ExecutedIs
<1> QED BY <1>1, <1>2, <1>3 DEF ws

\* One statement.
LEMMA ExecutedOne ==
  ASSUME NEW T, NEW w
  PROVE  Executed(T, <<w>>) = Apply(T, w)
<1> DEFINE g == [k \in 0..1 |-> IF k = 0 THEN T ELSE Apply(T, w)]
           ws == <<w>>
<1>0. Len(ws) = 1 /\ ws[1] = w /\ Len(ws) \in Nat
  OBVIOUS
<1>1. g[0] = T /\ g[1] = Apply(T, w)
  OBVIOUS
<1> HIDE DEF g, ws
<1>2. \A k \in 1..Len(ws) : k = 1 /\ k - 1 = 0
  BY <1>0
<1>3. \A k \in 1..Len(ws) : g[k] = Apply(g[k - 1], ws[k])
  BY <1>0, <1>1, <1>2
<1>4. Executed(T, ws) = g[Len(ws)]
  BY <1>0, <1>1, <1>3, ExecutedIs
<1> QED BY <1>0, <1>1, <1>4 DEF ws

\* Statements queued later are executed on what the earlier ones made.
LEMMA ExecutedConcat ==
  ASSUME NEW T, NEW W, NEW s \in Seq(W), NEW t \in Seq(W)
  PROVE  Executed(T, s \o t) = Executed(Executed(T, s), t)
<1> DEFINE n == Len(s)
           m == Len(t)
           r == s \o t
<1>0. /\ n \in Nat /\ m \in Nat /\ Len(r) = n + m
      /\ \A k \in 1..n : r[k] = s[k]
      /\ \A k \in (n + 1)..(n + m) : r[k] = t[k - n]
  OBVIOUS
<1>1. PICK g : /\ g[0] = T
               /\ \A k \in 1..n : g[k] = Apply(g[k - 1], s[k])
               /\ Executed(T, s) = g[n]
  BY <1>0, ExecutedStages
<1>2. PICK h : /\ h[0] = g[n]
               /\ \A k \in 1..m : h[k] = Apply(h[k - 1], t[k])
               /\ Executed(g[n], t) = h[m]
  <2> DEFINE U == g[n]
  <2>1. Len(t) \in Nat
    BY <1>0
  <2> HIDE DEF U
  <2>2. \E h : /\ h[0] = U
               /\ \A k \in 1..Len(t) : h[k] = Apply(h[k - 1], t[k])
               /\ Executed(U, t) = h[Len(t)]
    BY <2>1, ExecutedStages
  <2> QED BY <2>2 DEF U
<1> HIDE DEF n, m, r
<1> DEFINE e == [k \in 0..(n + m) |-> IF k <= n THEN g[k] ELSE h[k - n]]
<1>3. e[0] = T
  BY <1>0, <1>1
<1>4. ASSUME NEW k \in 1..(n + m) PROVE e[k] = Apply(e[k - 1], r[k])
  <2>0. k \in 0..(n + m) /\ k - 1 \in 0..(n + m)
    BY <1>0
  <2>1. CASE k <= n
    <3>1. k \in 1..n /\ k - 1 <= n
      BY <2>1, <1>0
    <3>2. e[k] = g[k] /\ e[k - 1] = g[k - 1]
      BY <2>0, <2>1, <3>1
    <3> QED BY <3>1, <3>2, <1>0, <1>1
  <2>2. CASE k = n + 1
    <3>1. ~ (k <= n) /\ k - 1 <= n /\ k - n = 1 /\ k - 1 = n /\ 1 \in 1..m /\ 1 - 1 = 0
          /\ k \in (n + 1)..(n + m)
      BY <2>2, <1>0
    <3>2. e[k] = h[1] /\ e[k - 1] = g[n]
      BY <2>0, <3>1
    <3>3. h[1] = Apply(h[1 - 1], t[1])
      BY <3>1, <1>2
    <3>4. r[k] = t[1]
      BY <3>1, <1>0
    <3> QED BY <3>1, <3>2, <3>3, <3>4, <1>2
  <2>3. CASE k > n + 1
    <3>1. ~ (k <= n) /\ ~ (k - 1 <= n) /\ k - n \in 1..m /\ (k - 1) - n = (k - n) - 1
          /\ k \in (n + 1)..(n + m)
      BY <2>3, <1>0
    <3>2. e[k] = h[k - n] /\ e[k - 1] = h[(k - n) - 1]
      BY <2>0, <3>1
    <3>3. h[k - n] = Apply(h[(k - n) - 1], t[k - n])
      BY <3>1, <1>2
    <3>4. r[k] = t[k - n]
      BY <3>1, <1>0
    <3> QED BY <3>2, <3>3, <3>4
  <2> QED BY <2>1, <2>2, <2>3, <1>0
<1>5. e[n + m] = h[m]
  <2>1. n + m \in 0..(n + m) /\ (n + m) - n = m
    BY <1>0
  <2>2. CASE m = 0
    <3>1. n + m <= n /\ n + m = n
      BY <2>2, <1>0
    <3> QED BY <2>1, <3>1, <2>2, <1>2
  <2>3. CASE m # 0
    <3>1. ~ (n + m <= n)
      BY <2>3, <1>0
    <3> QED BY <2>1, <3>1
  <2> QED BY <2>2, <2>3
<1> HIDE DEF e
<1>6. Len(r) \in Nat /\ Len(r) = n + m
  BY <1>0
<1>7. \A k \in 1..Len(r) : e[k] = Apply(e[k - 1], r[k])
  BY <1>4, <1>6
<1>8. Executed(T, r) = e[Len(r)]
  BY <1>3, <1>6, <1>7, ExecutedIs
<1> QED BY <1>1, <1>2, <1>5, <1>6, <1>8 DEF r

\* The image of a finite set is finite.
LEMMA ImageFinite ==
  ASSUME NEW S, IsFiniteSet(S), NEW f
  PROVE  IsFiniteSet({f[x] : x \in S})
<1> DEFINE T == {f[x] : x \in S}
           g == [x \in S |-> f[x]]
<1>1. g \in Surjection(S, T)
  BY DEF Surjection
<1> HIDE DEF g, T
<1>2. IsFiniteSet(T)
  BY <1>1, FS_Surjection
<1> QED BY <1>2 DEF T

\* A statement leaves mails and leaves the others alone.
LEMMA ApplyType ==
  ASSUME NEW T \in SUBSET MailSet, NEW w \in WriteSet
  PROVE  /\ Apply(T, w) \in SUBSET MailSet
         /\ \A x : x.id # w.mail.id => (x \in Apply(T, w) <=> x \in T)
<1> DEFINE others == {m \in T : m.id # w.mail.id}
           here == T \ others
<1>0. w.mail \in MailSet /\ w.op \in {"insert", "delete", "update", "return"}
  BY DEF WriteSet
<1>1. \A m \in here : m \in MailSet /\ m.id = w.mail.id /\ m \in T
  OBVIOUS
<1>2. CASE w.op = "insert"
  <2>1. Apply(T, w) = T \cup {w.mail}
    BY <1>2 DEF Apply
  <2> QED BY <2>1, <1>0
<1>3. CASE w.op = "delete"
  <2>1. Apply(T, w) = others
    BY <1>3 DEF Apply
  <2> QED BY <2>1
<1>4. CASE w.op = "update"
  <2> DEFINE e(m) == [m EXCEPT !.money = w.mail.money, !.cod = w.mail.cod, !.item = w.mail.item]
  <2>1. Apply(T, w) = others \cup {e(m) : m \in here}
    BY <1>4 DEF Apply
  <2>2. ASSUME NEW m \in here PROVE e(m) \in MailSet /\ e(m).id = w.mail.id
    <3>1. m \in MailSet /\ m.id = w.mail.id
      BY <1>1
    <3> HIDE DEF here
    <3> QED BY <3>1, <1>0 DEF MailSet
  <2> HIDE DEF e, here
  <2> QED BY <2>1, <2>2
<1>5. CASE w.op = "return"
  <2> DEFINE e(m) == [m EXCEPT !.to = m.from, !.from = m.to, !.cod = 0, !.final = TRUE]
  <2>1. Apply(T, w) = others \cup {e(m) : m \in here}
    BY <1>5 DEF Apply
  <2>2. ASSUME NEW m \in here PROVE e(m) \in MailSet /\ e(m).id = w.mail.id
    <3>1. m \in MailSet /\ m.id = w.mail.id
      BY <1>1
    <3> HIDE DEF here
    <3> QED BY <3>1, <1>0 DEF MailSet
  <2> HIDE DEF e, here
  <2> QED BY <2>1, <2>2
<1> QED BY <1>0, <1>2, <1>3, <1>4, <1>5

\* A statement leaves the table finite.
LEMMA ApplyFinite ==
  ASSUME NEW T \in SUBSET MailSet, NEW w \in WriteSet, IsFiniteSet(T)
  PROVE  IsFiniteSet(Apply(T, w))
<1> DEFINE others == {m \in T : m.id # w.mail.id}
           here == T \ others
<1>0. w.op \in {"insert", "delete", "update", "return"}
  BY DEF WriteSet
<1>1. IsFiniteSet(others) /\ IsFiniteSet(here)
  BY FS_Subset
<1>2. CASE w.op = "insert"
  <2>1. Apply(T, w) = T \cup {w.mail}
    BY <1>2 DEF Apply
  <2> QED BY <2>1, FS_AddElement
<1>3. CASE w.op = "delete"
  <2>1. Apply(T, w) = others
    BY <1>3 DEF Apply
  <2> QED BY <2>1, <1>1
<1>4. CASE w.op = "update"
  <2> DEFINE e(m) == [m EXCEPT !.money = w.mail.money, !.cod = w.mail.cod, !.item = w.mail.item]
             f == [m \in here |-> e(m)]
  <2>1. Apply(T, w) = others \cup {e(m) : m \in here}
    BY <1>4 DEF Apply
  <2>2. {e(m) : m \in here} = {f[m] : m \in here}
    <3> HIDE DEF e, here
    <3> QED OBVIOUS
  <2> HIDE DEF e, f, here, others
  <2>3. IsFiniteSet({f[m] : m \in here})
    BY <1>1, ImageFinite
  <2> QED BY <2>1, <2>2, <2>3, <1>1, FS_Union
<1>5. CASE w.op = "return"
  <2> DEFINE e(m) == [m EXCEPT !.to = m.from, !.from = m.to, !.cod = 0, !.final = TRUE]
             f == [m \in here |-> e(m)]
  <2>1. Apply(T, w) = others \cup {e(m) : m \in here}
    BY <1>5 DEF Apply
  <2>2. {e(m) : m \in here} = {f[m] : m \in here}
    <3> HIDE DEF e, here
    <3> QED OBVIOUS
  <2> HIDE DEF e, f, here, others
  <2>3. IsFiniteSet({f[m] : m \in here})
    BY <1>1, ImageFinite
  <2> QED BY <2>1, <2>2, <2>3, <1>1, FS_Union
<1> QED BY <1>0, <1>2, <1>3, <1>4, <1>5

\* What a statement does to a mail depends on the mails of that id only.
LEMMA ApplyLocal ==
  ASSUME NEW T \in SUBSET MailSet, NEW V \in SUBSET MailSet, NEW w \in WriteSet,
         \A x : x.id = w.mail.id => (x \in T <=> x \in V)
  PROVE  \A x : x.id = w.mail.id => (x \in Apply(T, w) <=> x \in Apply(V, w))
<1> DEFINE othersT == {m \in T : m.id # w.mail.id}
           othersV == {m \in V : m.id # w.mail.id}
           hereT == T \ othersT
           hereV == V \ othersV
<1>0. w.op \in {"insert", "delete", "update", "return"}
  BY DEF WriteSet
<1>1. hereT = hereV
  OBVIOUS
<1>2. CASE w.op = "insert"
  <2>1. Apply(T, w) = T \cup {w.mail} /\ Apply(V, w) = V \cup {w.mail}
    BY <1>2 DEF Apply
  <2> QED BY <2>1
<1>3. CASE w.op = "delete"
  <2>1. Apply(T, w) = othersT /\ Apply(V, w) = othersV
    BY <1>3 DEF Apply
  <2> QED BY <2>1
<1>4. CASE w.op = "update"
  <2> DEFINE e(m) == [m EXCEPT !.money = w.mail.money, !.cod = w.mail.cod, !.item = w.mail.item]
  <2>1. Apply(T, w) = othersT \cup {e(m) : m \in hereT} /\ Apply(V, w) = othersV \cup {e(m) : m \in hereV}
    BY <1>4 DEF Apply
  <2>2. {e(m) : m \in hereT} = {e(m) : m \in hereV}
    BY <1>1
  <2>3. \A x : x.id = w.mail.id => x \notin othersT /\ x \notin othersV
    OBVIOUS
  <2> HIDE DEF e, hereT, hereV, othersT, othersV
  <2> QED BY <2>1, <2>2, <2>3
<1>5. CASE w.op = "return"
  <2> DEFINE e(m) == [m EXCEPT !.to = m.from, !.from = m.to, !.cod = 0, !.final = TRUE]
  <2>1. Apply(T, w) = othersT \cup {e(m) : m \in hereT} /\ Apply(V, w) = othersV \cup {e(m) : m \in hereV}
    BY <1>5 DEF Apply
  <2>2. {e(m) : m \in hereT} = {e(m) : m \in hereV}
    BY <1>1
  <2>3. \A x : x.id = w.mail.id => x \notin othersT /\ x \notin othersV
    OBVIOUS
  <2> HIDE DEF e, hereT, hereV, othersT, othersV
  <2> QED BY <2>1, <2>2, <2>3
<1> QED BY <1>0, <1>2, <1>3, <1>4, <1>5

\* Statements about different mails may be exchanged.
LEMMA ApplySwap ==
  ASSUME NEW T \in SUBSET MailSet, NEW w \in WriteSet, NEW v \in WriteSet,
         w.mail.id # v.mail.id
  PROVE  Apply(Apply(T, w), v) = Apply(Apply(T, v), w)
<1> DEFINE A == Apply(T, w)
           B == Apply(T, v)
<1>1. A \in SUBSET MailSet /\ \A x : x.id # w.mail.id => (x \in A <=> x \in T)
  BY ApplyType
<1>2. B \in SUBSET MailSet /\ \A x : x.id # v.mail.id => (x \in B <=> x \in T)
  BY ApplyType
<1> HIDE DEF A, B
<1>3. \A x : x.id # v.mail.id => (x \in Apply(A, v) <=> x \in A)
  BY <1>1, ApplyType
<1>4. \A x : x.id # w.mail.id => (x \in Apply(B, w) <=> x \in B)
  BY <1>2, ApplyType
<1>5. \A x : x.id = w.mail.id => (x \in Apply(B, w) <=> x \in A)
  <2>1. \A x : x.id = w.mail.id => (x \in B <=> x \in T)
    BY <1>2
  <2>2. \A x : x.id = w.mail.id => (x \in Apply(B, w) <=> x \in Apply(T, w))
    BY <2>1, <1>2, ApplyLocal
  <2> QED BY <2>2 DEF A
<1>6. \A x : x.id = v.mail.id => (x \in Apply(A, v) <=> x \in B)
  <2>1. \A x : x.id = v.mail.id => (x \in A <=> x \in T)
    BY <1>1
  <2>2. \A x : x.id = v.mail.id => (x \in Apply(A, v) <=> x \in Apply(T, v))
    BY <2>1, <1>1, ApplyLocal
  <2> QED BY <2>2 DEF B
<1>7. \A x : x \in Apply(A, v) <=> x \in Apply(B, w)
  BY <1>1, <1>2, <1>3, <1>4, <1>5, <1>6
<1>8. Apply(A, v) = Apply(B, w)
  BY <1>7
<1> QED BY <1>8 DEF A, B

\* Statements leave a finite table of mails.
LEMMA ExecutedType ==
  ASSUME NEW T \in SUBSET MailSet, IsFiniteSet(T), NEW ws \in Seq(WriteSet)
  PROVE  Executed(T, ws) \in SUBSET MailSet /\ IsFiniteSet(Executed(T, ws))
<1> DEFINE n == Len(ws)
<1>0. n \in Nat /\ \A k \in 1..n : ws[k] \in WriteSet
  OBVIOUS
<1>1. PICK g : /\ g[0] = T
               /\ \A k \in 1..n : g[k] = Apply(g[k - 1], ws[k])
               /\ Executed(T, ws) = g[n]
  BY ExecutedStages
<1> HIDE DEF n
<1> DEFINE Good == {k \in Nat : k <= n => g[k] \in SUBSET MailSet /\ IsFiniteSet(g[k])}
<1>2. 0 \in Good
  BY <1>1
<1>3. ASSUME NEW k \in Nat, k \in Good PROVE k + 1 \in Good
  <2> SUFFICES ASSUME k + 1 <= n PROVE g[k + 1] \in SUBSET MailSet /\ IsFiniteSet(g[k + 1])
    OBVIOUS
  <2>1. k + 1 \in 1..n /\ (k + 1) - 1 = k /\ k <= n
    BY <1>0
  <2>2. g[k] \in SUBSET MailSet /\ IsFiniteSet(g[k])
    BY <2>1, <1>3
  <2>3. g[k + 1] = Apply(g[k], ws[k + 1]) /\ ws[k + 1] \in WriteSet
    BY <2>1, <1>0, <1>1
  <2>4. Apply(g[k], ws[k + 1]) \in SUBSET MailSet
    BY <2>2, <2>3, ApplyType
  <2>5. IsFiniteSet(Apply(g[k], ws[k + 1]))
    BY <2>2, <2>3, ApplyFinite
  <2> QED BY <2>3, <2>4, <2>5
<1>4. n \in Good
  <2> HIDE DEF Good
  <2> QED BY <1>0, <1>2, <1>3, SetInduction
<1> QED BY <1>0, <1>1, <1>4

\* A mail no statement is about is not touched.
LEMMA ExecutedElsewhere ==
  ASSUME NEW T \in SUBSET MailSet, IsFiniteSet(T), NEW ws \in Seq(WriteSet),
         NEW x, \A k \in 1..Len(ws) : ws[k].mail.id # x.id
  PROVE  x \in Executed(T, ws) <=> x \in T
<1> DEFINE n == Len(ws)
<1>0. n \in Nat /\ \A k \in 1..n : ws[k] \in WriteSet /\ ws[k].mail.id # x.id
  OBVIOUS
<1>1. PICK g : /\ g[0] = T
               /\ \A k \in 1..n : g[k] = Apply(g[k - 1], ws[k])
               /\ Executed(T, ws) = g[n]
  BY ExecutedStages
<1> HIDE DEF n
<1> DEFINE Good == {k \in Nat : k <= n => g[k] \in SUBSET MailSet /\ (x \in g[k] <=> x \in T)}
<1>2. 0 \in Good
  BY <1>1
<1>3. ASSUME NEW k \in Nat, k \in Good PROVE k + 1 \in Good
  <2> SUFFICES ASSUME k + 1 <= n PROVE g[k + 1] \in SUBSET MailSet /\ (x \in g[k + 1] <=> x \in T)
    OBVIOUS
  <2>1. k + 1 \in 1..n /\ (k + 1) - 1 = k /\ k <= n
    BY <1>0
  <2>2. g[k] \in SUBSET MailSet /\ (x \in g[k] <=> x \in T)
    BY <2>1, <1>3
  <2> DEFINE w == ws[k + 1]
  <2>3. g[k + 1] = Apply(g[k], w) /\ w \in WriteSet /\ w.mail.id # x.id
    BY <2>1, <1>0, <1>1
  <2> HIDE DEF w
  <2>4. Apply(g[k], w) \in SUBSET MailSet /\ (x \in Apply(g[k], w) <=> x \in g[k])
    BY <2>2, <2>3, ApplyType
  <2> QED BY <2>2, <2>3, <2>4
<1>4. n \in Good
  <2> HIDE DEF Good
  <2> QED BY <1>0, <1>2, <1>3, SetInduction
<1> QED BY <1>0, <1>1, <1>4

\* Executing a statement before older ones about other mails makes no difference.
LEMMA ExecutedFirst ==
  ASSUME NEW T \in SUBSET MailSet, IsFiniteSet(T), NEW ws \in Seq(WriteSet), NEW i \in 1..Len(ws),
         \A j \in 1..(i - 1) : ws[j].mail.id # ws[i].mail.id
  PROVE  Executed(Apply(T, ws[i]), RemoveAt(ws, i)) = Executed(T, ws)
<1> DEFINE n == Len(ws)
           w == ws[i]
           rs == RemoveAt(ws, i)
<1>0. n \in Nat /\ i \in 1..n /\ w \in WriteSet /\ \A k \in 1..n : ws[k] \in WriteSet
  OBVIOUS
<1>1. PICK g : /\ g[0] = T
               /\ \A k \in 1..n : g[k] = Apply(g[k - 1], ws[k])
               /\ Executed(T, ws) = g[n]
  BY ExecutedStages
<1>2. rs \in Seq(WriteSet) /\ Len(rs) = n - 1
      /\ \A j \in 1..(n - 1) : rs[j] = IF j < i THEN ws[j] ELSE ws[j + 1]
  BY RemovedAt
<1>3. \A j \in 1..(i - 1) : ws[j].mail.id # w.mail.id
  OBVIOUS
<1>4. w = ws[i]
  OBVIOUS
<1> HIDE DEF n, w, rs
<1>5. \A k \in 0..n : g[k] \in SUBSET MailSet
  <2> DEFINE Good == {k \in Nat : k <= n => g[k] \in SUBSET MailSet}
  <2>1. 0 \in Good
    BY <1>1
  <2>2. ASSUME NEW k \in Nat, k \in Good PROVE k + 1 \in Good
    <3> SUFFICES ASSUME k + 1 <= n PROVE g[k + 1] \in SUBSET MailSet
      OBVIOUS
    <3>1. k + 1 \in 1..n /\ (k + 1) - 1 = k /\ k <= n
      BY <1>0
    <3>2. g[k] \in SUBSET MailSet
      BY <3>1, <2>2
    <3>3. g[k + 1] = Apply(g[k], ws[k + 1]) /\ ws[k + 1] \in WriteSet
      BY <3>1, <1>0, <1>1
    <3> QED BY <3>2, <3>3, ApplyType
  <2>3. \A k \in Nat : k \in Good
    <3> HIDE DEF Good
    <3> QED BY <2>1, <2>2, SetInduction
  <2> QED BY <2>3, <1>0
<1> DEFINE h == [k \in 0..(n - 1) |-> IF k < i THEN Apply(g[k], w) ELSE g[k + 1]]
<1>6. h[0] = Apply(T, w)
  <2>1. 0 \in 0..(n - 1) /\ 0 < i
    BY <1>0
  <2> QED BY <2>1, <1>1
<1>7. ASSUME NEW k \in 1..(n - 1) PROVE h[k] = Apply(h[k - 1], rs[k])
  <2>0. k \in 0..(n - 1) /\ k - 1 \in 0..(n - 1) /\ k \in 0..n /\ k - 1 \in 0..n /\ k \in 1..n
    BY <1>0
  <2>1. CASE k < i
    <3>1. k - 1 < i /\ k \in 1..(i - 1)
      BY <2>1, <1>0, <2>0
    <3>2. h[k] = Apply(g[k], w) /\ h[k - 1] = Apply(g[k - 1], w) /\ rs[k] = ws[k]
      BY <2>0, <2>1, <3>1, <1>2
    <3> DEFINE v == ws[k]
               U == g[k - 1]
    <3>3. g[k] = Apply(U, v) /\ v \in WriteSet /\ U \in SUBSET MailSet /\ v.mail.id # w.mail.id
      BY <2>0, <3>1, <1>0, <1>1, <1>3, <1>5
    <3>4. h[k] = Apply(g[k], w) /\ h[k - 1] = Apply(U, w) /\ rs[k] = v
      BY <3>2
    <3> HIDE DEF v, U, h
    <3>5. Apply(Apply(U, v), w) = Apply(Apply(U, w), v)
      BY <3>3, <1>0, ApplySwap
    <3> QED BY <3>3, <3>4, <3>5
  <2>2. CASE k = i
    <3>1. ~ (k < i) /\ k - 1 < i /\ k + 1 \in 1..n /\ (k + 1) - 1 = k
      BY <2>2, <1>0, <2>0
    <3>2. h[k] = g[k + 1] /\ h[k - 1] = Apply(g[k - 1], w) /\ rs[k] = ws[k + 1]
      BY <2>0, <3>1, <1>2
    <3>3. g[k + 1] = Apply(g[k], ws[k + 1]) /\ g[k] = Apply(g[k - 1], ws[k])
      BY <3>1, <2>0, <1>1
    <3>4. ws[k] = w
      BY <2>2, <1>4
    <3> HIDE DEF h
    <3> QED BY <3>2, <3>3, <3>4
  <2>3. CASE k > i
    <3>1. ~ (k < i) /\ ~ (k - 1 < i) /\ k + 1 \in 1..n /\ (k + 1) - 1 = k /\ (k - 1) + 1 = k
      BY <2>3, <1>0, <2>0
    <3>2. h[k] = g[k + 1] /\ h[k - 1] = g[k] /\ rs[k] = ws[k + 1]
      BY <2>0, <3>1, <1>2
    <3>3. g[k + 1] = Apply(g[k], ws[k + 1])
      BY <3>1, <2>0, <1>1
    <3> HIDE DEF h
    <3> QED BY <3>2, <3>3
  <2> QED BY <2>1, <2>2, <2>3, <1>0
<1>8. h[n - 1] = g[n]
  <2>0. n - 1 \in 0..(n - 1) /\ (n - 1) + 1 = n /\ n \in 1..n
    BY <1>0
  <2>1. CASE n - 1 < i
    <3>1. i = n
      BY <2>1, <1>0
    <3>2. g[n] = Apply(g[n - 1], w)
      BY <3>1, <2>0, <1>1, <1>4
    <3> QED BY <2>0, <2>1, <3>2
  <2>2. CASE ~ (n - 1 < i)
    BY <2>0, <2>2
  <2> QED BY <2>1, <2>2
<1> HIDE DEF h
<1>9. Len(rs) \in Nat /\ \A k \in 1..Len(rs) : h[k] = Apply(h[k - 1], rs[k])
  BY <1>0, <1>2, <1>7
<1> DEFINE A == Apply(T, w)
<1>10. h[0] = A
  BY <1>6
<1> HIDE DEF A
<1>11. Executed(A, rs) = h[Len(rs)]
  BY <1>9, <1>10, ExecutedIs
<1> QED BY <1>1, <1>2, <1>8, <1>11 DEF A, rs, w

----------------------------------------------------------------------------
(* Statements about several mails, and the mails that drafts become. *)

\* SetToSeq() lists every element once.
LEMMA Listing ==
  ASSUME NEW S, IsFiniteSet(S)
  PROVE  /\ SetToSeq(S) \in Seq(S) /\ Len(SetToSeq(S)) = Cardinality(S)
         /\ DOMAIN SetToSeq(S) = 1..Len(SetToSeq(S))
         /\ \A x \in S : \E k \in 1..Len(SetToSeq(S)) : SetToSeq(S)[k] = x
<1> DEFINE n == Cardinality(S)
           q == SetToSeq(S)
<1>1. n \in Nat /\ ExistsBijection(1..n, S)
  BY FS_CardinalityType
<1>2. PICK b \in Bijection(1..n, S) : TRUE
  BY <1>1 DEF ExistsBijection
<1>3. b \in [1..n -> S] /\ IsInjective(b)
  BY <1>2 DEF Bijection, Injection, Surjection, IsInjective
<1>4. q \in [1..n -> S] /\ IsInjective(q)
  BY <1>3 DEF SetToSeq
<1> HIDE DEF q
<1>5. q \in Injection(1..n, S)
  BY <1>4 DEF Injection, IsInjective
<1>6. IsFiniteSet(1..n) /\ Cardinality(1..n) = n
  BY <1>1, FS_Interval
<1>7. q \in Surjection(1..n, S)
  <2> HIDE DEF n
  <2>1. Cardinality(1..n) = Cardinality(S)
    BY <1>6 DEF n
  <2> QED BY <1>5, <2>1, FS_Injection
<1>8. \A x \in S : \E k \in 1..n : q[k] = x
  BY <1>7 DEF Surjection
<1>9. q \in Seq(S) /\ Len(q) = n /\ DOMAIN q = 1..n
  <2> HIDE DEF n
  <2> QED BY <1>1, <1>4
<1> HIDE DEF n
<1>10. /\ q \in Seq(S) /\ Len(q) = n /\ DOMAIN q = 1..Len(q)
       /\ \A x \in S : \E k \in 1..Len(q) : q[k] = x
  BY <1>8, <1>9
<1> QED BY <1>10 DEF q, n

\* q lists the mails in the order of the statements.
InOrder(q, s, op, M) ==
  /\ q \in Seq(M) /\ Len(q) = Cardinality(M)
  /\ Writes(s, op, M) \in Seq(WriteSet)
  /\ Len(Writes(s, op, M)) = Len(q)
  /\ \A k \in 1..Len(q) : Writes(s, op, M)[k] = Write(s, op, q[k]) /\ q[k] \in M
  /\ \A x \in M : \E k \in 1..Len(q) : q[k] = x

\* Writes() makes a statement about each mail, in some order.
LEMMA WritesList ==
  ASSUME NEW M \in SUBSET MailSet, IsFiniteSet(M), NEW s \in Player \cup {None},
         NEW op \in {"insert", "delete", "update", "return"}
  PROVE  \E q : InOrder(q, s, op, M)
<1> DEFINE q == SetToSeq(M)
           n == Len(q)
           ws == [k \in 1..n |-> Write(s, op, q[k])]
<1>1. /\ q \in Seq(M) /\ n = Cardinality(M) /\ DOMAIN q = 1..n
      /\ \A x \in M : \E k \in 1..n : q[k] = x
  BY Listing
<1>2. Writes(s, op, M) = ws
  BY <1>1 DEF Writes
<1> HIDE DEF q
<1>3. n \in Nat /\ \A k \in 1..n : q[k] \in M
  BY <1>1
<1>4. \A k \in 1..n : Write(s, op, q[k]) \in WriteSet
  BY <1>3 DEF Write, WriteSet
<1> HIDE DEF n
<1>5. ws \in Seq(WriteSet) /\ Len(ws) = n /\ \A k \in 1..n : ws[k] = Write(s, op, q[k])
  BY <1>3, <1>4
<1> HIDE DEF ws
<1>6. n = Len(q)
  BY DEF n
<1> QED BY <1>1, <1>2, <1>3, <1>5, <1>6 DEF InOrder

\* Those are as many statements as mails.
LEMMA WritesType ==
  ASSUME NEW M \in SUBSET MailSet, IsFiniteSet(M), NEW s \in Player \cup {None},
         NEW op \in {"insert", "delete", "update", "return"}
  PROVE  Writes(s, op, M) \in Seq(WriteSet) /\ Len(Writes(s, op, M)) = Cardinality(M)
<1> DEFINE ws == Writes(s, op, M)
<1>1. PICK q : InOrder(q, s, op, M)
  BY WritesList
<1> QED BY <1>1 DEF InOrder

\* No mails, no statements.
LEMMA WritesNone ==
  ASSUME NEW s, NEW op
  PROVE  Writes(s, op, {}) = <<>>
<1>1. DOMAIN SetToSeq({}) = 1..0
  <2>1. IsFiniteSet({}) /\ Cardinality({}) = 0
    BY FS_EmptySet
  <2> QED BY <2>1, Listing
<1>2. Writes(s, op, {}) = [k \in 1..0 |-> Write(s, op, SetToSeq({})[k])]
  BY <1>1 DEF Writes
<1> QED BY <1>2

\* MailDraft::SendMailTo(): the mails are in the table once their statements ran.
LEMMA ExecutedInserts ==
  ASSUME NEW T, NEW M \in SUBSET MailSet, IsFiniteSet(M), NEW s \in Player \cup {None}
  PROVE  Executed(T, Writes(s, "insert", M)) = T \cup M
<1> DEFINE ws == Writes(s, "insert", M)
<1>0. PICK q : InOrder(q, s, "insert", M)
  BY WritesList
<1>1. /\ q \in Seq(M) /\ Len(q) = Len(ws)
      /\ \A k \in 1..Len(q) : ws[k] = Write(s, "insert", q[k]) /\ q[k] \in M
      /\ \A x \in M : \E k \in 1..Len(q) : q[k] = x
  BY <1>0 DEF InOrder
<1> HIDE DEF ws
<1> DEFINE n == Len(ws)
           g == [k \in 0..n |-> T \cup {q[j] : j \in 1..k}]
<1>2. n \in Nat /\ n = Len(q)
  BY <1>1
<1> HIDE DEF n
<1>3. g[0] = T
  BY <1>2
<1>4. ASSUME NEW k \in 1..n PROVE g[k] = Apply(g[k - 1], ws[k])
  <2>1. k \in 0..n /\ k - 1 \in 0..n /\ 1..k = 1..(k - 1) \cup {k}
    BY <1>2
  <2>2. g[k] = T \cup {q[j] : j \in 1..k} /\ g[k - 1] = T \cup {q[j] : j \in 1..(k - 1)}
    BY <2>1
  <2>3. {q[j] : j \in 1..k} = {q[j] : j \in 1..(k - 1)} \cup {q[k]}
    BY <2>1
  <2>4. ws[k] = Write(s, "insert", q[k])
    BY <1>1, <1>2
  <2> HIDE DEF g
  <2>5. Apply(g[k - 1], ws[k]) = g[k - 1] \cup {q[k]}
    BY <2>4 DEF Apply, Write
  <2> QED BY <2>2, <2>3, <2>5
<1>5. g[n] = T \cup M
  <2>1. g[n] = T \cup {q[j] : j \in 1..n}
    BY <1>2
  <2>2. {q[j] : j \in 1..n} = M
    BY <1>1, <1>2
  <2> QED BY <2>1, <2>2
<1> HIDE DEF g
<1>6. Executed(T, ws) = g[Len(ws)]
  BY <1>2, <1>3, <1>4, ExecutedIs DEF n
<1> QED BY <1>5, <1>6 DEF ws, n

\* SaveMails(): the deleted mails are not in the table once their statements ran.
LEMMA ExecutedDeletes ==
  ASSUME NEW T, NEW M \in SUBSET MailSet, IsFiniteSet(M), NEW s \in Player \cup {None}
  PROVE  Executed(T, Writes(s, "delete", M)) = {m \in T : m.id \notin IdsOf(M)}
<1> DEFINE ws == Writes(s, "delete", M)
<1>0. PICK q : InOrder(q, s, "delete", M)
  BY WritesList
<1>1. /\ q \in Seq(M) /\ Len(q) = Len(ws)
      /\ \A k \in 1..Len(q) : ws[k] = Write(s, "delete", q[k]) /\ q[k] \in M
      /\ \A x \in M : \E k \in 1..Len(q) : q[k] = x
  BY <1>0 DEF InOrder
<1> HIDE DEF ws
<1> DEFINE n == Len(ws)
           g == [k \in 0..n |-> {m \in T : \A j \in 1..k : m.id # q[j].id}]
<1>2. n \in Nat /\ n = Len(q)
  BY <1>1
<1> HIDE DEF n
<1>3. g[0] = T
  BY <1>2
<1>4. ASSUME NEW k \in 1..n PROVE g[k] = Apply(g[k - 1], ws[k])
  <2>1. k \in 0..n /\ k - 1 \in 0..n /\ 1..k = 1..(k - 1) \cup {k}
    BY <1>2
  <2>2. g[k] = {m \in T : \A j \in 1..k : m.id # q[j].id} /\ g[k - 1] = {m \in T : \A j \in 1..(k - 1) : m.id # q[j].id}
    BY <2>1
  <2>3. ws[k] = Write(s, "delete", q[k])
    BY <1>1, <1>2
  <2> HIDE DEF g
  <2>4. Apply(g[k - 1], ws[k]) = {m \in g[k - 1] : m.id # q[k].id}
    BY <2>3 DEF Apply, Write
  <2> QED BY <2>1, <2>2, <2>4
<1>5. g[n] = {m \in T : m.id \notin IdsOf(M)}
  <2>1. g[n] = {m \in T : \A j \in 1..n : m.id # q[j].id}
    BY <1>2
  <2>2. \A y : (\A j \in 1..n : y # q[j].id) <=> y \notin IdsOf(M)
    BY <1>1, <1>2 DEF IdsOf
  <2> HIDE DEF g
  <2> QED BY <2>1, <2>2
<1> HIDE DEF g
<1>6. Executed(T, ws) = g[Len(ws)]
  BY <1>2, <1>3, <1>4, ExecutedIs DEF n
<1> QED BY <1>5, <1>6 DEF ws, n

\* A single mail's statement.
LEMMA WritesOne ==
  ASSUME NEW m \in MailSet, NEW s \in Player \cup {None},
         NEW op \in {"insert", "delete", "update", "return"}
  PROVE  Writes(s, op, {m}) = <<Write(s, op, m)>>
<1> DEFINE ws == Writes(s, op, {m})
<1>0. {m} \in SUBSET MailSet /\ IsFiniteSet({m}) /\ Cardinality({m}) = 1
  BY FS_Singleton
<1> DEFINE M == {m}
<1> HIDE DEF M
<1>1. M \in SUBSET MailSet /\ IsFiniteSet(M) /\ Cardinality(M) = 1
  BY <1>0 DEF M
<1>2. PICK q : InOrder(q, s, op, M)
  BY <1>1, WritesList
<1>3. /\ Writes(s, op, M)[1] = Write(s, op, q[1]) /\ q[1] \in M
      /\ Writes(s, op, M) \in Seq(WriteSet) /\ Len(Writes(s, op, M)) = 1
  BY <1>1, <1>2 DEF InOrder
<1>4. ws \in Seq(WriteSet) /\ Len(ws) = 1 /\ ws[1] = Write(s, op, m)
  BY <1>3 DEF M
<1> HIDE DEF ws
<1>5. ws = <<Write(s, op, m)>>
  BY <1>4
<1> QED BY <1>5 DEF ws

\* A set can be numbered from one that is not smaller.
LEMMA InjectionExists ==
  ASSUME NEW S, IsFiniteSet(S), NEW T, IsFiniteSet(T), Cardinality(S) <= Cardinality(T)
  PROVE  \E f \in [S -> T] : IsInjective(f)
<1> DEFINE n == Cardinality(S)
           m == Cardinality(T)
<1>1. n \in Nat /\ ExistsBijection(1..n, S) /\ m \in Nat /\ ExistsBijection(1..m, T) /\ n <= m
  BY FS_CardinalityType
<1> HIDE DEF n, m
<1>2. PICK b \in Bijection(1..n, S) : TRUE
  BY <1>1 DEF ExistsBijection
<1>3. PICK c \in Bijection(1..m, T) : TRUE
  BY <1>1 DEF ExistsBijection
<1> DEFINE k(x) == CHOOSE j \in 1..n : b[j] = x
           f == [x \in S |-> c[k(x)]]
<1>4. \A x \in S : k(x) \in 1..n /\ b[k(x)] = x
  BY <1>2 DEF Bijection, Surjection
<1> HIDE DEF k
<1>5. \A x \in S : k(x) \in 1..m
  BY <1>1, <1>4
<1>6. f \in [S -> T]
  BY <1>3, <1>5 DEF Bijection, Injection
<1>7. ASSUME NEW x \in S, NEW y \in S, f[x] = f[y] PROVE x = y
  <2>1. c[k(x)] = c[k(y)]
    BY <1>7
  <2>2. k(x) = k(y)
    BY <2>1, <1>3, <1>5 DEF Bijection, Injection, IsInjective
  <2> QED BY <2>2, <1>4
<1>8. IsInjective(f)
  BY <1>6, <1>7 DEF IsInjective
<1> QED BY <1>6, <1>8

\* The mails that drafts become have ids of their own that were free.
LEMMA NumberedIs ==
  ASSUME NEW D \in SUBSET DraftSet, IsFiniteSet(D), MayPost(D)
  PROVE  \E f \in [D -> FreeIds] : IsInjective(f) /\ Numbered(D) = {WithId(d, f[d]) : d \in D}
<1> DEFINE f == CHOOSE f \in [D -> FreeIds] : IsInjective(f)
<1>1. IsFiniteSet(FreeIds)
  <2>1. IsFiniteSet(1..MaxMail)
    BY MailAssumption, FS_Interval
  <2>2. FreeIds \in SUBSET (1..MaxMail)
    BY DEF FreeIds
  <2> QED BY <2>1, <2>2, FS_Subset
<1>2. \E g \in [D -> FreeIds] : IsInjective(g)
  BY <1>1, InjectionExists DEF MayPost
<1>3. f \in [D -> FreeIds] /\ IsInjective(f)
  BY <1>2
<1>4. Numbered(D) = {WithId(d, f[d]) : d \in D}
  BY DEF Numbered
<1> HIDE DEF f
<1> QED BY <1>3, <1>4

\* The mails of drafts have new ids, each its own, and the drafts' contents.
LEMMA NumberedType ==
  ASSUME NEW D \in SUBSET DraftSet, IsFiniteSet(D), MayPost(D)
  PROVE  /\ Numbered(D) \in SUBSET MailSet /\ IsFiniteSet(Numbered(D))
         /\ \A m \in Numbered(D) : m.id \in FreeIds
         /\ \A m, n \in Numbered(D) : m.id = n.id => m = n
         /\ \A d \in D : \E m \in Numbered(D) : m = WithId(d, m.id)
         /\ \A m \in Numbered(D) : \E d \in D : m = WithId(d, m.id)
         /\ \A d \in D : \A m, n \in Numbered(D) : m = WithId(d, m.id) /\ n = WithId(d, n.id) => m = n
<1> DEFINE N == Numbered(D)
<1>1. PICK f \in [D -> FreeIds] : IsInjective(f) /\ N = {WithId(d, f[d]) : d \in D}
  BY NumberedIs
<1>2. FreeIds \subseteq Nat
  BY MailAssumption DEF FreeIds
<1> HIDE DEF N
<1>3. \A d \in D : /\ WithId(d, f[d]) \in MailSet
                   /\ WithId(d, f[d]).id = f[d]
                   /\ WithId(d, f[d]).id \in FreeIds
  <2> SUFFICES ASSUME NEW d \in D
               PROVE  /\ WithId(d, f[d]) \in MailSet
                      /\ WithId(d, f[d]).id = f[d]
                      /\ WithId(d, f[d]).id \in FreeIds
    OBVIOUS
  <2>1. d \in DraftSet /\ f[d] \in Nat /\ f[d] \in FreeIds
    BY <1>1, <1>2
  <2> QED BY <2>1 DEF WithId, MailSet, DraftSet
<1>4. IsFiniteSet(N)
  <2> DEFINE g == [d \in D |-> WithId(d, f[d])]
  <2>1. {g[d] : d \in D} = N
    BY <1>1
  <2> HIDE DEF g
  <2>2. IsFiniteSet({g[d] : d \in D})
    BY ImageFinite
  <2> QED BY <2>1, <2>2
<1>5. \A m \in N : \E d \in D : m = WithId(d, f[d]) /\ m.id = f[d] /\ m.id \in FreeIds /\ m \in MailSet
  BY <1>1, <1>3
<1>6. \A d \in D : WithId(d, f[d]) \in N
  BY <1>1
<1>7. \A m, n \in N : m.id = n.id => m = n
  <2> SUFFICES ASSUME NEW m \in N, NEW n \in N, m.id = n.id PROVE m = n
    OBVIOUS
  <2>1. PICK d \in D : m = WithId(d, f[d]) /\ m.id = f[d]
    BY <1>5
  <2>2. PICK e \in D : n = WithId(e, f[e]) /\ n.id = f[e]
    BY <1>5
  <2>3. d = e
    BY <1>1, <2>1, <2>2 DEF IsInjective
  <2> QED BY <2>1, <2>2, <2>3
<1>8. \A d \in D : \E m \in N : m = WithId(d, m.id)
  BY <1>3, <1>6
<1>9. \A m \in N : \E d \in D : m = WithId(d, m.id)
  BY <1>5
<1>10. \A d \in D : \A m, n \in N : m = WithId(d, m.id) /\ n = WithId(d, n.id) => m = n
  <2> SUFFICES ASSUME NEW d \in D, NEW m \in N, NEW n \in N,
                      m = WithId(d, m.id), n = WithId(d, n.id)
               PROVE  m = n
    OBVIOUS
  <2>1. PICK b \in D : m = WithId(b, f[b]) /\ m.id = f[b]
    BY <1>5
  <2>2. PICK c \in D : n = WithId(c, f[c]) /\ n.id = f[c]
    BY <1>5
  <2>3. b = d /\ c = d
    <3>1. d \in DraftSet /\ b \in DraftSet /\ c \in DraftSet
      OBVIOUS
    <3>2. WithId(b, f[b]) = WithId(d, m.id) /\ WithId(c, f[c]) = WithId(d, n.id)
      BY <2>1, <2>2
    <3>3. \A x, y \in DraftSet : \A i, j : WithId(x, i) = WithId(y, j) => x = y
      BY DEF WithId, DraftSet
    <3> QED BY <3>1, <3>2, <3>3
  <2> QED BY <2>1, <2>2, <2>3
<1> QED BY <1>4, <1>5, <1>7, <1>8, <1>9, <1>10 DEF N

----------------------------------------------------------------------------
(* Money in mails. *)

\* MoneyIn() as a sum with one function for all sets of mails within a set.
LEMMA MoneyWithin ==
  ASSUME NEW U, NEW S \in SUBSET U, IsFiniteSet(S)
  PROVE  MoneyIn(S) = SumFunctionOnSet([m \in U |-> m.money], S)
<1> DEFINE f == [m \in S |-> m.money]
           e == [m \in U |-> m.money]
<1>1. MoneyIn(S) = SumFunctionOnSet(f, S)
  <2>1. DOMAIN f = S
    OBVIOUS
  <2>2. MoneyIn(S) = SumFunctionOnSet(f, DOMAIN f)
    BY DEF MoneyIn, SumFunction
  <2> HIDE DEF f
  <2> QED BY <2>1, <2>2
<1>2. \A x \in S : e[x] = f[x]
  OBVIOUS
<1> HIDE DEF e, f
<1>3. SumFunctionOnSet(f, S) = SumFunctionOnSet(e, S)
  BY <1>2, SumSame
<1> QED BY <1>1, <1>3 DEF e

\* There is no money in no mail.
LEMMA MoneyEmpty == MoneyIn({}) = 0
<1>1. MoneyIn({}) = SumFunctionOnSet([m \in {} |-> m.money], {})
  BY FS_EmptySet, MoneyWithin
<1> QED BY <1>1, SumEmpty

\* The money in mails is a number.
LEMMA MoneyInt ==
  ASSUME NEW S, IsFiniteSet(S), \A m \in S : m.money \in Int
  PROVE  MoneyIn(S) \in Int
<1> DEFINE f == [m \in S |-> m.money]
<1>1. MoneyIn(S) = SumFunctionOnSet(f, S)
  BY MoneyWithin
<1>2. \A m \in S : f[m] \in Int
  OBVIOUS
<1> HIDE DEF f
<1>3. SumFunctionOnSet(f, S) \in Int
  BY <1>2, SumInt
<1> QED BY <1>1, <1>3

\* The money in one mail more.
LEMMA MoneyAdd ==
  ASSUME NEW S, IsFiniteSet(S), NEW x, x \notin S, \A m \in S \cup {x} : m.money \in Int
  PROVE  MoneyIn(S \cup {x}) = x.money + MoneyIn(S)
<1> DEFINE U == S \cup {x}
           f == [m \in U |-> m.money]
<1>0. IsFiniteSet(U) /\ S \in SUBSET U /\ U \in SUBSET U
  BY FS_AddElement
<1>1. f[x] = x.money /\ \A m \in U : f[m] \in Int
  OBVIOUS
<1>2. MoneyIn(U) = SumFunctionOnSet(f, U) /\ MoneyIn(S) = SumFunctionOnSet(f, S)
  <2> HIDE DEF U
  <2> QED BY <1>0, MoneyWithin
<1>3. SumFunctionOnSet(f, S \cup {x}) = f[x] + SumFunctionOnSet(f, S)
  <2>1. \A m \in S \cup {x} : f[m] \in Int
    BY <1>1
  <2> HIDE DEF f
  <2> QED BY <2>1, SumAdd
<1> HIDE DEF f
<1> QED BY <1>1, <1>2, <1>3

\* The money in two sets of mails.
LEMMA MoneySplit ==
  ASSUME NEW S, IsFiniteSet(S), NEW T, IsFiniteSet(T), S \cap T = {}, \A m \in S \cup T : m.money \in Int
  PROVE  MoneyIn(S \cup T) = MoneyIn(S) + MoneyIn(T)
<1> DEFINE U == S \cup T
           f == [m \in U |-> m.money]
<1>0. IsFiniteSet(U) /\ S \in SUBSET U /\ T \in SUBSET U /\ U \in SUBSET U
  BY FS_Union
<1>1. \A m \in S \cup T : f[m] \in Int
  OBVIOUS
<1>2. MoneyIn(U) = SumFunctionOnSet(f, U) /\ MoneyIn(S) = SumFunctionOnSet(f, S)
      /\ MoneyIn(T) = SumFunctionOnSet(f, T)
  <2> HIDE DEF U
  <2> QED BY <1>0, MoneyWithin
<1> HIDE DEF f
<1>3. SumFunctionOnSet(f, S \cup T) = SumFunctionOnSet(f, S) + SumFunctionOnSet(f, T)
  BY <1>1, SumSplit
<1> QED BY <1>2, <1>3

\* The money in one mail less.
LEMMA MoneyRemove ==
  ASSUME NEW S, IsFiniteSet(S), NEW x \in S, \A m \in S : m.money \in Int
  PROVE  MoneyIn(S \ {x}) = MoneyIn(S) - x.money
<1> DEFINE R == S \ {x}
<1>1. IsFiniteSet(R) /\ x \notin R /\ R \cup {x} = S /\ \A m \in R \cup {x} : m.money \in Int
  BY FS_RemoveElement
<1>2. x.money \in Int
  OBVIOUS
<1> HIDE DEF R
<1>3. MoneyIn(R \cup {x}) = x.money + MoneyIn(R)
  BY <1>1, MoneyAdd
<1>4. MoneyIn(R) \in Int
  BY <1>1, MoneyInt
<1>5. MoneyIn(S) = x.money + MoneyIn(R)
  BY <1>1, <1>3
<1>6. MoneyIn(R) = MoneyIn(S) - x.money
  BY <1>2, <1>4, <1>5
<1> QED BY <1>6 DEF R

\* The mails hold what the drafts did.
LEMMA MoneyNumbered ==
  ASSUME NEW D \in SUBSET DraftSet, IsFiniteSet(D), MayPost(D)
  PROVE  MoneyIn(Numbered(D)) = MoneyIn(D)
<1> DEFINE N == Numbered(D)
<1>1. PICK f \in [D -> FreeIds] : IsInjective(f) /\ N = {WithId(d, f[d]) : d \in D}
  BY NumberedIs
<1> DEFINE g == [d \in D |-> WithId(d, f[d])]
           Im(C) == {g[d] : d \in C}
           F == {C \in SUBSET D : MoneyIn(Im(C)) = MoneyIn(C)}
<1>2. \A d \in D : g[d].money = d.money /\ g[d].money \in Int /\ d.money \in Int
  BY DEF WithId, DraftSet
<1>3. \A d, e \in D : g[d] = g[e] => d = e
  BY <1>1 DEF WithId, IsInjective
<1>4. N = Im(D)
  BY <1>1
<1> HIDE DEF g, N
<1>5. \A C \in SUBSET D : IsFiniteSet(C) /\ IsFiniteSet(Im(C)) /\ \A m \in Im(C) : m.money \in Int
  <2> SUFFICES ASSUME NEW C \in SUBSET D
               PROVE  IsFiniteSet(C) /\ IsFiniteSet(Im(C)) /\ \A m \in Im(C) : m.money \in Int
    OBVIOUS
  <2>1. IsFiniteSet(C)
    BY FS_Subset
  <2> QED BY <2>1, <1>2, ImageFinite
<1>6. ASSUME NEW C \in SUBSET D, \A B \in SUBSET C : B # C => B \in F
      PROVE  C \in F
  <2>1. CASE C = {}
    <3>1. Im(C) = {}
      BY <2>1
    <3> QED BY <3>1, <2>1
  <2>2. CASE C # {}
    <3>1. PICK d \in C : TRUE
      BY <2>2
    <3> DEFINE B == C \ {d}
    <3>2. B \in SUBSET C /\ B # C /\ C = B \cup {d} /\ d \notin B /\ B \in SUBSET D /\ d \in D
      OBVIOUS
    <3> HIDE DEF B
    <3>3. MoneyIn(Im(B)) = MoneyIn(B)
      BY <3>2, <1>6
    <3>4. Im(C) = Im(B) \cup {g[d]} /\ g[d] \notin Im(B)
      BY <3>2, <1>3
    <3>5. MoneyIn(B \cup {d}) = d.money + MoneyIn(B)
      <4>1. \A m \in B \cup {d} : m.money \in Int
        BY <3>2, <1>2
      <4>2. IsFiniteSet(B)
        BY <3>2, <1>5
      <4> QED BY <3>2, <4>1, <4>2, MoneyAdd
    <3> DEFINE I == Im(B)
    <3>6. MoneyIn(I \cup {g[d]}) = g[d].money + MoneyIn(I)
      <4>1. IsFiniteSet(I) /\ g[d] \notin I /\ \A m \in I \cup {g[d]} : m.money \in Int
        BY <3>2, <3>4, <1>5, <1>2
      <4> HIDE DEF I
      <4> QED BY <4>1, MoneyAdd
    <3> HIDE DEF Im
    <3> QED BY <1>2, <3>2, <3>3, <3>4, <3>5, <3>6
  <2> QED BY <2>1, <2>2
<1>7. D \in F
  <2> HIDE DEF F
  <2> QED BY <1>6, SubsetInduction
<1> QED BY <1>4, <1>7 DEF N

----------------------------------------------------------------------------
(* The types, and what holds of auctions, mailboxes, trades and mails. *)

\* What a player asks to send, an auction, what is offered in a trade, a side of one.
RequestSet ==
  [from : Player, to : Player \cup {None}, item : Item \cup {None}, money : Nat, cod : Nat]

AuctionSet ==
  [owner : Player, startbid : Nat, buyout : Nat, bidder : Player \cup {None}, bid : Nat,
   deposit : Nat]

OfferSet == Nat \X (Item \cup {None})

TradeSet ==
  [with : Player \cup {None}, money : Nat, item : Item \cup {None},
   accepted : {<<>>} \cup (OfferSet \X OfferSet)]

\* Mails of each player.
BoxType(boxes) ==
  boxes \in [Player -> SUBSET MailSet] /\ \A p \in Player : IsFiniteSet(boxes[p])

\* What players hold, are asked for and are answered.
HoldType ==
  /\ gold \in [Player -> Nat] /\ bag \in [Player -> SUBSET Item]
  /\ login \in [Player -> {"out", "read", "in"}]
  /\ BoxType(answer) /\ BoxType(inbox)
  /\ deleted \in [Player -> SUBSET Nat]
  /\ request \in [Player -> {None} \cup RequestSet]

\* The table, the statements on their way, the job and what was lost.
StoreType ==
  /\ rows \in SUBSET MailSet /\ IsFiniteSet(rows)
  /\ pending \in Seq(WriteSet)
  /\ job = NoJob \/ job \in [at : {"found", "item"}, mail : MailSet]
  /\ sunk \in Int /\ lost \in SUBSET Item /\ overtaken \in BOOLEAN

\* Nobody bids for his own item.
HouseInv ==
  /\ house \in [Item -> {NoAuction} \cup AuctionSet]
  /\ \A i \in Item : house[i] # NoAuction =>
       /\ house[i].bidder # house[i].owner
       /\ house[i].bidder = None <=> house[i].bid = 0
       /\ house[i].buyout = 0 \/ house[i].bid < house[i].buyout

\* Who is not in has no mailbox, who is not between the query and the login has no
\* answer; only mails of a mailbox are marked in it.
BoxInv ==
  \A p \in Player : /\ login[p] # "in" => inbox[p] = {}
                    /\ login[p] # "read" => answer[p] = {}
                    /\ deleted[p] \subseteq IdsOf(inbox[p])

\* Trades are between two players who are in, and name each other.
TradeInv ==
  /\ trade \in [Player -> TradeSet]
  /\ \A p \in Player : Trading(p) =>
       /\ trade[p].with \in Player /\ trade[p].with # p /\ Online(p)
       /\ trade[trade[p].with].with = p

\* What the server has in memory is what the table will hold, once.
StoreInv ==
  /\ \A m, n \in Settled : m.id = n.id => m = n
  /\ \A p \in Player : \A m \in inbox[p] \cup answer[p] : m \in Settled /\ m.to = p

----------------------------------------------------------------------------
(* What the operations do, in terms of the mails there will be. *)

\* The mails there will be when everything queued is executed.
LEMMA SettledType ==
  ASSUME StoreType
  PROVE  Settled \in SUBSET MailSet /\ IsFiniteSet(Settled)
BY ExecutedType DEF Settled, StoreType

\* A new id is the id of no mail.
LEMMA FreshId ==
  ASSUME StoreType, NEW n \in FreeIds
  PROVE  /\ n \in Nat
         /\ \A m \in Settled : m.id # n
         /\ \A p \in Player : \A m \in inbox[p] \cup answer[p] : m.id # n
<1>1. n \in Nat /\ n \notin UsedIds
  BY MailAssumption DEF FreeIds
<1>2. \A p \in Player : \A m \in inbox[p] \cup answer[p] : m.id # n
  BY <1>1 DEF UsedIds, IdsOf
<1>3. ASSUME NEW m \in Settled, m.id = n PROVE FALSE
  <2>1. rows \in SUBSET MailSet /\ IsFiniteSet(rows) /\ pending \in Seq(WriteSet)
    BY DEF StoreType
  <2>2. \A k \in 1..Len(pending) : pending[k].mail.id # m.id
    <3>1. DOMAIN pending = 1..Len(pending)
      BY <2>1
    <3> QED BY <3>1, <1>1, <1>3 DEF UsedIds
  <2>3. m \in rows
    BY <2>1, <2>2, ExecutedElsewhere DEF Settled
  <2> QED BY <2>3, <1>1, <1>3 DEF UsedIds, IdsOf
<1> QED BY <1>1, <1>2, <1>3

\* What a queued statement will do.
LEMMA Queued ==
  ASSUME StoreType, NEW ws \in Seq(WriteSet), pending' = pending \o ws, rows' = rows
  PROVE  pending' \in Seq(WriteSet) /\ Settled' = Executed(Settled, ws)
<1>1. pending \in Seq(WriteSet)
  BY DEF StoreType
<1>2. Executed(rows, pending \o ws) = Executed(Executed(rows, pending), ws)
  BY <1>1, ExecutedConcat
<1>3. pending' \in Seq(WriteSet)
  BY <1>1
<1> QED BY <1>2, <1>3 DEF Settled

\* What sending drafts does to the mailboxes and to the mails there will be.
LEMMA Posted ==
  ASSUME StoreType, NEW boxes, NEW before \in Seq(WriteSet), NEW after \in Seq(WriteSet),
         NEW D \in SUBSET DraftSet, IsFiniteSet(D), Post(boxes, before, D, after), rows' = rows
  PROVE  /\ MayPost(D) /\ inbox' = Received(boxes, Numbered(D))
         /\ pending' \in Seq(WriteSet)
         /\ Settled' = Executed(Executed(Settled, before) \cup Numbered(D), after)
<1> DEFINE N == Numbered(D)
           ins == Writes(None, "insert", N)
<1>1. MayPost(D) /\ inbox' = Received(boxes, N)
  BY DEF Post
<1>2. N \in SUBSET MailSet /\ IsFiniteSet(N)
  BY <1>1, NumberedType
<1>3. pending' = pending \o (before \o ins \o after)
  BY DEF Post, Enqueue
<1> HIDE DEF N
<1>4. ins \in Seq(WriteSet)
  BY <1>2, WritesType
<1>5. Executed(Executed(Settled, before), ins) = Executed(Settled, before) \cup N
  BY <1>2, ExecutedInserts
<1> HIDE DEF ins
<1>6. before \o ins \in Seq(WriteSet) /\ before \o ins \o after \in Seq(WriteSet)
  BY <1>4
<1>7. Settled' = Executed(Settled, before \o ins \o after) /\ pending' \in Seq(WriteSet)
  <2> DEFINE ws == before \o ins \o after
  <2>1. ws \in Seq(WriteSet) /\ pending' = pending \o ws
    BY <1>3, <1>6
  <2> HIDE DEF ws
  <2>2. Settled' = Executed(Settled, ws) /\ pending' \in Seq(WriteSet)
    BY <2>1, Queued
  <2> QED BY <2>2 DEF ws
<1>8. Executed(Settled, before \o ins \o after) = Executed(Executed(Settled, before \o ins), after)
  <2> DEFINE b == before \o ins
  <2>1. b \in Seq(WriteSet)
    BY <1>6
  <2> HIDE DEF b
  <2>2. Executed(Settled, b \o after) = Executed(Executed(Settled, b), after)
    BY <2>1, ExecutedConcat
  <2> QED BY <2>2 DEF b
<1>9. Executed(Settled, before \o ins) = Executed(Executed(Settled, before), ins)
  BY <1>4, ExecutedConcat
<1>10. Settled' = Executed(Executed(Settled, before) \cup N, after)
  BY <1>5, <1>7, <1>8, <1>9
<1> QED BY <1>1, <1>7, <1>10 DEF N

\* Drafts sent without anything around them.
LEMMA PostedPlain ==
  ASSUME StoreType, NEW boxes,
         NEW D \in SUBSET DraftSet, IsFiniteSet(D), Post(boxes, <<>>, D, <<>>), rows' = rows
  PROVE  /\ MayPost(D) /\ inbox' = Received(boxes, Numbered(D))
         /\ pending' \in Seq(WriteSet)
         /\ Settled' = Settled \cup Numbered(D)
<1> DEFINE none == <<>>
<1>1. none \in Seq(WriteSet) /\ Post(boxes, none, D, none)
  OBVIOUS
<1>2. \A T : Executed(T, none) = T
  BY ExecutedNone
<1> HIDE DEF none
<1>3. /\ MayPost(D) /\ inbox' = Received(boxes, Numbered(D))
      /\ pending' \in Seq(WriteSet)
      /\ Settled' = Executed(Executed(Settled, none) \cup Numbered(D), none)
  BY <1>1, Posted
<1> QED BY <1>2, <1>3

\* What saving one changed mail does.
Overwritten(m, e) == [m EXCEPT !.money = e.money, !.cod = e.cod, !.item = e.item]

\* SaveMails(): the statement about a changed mail puts the new one in the place of the old.
LEMMA ApplyUpdate ==
  ASSUME NEW T \in SUBSET MailSet, NEW m \in T, \A x \in T : x.id = m.id => x = m, NEW s,
         NEW e, e = Overwritten(m, e)
  PROVE  Apply(T, Write(s, "update", e)) = (T \ {m}) \cup {e}
<1> DEFINE w == Write(s, "update", e)
           others == {x \in T : x.id # w.mail.id}
           here == T \ others
           f(x) == [x EXCEPT !.money = w.mail.money, !.cod = w.mail.cod, !.item = w.mail.item]
<1>1. w.op = "update" /\ w.mail = e
  BY DEF Write
<1>2. e.id = m.id
  <2>1. m \in MailSet
    OBVIOUS
  <2> QED BY <2>1 DEF MailSet, Overwritten
<1>3. here = {m} /\ others = T \ {m}
  BY <1>1, <1>2
<1> HIDE DEF w
<1>4. Apply(T, w) = others \cup {f(x) : x \in here}
  BY <1>1 DEF Apply
<1>5. f(m) = e
  BY <1>1 DEF Overwritten
<1> HIDE DEF f, here, others
<1>6. {f(x) : x \in here} = {e}
  BY <1>3, <1>5
<1> QED BY <1>3, <1>4, <1>6 DEF w

\* The mails of a mailbox that are marked, and what saving the mailbox does.
Marked(p, box) == box \ SavedBox(p, box)

\* SaveMails() without a changed mail: the deleted mails go.
LEMMA Saved ==
  ASSUME NEW T, NEW p \in Player, NEW box \in SUBSET MailSet, IsFiniteSet(box)
  PROVE  /\ SaveWrites(p, box, {}) \in Seq(WriteSet)
         /\ Executed(T, SaveWrites(p, box, {})) = {x \in T : x.id \notin IdsOf(Marked(p, box))}
<1> DEFINE gone == Marked(p, box)
           del == Writes(p, "delete", gone)
           none == Writes(p, "update", {})
<1>1. gone \in SUBSET MailSet /\ IsFiniteSet(gone)
  <2>1. gone \in SUBSET box
    BY DEF Marked
  <2> HIDE DEF gone
  <2> QED BY <2>1, FS_Subset
<1>2. SaveWrites(p, box, {}) = none \o del
  BY DEF SaveWrites, Marked
<1>3. none = <<>>
  BY WritesNone
<1> HIDE DEF gone
<1>4. del \in Seq(WriteSet)
  BY <1>1, WritesType
<1>5. Executed(T, del) = {x \in T : x.id \notin IdsOf(gone)}
  BY <1>1, ExecutedDeletes
<1> HIDE DEF del
<1>6. none \o del = del
  BY <1>3, <1>4
<1> QED BY <1>2, <1>4, <1>5, <1>6 DEF gone

\* SaveMails() with one changed mail: it is rewritten, then the deleted mails go.
LEMMA SavedChanged ==
  ASSUME NEW T, NEW p \in Player, NEW box \in SUBSET MailSet, IsFiniteSet(box), NEW e \in MailSet
  PROVE  /\ SaveWrites(p, box, {e}) \in Seq(WriteSet)
         /\ Executed(T, SaveWrites(p, box, {e}))
              = {x \in Apply(T, Write(p, "update", e)) : x.id \notin IdsOf(Marked(p, box))}
<1> DEFINE gone == Marked(p, box)
           del == Writes(p, "delete", gone)
           w == Write(p, "update", e)
           upd == <<w>>
           V == Apply(T, w)
<1>1. gone \in SUBSET MailSet /\ IsFiniteSet(gone)
  <2>1. gone \in SUBSET box
    BY DEF Marked
  <2> HIDE DEF gone
  <2> QED BY <2>1, FS_Subset
<1>2. SaveWrites(p, box, {e}) = upd \o del
  <2>1. Writes(p, "update", {e}) = upd
    BY WritesOne
  <2> QED BY <2>1 DEF SaveWrites, Marked
<1>3. w \in WriteSet
  BY DEF Write, WriteSet
<1> HIDE DEF gone, w
<1>4. del \in Seq(WriteSet)
  BY <1>1, WritesType
<1>5. upd \in Seq(WriteSet)
  BY <1>3
<1>6. Executed(T, upd) = V
  BY ExecutedOne
<1>7. Executed(V, del) = {x \in V : x.id \notin IdsOf(gone)}
  <2> HIDE DEF V
  <2> QED BY <1>1, ExecutedDeletes
<1> HIDE DEF del, upd, V
<1>8. Executed(T, upd \o del) = Executed(Executed(T, upd), del)
  BY <1>4, <1>5, ExecutedConcat
<1>9. upd \o del \in Seq(WriteSet)
  BY <1>4, <1>5
<1>10. Executed(T, upd \o del) = {x \in V : x.id \notin IdsOf(gone)}
  BY <1>6, <1>7, <1>8
<1> QED BY <1>2, <1>9, <1>10 DEF gone, V, w

\* The step removes the mails of Gone from those there will be and adds those of New, which
\* have ids of their own.
Turns(Gone, New) ==
  /\ Gone \in SUBSET Settled /\ New \in SUBSET MailSet /\ IsFiniteSet(New)
  /\ Settled' = (Settled \ Gone) \cup New
  /\ \A m \in New : \A n \in Settled \ Gone : m.id # n.id
  /\ \A m, n \in New : m.id = n.id => m = n

\* What the server has in memory follows.
Follows(New) ==
  \A p \in Player : \A m \in inbox'[p] \cup answer'[p] :
    m \in Settled' /\ (m \in inbox[p] \cup answer[p] \/ (m \in New /\ m.to = p))

\* A step that turns mails over, and whose mailboxes follow, keeps table and memory in agreement.
LEMMA TurnsStore ==
  ASSUME StoreInv, NEW Gone, NEW New, Turns(Gone, New), Follows(New)
  PROVE  StoreInv'
<1>1. \A m, n \in Settled' : m.id = n.id => m = n
  BY DEF StoreInv, Turns
<1>2. \A p \in Player : \A m \in inbox'[p] \cup answer'[p] : m \in Settled' /\ m.to = p
  BY DEF StoreInv, Follows
<1> QED BY <1>1, <1>2 DEF StoreInv

\* The money in the mails there will be, after mails were turned over.
LEMMA TurnsMoney ==
  ASSUME StoreType, NEW Gone, NEW New, Turns(Gone, New)
  PROVE  /\ MoneyIn(Settled) \in Int /\ MoneyIn(Gone) \in Int /\ MoneyIn(New) \in Int
         /\ MoneyIn(Settled') = MoneyIn(Settled) - MoneyIn(Gone) + MoneyIn(New)
<1> DEFINE S == Settled
           R == S \ Gone
           T == Settled'
<1>1. S \in SUBSET MailSet /\ IsFiniteSet(S) /\ Gone \in SUBSET S /\ New \in SUBSET MailSet
      /\ IsFiniteSet(New) /\ T = R \cup New /\ R \cap New = {}
  BY SettledType DEF Turns
<1>2. \A m \in MailSet : m.money \in Int
  BY DEF MailSet
<1> HIDE DEF S, T
<1>3. IsFiniteSet(Gone) /\ IsFiniteSet(R) /\ R \in SUBSET S
  BY <1>1, FS_Subset
<1>4. R \cup Gone = S /\ R \cap Gone = {}
  BY <1>1
<1> HIDE DEF R
<1>5. /\ \A m \in R \cup Gone : m.money \in Int
      /\ \A m \in R \cup New : m.money \in Int
      /\ \A m \in R : m.money \in Int
      /\ \A m \in Gone : m.money \in Int
      /\ \A m \in New : m.money \in Int
      /\ \A m \in S : m.money \in Int
  BY <1>1, <1>2, <1>4
<1>6. MoneyIn(R \cup Gone) = MoneyIn(R) + MoneyIn(Gone)
  BY <1>3, <1>4, <1>5, MoneySplit
<1>7. MoneyIn(R \cup New) = MoneyIn(R) + MoneyIn(New)
  BY <1>1, <1>3, <1>5, MoneySplit
<1>8. MoneyIn(R) \in Int /\ MoneyIn(Gone) \in Int
  BY <1>3, <1>5, MoneyInt
<1>9. MoneyIn(New) \in Int /\ MoneyIn(S) \in Int
  BY <1>1, <1>5, MoneyInt
<1>10. MoneyIn(T) = MoneyIn(S) - MoneyIn(Gone) + MoneyIn(New)
  <2>1. T = R \cup New
    BY <1>1
  <2>2. MoneyIn(T) = MoneyIn(R) + MoneyIn(New)
    BY <2>1, <1>7
  <2>3. MoneyIn(S) = MoneyIn(R) + MoneyIn(Gone)
    BY <1>4, <1>6
  <2> QED BY <2>2, <2>3, <1>8, <1>9
<1> QED BY <1>8, <1>9, <1>10 DEF S, T

\* The mails an item is in, by their ids.
Carriers(i, mails) == {m.id : m \in {n \in mails : n.item = i}}

\* The mails an item is in, after mails were turned over.
LEMMA TurnsCarriers ==
  ASSUME StoreInv, NEW Gone, NEW New, Turns(Gone, New), NEW i
  PROVE  Carriers(i, Settled') = (Carriers(i, Settled) \ Carriers(i, Gone)) \cup Carriers(i, New)
<1>1. Gone \in SUBSET Settled /\ Settled' = (Settled \ Gone) \cup New
  BY DEF Turns
<1>2. \A m, n \in Settled : m.id = n.id => m = n
  BY DEF StoreInv
<1> QED BY <1>1, <1>2 DEF Carriers

\* No mail has the item.
LEMMA CarriersNone ==
  ASSUME NEW i, NEW M, \A m \in M : m.item # i
  PROVE  Carriers(i, M) = {}
BY DEF Carriers

\* One mail has it.
LEMMA CarriersOne ==
  ASSUME NEW m
  PROVE  Carriers(m.item, {m}) = {m.id}
BY DEF Carriers

\* An item of one draft is in one mail, an item of none in none.
LEMMA CarriersNumbered ==
  ASSUME NEW D \in SUBSET DraftSet, IsFiniteSet(D), MayPost(D), NEW i
  PROVE  /\ (\A d \in D : d.item # i) => Carriers(i, Numbered(D)) = {}
         /\ \A d \in D : d.item = i /\ (\A e \in D : e.item = i => e = d)
              => \E n \in Nat : Carriers(i, Numbered(D)) = {n}
<1> DEFINE N == Numbered(D)
<1>1. /\ N \in SUBSET MailSet
      /\ \A d \in D : \E m \in N : m = WithId(d, m.id)
      /\ \A m \in N : \E d \in D : m = WithId(d, m.id)
      /\ \A d \in D : \A m, n \in N : m = WithId(d, m.id) /\ n = WithId(d, n.id) => m = n
  BY NumberedType
<1> HIDE DEF N
<1>2. \A d, n : WithId(d, n).item = d.item
  BY DEF WithId
<1>3. (\A d \in D : d.item # i) => Carriers(i, N) = {}
  BY <1>1, <1>2 DEF Carriers
<1>4. ASSUME NEW d \in D, d.item = i, \A e \in D : e.item = i => e = d
      PROVE  \E n \in Nat : Carriers(i, N) = {n}
  <2>1. PICK m \in N : m = WithId(d, m.id)
    BY <1>1
  <2>2. m.item = i /\ m.id \in Nat
    BY <2>1, <1>2, <1>4, <1>1 DEF MailSet
  <2>3. \A n \in N : n.item = i => n = m
    BY <1>1, <1>2, <1>4, <2>1
  <2>4. Carriers(i, N) = {m.id}
    BY <2>2, <2>3 DEF Carriers
  <2> QED BY <2>2, <2>4
<1> QED BY <1>3, <1>4 DEF N

\* A step that touches no statement leaves the mails there will be.
LEMMA SettledSame ==
  ASSUME UNCHANGED storeVars
  PROVE  Settled' = Settled
BY DEF storeVars, Settled

\* Nothing is turned over.
LEMMA TurnsNothing ==
  ASSUME Settled' = Settled
  PROVE  Turns({}, {})
BY FS_EmptySet DEF Turns

\* A sum changes by what one of its parts changes by.
LEMMA SumChanged ==
  ASSUME NEW U, IsFiniteSet(U), NEW f \in [U -> Int], NEW g \in [U -> Int], NEW x \in U,
         \A y \in U : y # x => g[y] = f[y]
  PROVE  SumFunction(g) = SumFunction(f) - f[x] + g[x] /\ SumFunction(f) \in Int
<1> DEFINE R == U \ {x}
<1>1. IsFiniteSet(R) /\ x \notin R /\ R \cup {x} = U
  BY FS_RemoveElement
<1>2. SumFunction(f) = SumFunctionOnSet(f, U) /\ SumFunction(g) = SumFunctionOnSet(g, U)
  BY DEF SumFunction
<1> HIDE DEF R
<1>3. /\ \A y \in R \cup {x} : f[y] \in Int
      /\ \A y \in R \cup {x} : g[y] \in Int
      /\ \A y \in R : g[y] = f[y]
      /\ \A y \in R : f[y] \in Int
  BY <1>1
<1>4. SumFunctionOnSet(f, R \cup {x}) = f[x] + SumFunctionOnSet(f, R)
  BY <1>1, <1>3, SumAdd
<1>5. SumFunctionOnSet(g, R \cup {x}) = g[x] + SumFunctionOnSet(g, R)
  BY <1>1, <1>3, SumAdd
<1>6. SumFunctionOnSet(f, R) = SumFunctionOnSet(g, R)
  BY <1>1, <1>3, SumSame
<1>7. SumFunctionOnSet(f, R) \in Int
  BY <1>1, <1>3, SumInt
<1>8. SumFunctionOnSet(f, R \cup {x}) = SumFunction(f) /\ SumFunctionOnSet(g, R \cup {x}) = SumFunction(g)
  BY <1>1, <1>2
<1> QED BY <1>4, <1>5, <1>6, <1>7, <1>8

\* Every player has the same at first.
LEMMA SumConstant ==
  ASSUME NEW U, IsFiniteSet(U), NEW c \in Nat
  PROVE  SumFunction([x \in U |-> c]) = c * Cardinality(U)
<1> DEFINE f == [x \in U |-> c]
           F == {s \in SUBSET U : SumFunctionOnSet(f, s) = c * Cardinality(s)}
<1>1. ASSUME NEW s \in SUBSET U, \A v \in SUBSET s : v # s => v \in F
      PROVE  s \in F
  <2>1. CASE s = {}
    BY <2>1, SumEmpty, FS_EmptySet
  <2>2. CASE s # {}
    <3> DEFINE x == Pick(s)
               t == s \ {x}
    <3>1. x \in s /\ t \in SUBSET s /\ t # s /\ x \notin t /\ s = t \cup {x} /\ IsFiniteSet(s)
      BY <2>2, PickIn, FS_Subset
    <3>2. IsFiniteSet(t) /\ Cardinality(t) \in Nat
      BY <3>1, FS_Subset, FS_CardinalityType
    <3> HIDE DEF x, t
    <3>3. Cardinality(s) = Cardinality(t) + 1
      BY <3>1, <3>2, FS_AddElement
    <3>4. SumFunctionOnSet(f, t \cup {x}) = f[x] + SumFunctionOnSet(f, t)
      <4>1. \A y \in t \cup {x} : f[y] \in Int
        BY <3>1
      <4> HIDE DEF f
      <4> QED BY <4>1, <3>1, <3>2, SumAdd
    <3>5. f[x] = c /\ SumFunctionOnSet(f, t) = c * Cardinality(t)
      BY <3>1, <1>1
    <3>6. c * (Cardinality(t) + 1) = c + c * Cardinality(t)
      BY <3>2
    <3>7. SumFunctionOnSet(f, s) = c * Cardinality(s)
      BY <3>1, <3>3, <3>4, <3>5, <3>6
    <3> QED BY <3>7
  <2> QED BY <2>1, <2>2
<1>2. U \in F
  <2> HIDE DEF F
  <2> QED BY <1>1, SubsetInduction
<1> QED BY <1>2 DEF SumFunction

\* What the house holds, and how one auction changes that.
Worth(a) == a.bid + a.deposit
Value(h) == SumFunction([i \in {j \in Item : h[j] # NoAuction} |-> Worth(h[i])])

\* What the auctions hold, after one of them changed.
LEMMA ValueChanged ==
  ASSUME NEW h \in [Item -> {NoAuction} \cup AuctionSet], NEW i \in Item,
         NEW a \in {NoAuction} \cup AuctionSet
  PROVE  /\ Value(h) \in Int
         /\ Value([h EXCEPT ![i] = a])
              = Value(h) - (IF h[i] = NoAuction THEN 0 ELSE Worth(h[i]))
                         + (IF a = NoAuction THEN 0 ELSE Worth(a))
<1> DEFINE n == [h EXCEPT ![i] = a]
           A == {j \in Item : h[j] # NoAuction}
           B == {j \in Item : n[j] # NoAuction}
           R == A \ {i}
           f == [j \in A |-> Worth(h[j])]
           g == [j \in B |-> Worth(n[j])]
<1>1. n[i] = a /\ \A j \in Item : j # i => n[j] = h[j]
  OBVIOUS
<1>2. \A b \in AuctionSet : Worth(b) \in Int
  BY DEF Worth, AuctionSet
<1>3. IsFiniteSet(A) /\ IsFiniteSet(R)
  <2>1. A \in SUBSET Item /\ R \in SUBSET Item
    OBVIOUS
  <2> QED BY <2>1, MailAssumption, FS_Subset
<1>4. Value(h) = SumFunctionOnSet(f, A) /\ Value(n) = SumFunctionOnSet(g, B)
  BY DEF Value, SumFunction
<1>5. /\ \A j \in A : f[j] = Worth(h[j]) /\ f[j] \in Int
      /\ \A j \in B : g[j] = Worth(n[j]) /\ g[j] \in Int
  <2>1. \A j \in A : h[j] \in AuctionSet
    OBVIOUS
  <2>2. \A j \in B : n[j] \in AuctionSet
    OBVIOUS
  <2> HIDE DEF A, B, n
  <2> QED BY <1>2, <2>1, <2>2
<1>6. /\ i \notin R
      /\ h[i] # NoAuction => A = R \cup {i}
      /\ h[i] = NoAuction => A = R
      /\ a # NoAuction => B = R \cup {i}
      /\ a = NoAuction => B = R
  <2> HIDE DEF n
  <2>1. \A j : j \in B <=> j \in Item /\ n[j] # NoAuction
    OBVIOUS
  <2>2. \A j : j \in A <=> j \in Item /\ h[j] # NoAuction
    OBVIOUS
  <2>3. \A j : j \in R <=> j \in A /\ j # i
    OBVIOUS
  <2> HIDE DEF A, B, R
  <2> QED BY <1>1, <2>1, <2>2, <2>3
<1>7. \A j \in R : g[j] = f[j] /\ f[j] \in Int /\ g[j] \in Int
  <2>1. \A j \in R : j \in A /\ j # i /\ j \in Item
    OBVIOUS
  <2>2. \A j \in R : j \in B
    BY <1>6
  <2> HIDE DEF A, B, R, f, g, n
  <2> QED BY <1>1, <1>5, <2>1, <2>2
<1>8. h[i] # NoAuction => f[i] = Worth(h[i]) /\ f[i] \in Int /\ Worth(h[i]) \in Int
  <2>1. h[i] # NoAuction => i \in A
    OBVIOUS
  <2> HIDE DEF A, f
  <2> QED BY <1>5, <2>1
<1>9. a # NoAuction => g[i] = Worth(a) /\ g[i] \in Int /\ Worth(a) \in Int
  <2>1. a # NoAuction => i \in B
    BY <1>1
  <2> HIDE DEF B, g, n
  <2> QED BY <1>1, <1>5, <2>1
<1> HIDE DEF A, B, R, f, g, n
<1>10. SumFunctionOnSet(f, R) = SumFunctionOnSet(g, R)
  BY <1>3, <1>7, SumSame
<1>11. SumFunctionOnSet(f, R) \in Int
  BY <1>3, <1>7, SumInt
<1>12. h[i] # NoAuction => Value(h) = Worth(h[i]) + SumFunctionOnSet(f, R)
  <2> SUFFICES ASSUME h[i] # NoAuction PROVE Value(h) = Worth(h[i]) + SumFunctionOnSet(f, R)
    OBVIOUS
  <2>1. \A y \in R \cup {i} : f[y] \in Int
    BY <1>7, <1>8
  <2>2. SumFunctionOnSet(f, R \cup {i}) = f[i] + SumFunctionOnSet(f, R)
    BY <1>3, <1>6, <2>1, SumAdd
  <2> QED BY <2>2, <1>4, <1>6, <1>8
<1>13. a # NoAuction => Value(n) = Worth(a) + SumFunctionOnSet(f, R)
  <2> SUFFICES ASSUME a # NoAuction PROVE Value(n) = Worth(a) + SumFunctionOnSet(f, R)
    OBVIOUS
  <2>1. \A y \in R \cup {i} : g[y] \in Int
    BY <1>7, <1>9
  <2>2. SumFunctionOnSet(g, R \cup {i}) = g[i] + SumFunctionOnSet(g, R)
    BY <1>3, <1>6, <2>1, SumAdd
  <2> QED BY <2>2, <1>4, <1>6, <1>9, <1>10
<1>14. /\ h[i] = NoAuction => Value(h) = SumFunctionOnSet(f, R)
       /\ a = NoAuction => Value(n) = SumFunctionOnSet(f, R)
  BY <1>4, <1>6, <1>10
<1> DEFINE r == SumFunctionOnSet(f, R)
<1>15. r \in Int
  BY <1>11
<1> HIDE DEF r
<1>16. /\ Value(h) \in Int
       /\ Value(n) = Value(h) - (IF h[i] = NoAuction THEN 0 ELSE Worth(h[i]))
                              + (IF a = NoAuction THEN 0 ELSE Worth(a))
  <2>1. /\ h[i] # NoAuction => Value(h) = Worth(h[i]) + r
        /\ h[i] = NoAuction => Value(h) = r
        /\ a # NoAuction => Value(n) = Worth(a) + r
        /\ a = NoAuction => Value(n) = r
    BY <1>12, <1>13, <1>14 DEF r
  <2> QED BY <2>1, <1>8, <1>9, <1>15
<1> QED BY <1>16 DEF n

\* The cut is part of the price, and who pays more leaves more after it.
LEMMA CutWithin ==
  ASSUME NEW a, a.bid \in Nat
  PROVE  GetAuctionCut(a) \in Nat /\ GetAuctionCut(a) <= a.bid
<1> DEFINE b == a.bid
<1>1. CutPercent \in Nat /\ CutPercent <= 100
  BY AuctionAssumption
<1>2. CutPercent * b \in Nat /\ CutPercent * b <= 100 * b
  <2> HIDE DEF b
  <2>0. b \in Nat
    BY DEF b
  <2> QED BY <1>1, <2>0
<1> DEFINE y == CutPercent * b
<1>3. y \in Nat /\ y <= 100 * b /\ b \in Nat
  BY <1>2
<1>4. GetAuctionCut(a) = y \div 100
  BY DEF GetAuctionCut
<1> HIDE DEF y, b
<1>5. y \div 100 \in Nat /\ y \div 100 <= b
  BY <1>3
<1> QED BY <1>4, <1>5 DEF b

\* GetAuctionCut() never takes more of a higher bid than the bid is higher.
LEMMA CutGrows ==
  ASSUME NEW a, NEW c, a.bid \in Nat, c.bid \in Nat, a.bid <= c.bid
  PROVE  a.bid - GetAuctionCut(a) <= c.bid - GetAuctionCut(c)
<1> DEFINE k == c.bid - a.bid
           y == CutPercent * a.bid
           z == CutPercent * c.bid
<1>1. CutPercent \in Nat /\ CutPercent <= 100
  BY AuctionAssumption
<1>2. k \in Nat /\ c.bid = a.bid + k
  OBVIOUS
<1>3. y \in Nat /\ z \in Nat /\ z <= y + 100 * k
  <2> DEFINE b == a.bid
  <2>1. b \in Nat
    OBVIOUS
  <2>2. z = CutPercent * (b + k)
    BY <1>2
  <2> HIDE DEF b, k
  <2>3. CutPercent * (b + k) = CutPercent * b + CutPercent * k
    BY <1>1, <1>2, <2>1
  <2>4. CutPercent * k <= 100 * k /\ CutPercent * k \in Nat /\ CutPercent * b \in Nat
    BY <1>1, <1>2, <2>1
  <2>5. z = CutPercent * b + CutPercent * k
    BY <2>2, <2>3
  <2> DEFINE ck == CutPercent * k
             cb == CutPercent * b
  <2>6. ck \in Nat /\ cb \in Nat /\ ck <= 100 * k /\ z = cb + ck /\ y = cb
    BY <2>4, <2>5 DEF b
  <2> HIDE DEF ck, cb, y, z
  <2> QED BY <2>6, <1>2
<1>4. GetAuctionCut(a) = y \div 100 /\ GetAuctionCut(c) = z \div 100
  BY DEF GetAuctionCut
<1> HIDE DEF y, z, k
<1>5. z \div 100 <= y \div 100 + k
  BY <1>2, <1>3
<1>6. y \div 100 \in Int /\ z \div 100 \in Int
  BY <1>3
<1> QED BY <1>2, <1>4, <1>5, <1>6

\* A draft of these parts is a draft.
LEMMA DraftType ==
  ASSUME NEW to \in Player \cup {None}, NEW from \in Player \cup {None},
         NEW item \in Item \cup {None}, NEW money \in Nat, NEW cod \in Nat,
         NEW normal \in BOOLEAN, NEW final \in BOOLEAN
  PROVE  Draft(to, from, item, money, cod, normal, final) \in DraftSet
BY DEF Draft, DraftSet

\* Mailboxes that receive mails are mailboxes.
LEMMA ReceivedType ==
  ASSUME NEW boxes, BoxType(boxes), NEW N \in SUBSET MailSet, IsFiniteSet(N)
  PROVE  BoxType(Received(boxes, N))
<1> DEFINE r == Received(boxes, N)
           mine(p) == {m \in N : m.to = p /\ Online(p)}
<1>1. r = [p \in Player |-> boxes[p] \cup mine(p)]
  BY DEF Received
<1>2. \A p \in Player : mine(p) \in SUBSET N
  OBVIOUS
<1> HIDE DEF mine, r
<1>3. \A p \in Player : IsFiniteSet(mine(p)) /\ mine(p) \in SUBSET MailSet
  BY <1>2, FS_Subset
<1>4. \A p \in Player : IsFiniteSet(boxes[p]) /\ boxes[p] \in SUBSET MailSet
  BY DEF BoxType
<1>5. \A p \in Player : IsFiniteSet(boxes[p] \cup mine(p))
  BY <1>3, <1>4, FS_Union
<1>6. r \in [Player -> SUBSET MailSet]
  BY <1>1, <1>3, <1>4
<1>7. \A p \in Player : IsFiniteSet(r[p])
  BY <1>1, <1>5
<1> QED BY <1>6, <1>7 DEF BoxType, r

\* One mailbox is replaced by another.
LEMMA BoxSet ==
  ASSUME NEW boxes, BoxType(boxes), NEW p \in Player, NEW box \in SUBSET MailSet, IsFiniteSet(box)
  PROVE  BoxType([boxes EXCEPT ![p] = box])
BY DEF BoxType

\* A mailbox as it is saved.
LEMMA SavedBoxType ==
  ASSUME HoldType, NEW p \in Player, NEW box \in SUBSET MailSet, IsFiniteSet(box)
  PROVE  /\ SavedBox(p, box) \in SUBSET MailSet /\ IsFiniteSet(SavedBox(p, box))
         /\ Marked(p, box) \in SUBSET MailSet /\ IsFiniteSet(Marked(p, box))
         /\ SavesMoney(p, box) \in Int /\ SavesItems(p, box) \in SUBSET Item
<1>1. SavedBox(p, box) \in SUBSET box /\ Marked(p, box) \in SUBSET box
  BY DEF SavedBox, Marked
<1>2. SavedBox(p, box) \in SUBSET MailSet /\ Marked(p, box) \in SUBSET MailSet
  BY <1>1
<1>3. IsFiniteSet(SavedBox(p, box)) /\ IsFiniteSet(Marked(p, box))
  BY <1>1, FS_Subset
<1>4. SavesMoney(p, box) = MoneyIn(Marked(p, box))
  BY DEF SavesMoney, Marked
<1>5. SavesMoney(p, box) \in Int
  <2>1. \A m \in Marked(p, box) : m.money \in Int
    BY <1>2 DEF MailSet
  <2> QED BY <2>1, <1>3, <1>4, MoneyInt
<1>6. SavesItems(p, box) \in SUBSET Item
  <2>1. SavesItems(p, box) = {m.item : m \in Marked(p, box)} \ {None}
    BY DEF SavesItems, Marked
  <2> QED BY <2>1, <1>2 DEF MailSet
<1> QED BY <1>2, <1>3, <1>5, <1>6

\* The draft of a mail that a player writes.
Written(r) ==
  Draft(r.to, r.from, r.item, r.money, IF r.item = None THEN 0 ELSE r.cod, TRUE, FALSE)

\* HandleSendMailCallback() keeps the types and sends what the player wrote.
LEMMA CallbackDoes ==
  ASSUME HoldType, StoreType, NEW r \in RequestSet, HandleSendMailCallback(r), rows' = rows
  PROVE  /\ gold' \in [Player -> Nat] /\ bag' \in [Player -> SUBSET Item] /\ sunk' \in Int
         /\ BoxType(inbox') /\ pending' \in Seq(WriteSet)
         /\ Written(r) \in DraftSet /\ MayPost({Written(r)})
         /\ inbox' = Received(inbox, Numbered({Written(r)}))
         /\ Settled' = Settled \cup Numbered({Written(r)})
<1> DEFINE D == {Written(r)}
<1>1. Written(r) \in DraftSet
  BY DraftType DEF Written, RequestSet
<1>2. D \in SUBSET DraftSet /\ IsFiniteSet(D)
  BY <1>1, FS_Singleton
<1>3. Post(inbox, <<>>, D, <<>>)
  BY DEF HandleSendMailCallback, Written
<1> HIDE DEF D
<1>4. MayPost(D) /\ inbox' = Received(inbox, Numbered(D)) /\ pending' \in Seq(WriteSet)
      /\ Settled' = Settled \cup Numbered(D)
  BY <1>2, <1>3, PostedPlain
<1>5. BoxType(inbox')
  <2>1. Numbered(D) \in SUBSET MailSet /\ IsFiniteSet(Numbered(D)) /\ BoxType(inbox)
    BY <1>2, <1>4, NumberedType DEF HoldType
  <2> QED BY <2>1, <1>4, ReceivedType
<1>6. gold' \in [Player -> Nat] /\ bag' \in [Player -> SUBSET Item] /\ sunk' \in Int
  <2>1. r.from \in Player /\ r.money \in Nat /\ Postage \in Nat
    BY MailAssumption DEF RequestSet
  <2>2. gold[r.from] >= r.money + Postage /\ gold' = [gold EXCEPT ![r.from] = @ - (r.money + Postage)]
        /\ bag' = [bag EXCEPT ![r.from] = @ \ {r.item}] /\ sunk' = sunk + Postage
    BY DEF HandleSendMailCallback
  <2>3. gold \in [Player -> Nat] /\ bag \in [Player -> SUBSET Item] /\ sunk \in Int
    BY DEF HoldType, StoreType
  <2>4. gold[r.from] - (r.money + Postage) \in Nat
    BY <2>1, <2>2, <2>3
  <2>5. gold' \in [Player -> Nat]
    BY <2>1, <2>2, <2>3, <2>4
  <2>6. bag' \in [Player -> SUBSET Item]
    BY <2>1, <2>2, <2>3
  <2> QED BY <2>1, <2>2, <2>3, <2>5, <2>6
<1> QED BY <1>1, <1>4, <1>5, <1>6 DEF D

\* The drafts to hardcore characters.
Forfeited(drafts) == {d \in drafts : d.to \in Hardcore}
Paid(drafts, certain) == (drafts \ Forfeited(drafts)) \cup certain

\* What an auction pays is sent, but what hardcore characters would have got.
LEMMA PayDoes ==
  ASSUME HoldType, StoreType, NEW D \in SUBSET DraftSet, IsFiniteSet(D),
         NEW C \in SUBSET DraftSet, IsFiniteSet(C), NEW taken \in Int,
         Pay(D, C, taken), rows' = rows
  PROVE  /\ sunk' \in Int /\ lost' \in SUBSET Item /\ MoneyIn(Forfeited(D)) \in Int
         /\ BoxType(inbox') /\ pending' \in Seq(WriteSet)
         /\ Paid(D, C) \in SUBSET DraftSet /\ IsFiniteSet(Paid(D, C)) /\ MayPost(Paid(D, C))
         /\ inbox' = Received(inbox, Numbered(Paid(D, C)))
         /\ Settled' = Settled \cup Numbered(Paid(D, C))
<1> DEFINE E == Paid(D, C)
           L == Forfeited(D)
<1>1. L \in SUBSET D /\ E \in SUBSET DraftSet
  BY DEF Paid, Forfeited
<1>2. IsFiniteSet(L) /\ IsFiniteSet(E)
  <2>1. D \ L \in SUBSET D /\ E = (D \ L) \cup C
    BY DEF Paid
  <2> HIDE DEF L, E
  <2>2. IsFiniteSet(D \ L) /\ IsFiniteSet(L)
    BY <1>1, <2>1, FS_Subset
  <2> QED BY <2>1, <2>2, FS_Union
<1>3. Post(inbox, <<>>, E, <<>>) /\ sunk' = sunk + taken + MoneyIn(L)
      /\ lost' = lost \cup ({d.item : d \in L} \ {None})
  BY DEF Pay, Paid, Forfeited
<1> HIDE DEF E, L
<1>4. MayPost(E) /\ inbox' = Received(inbox, Numbered(E)) /\ pending' \in Seq(WriteSet)
      /\ Settled' = Settled \cup Numbered(E)
  BY <1>1, <1>2, <1>3, PostedPlain
<1>5. BoxType(inbox')
  <2>1. Numbered(E) \in SUBSET MailSet /\ IsFiniteSet(Numbered(E)) /\ BoxType(inbox)
    BY <1>1, <1>2, <1>4, NumberedType DEF HoldType
  <2> QED BY <2>1, <1>4, ReceivedType
<1>6. MoneyIn(L) \in Int
  <2>1. \A m \in L : m.money \in Int
    BY <1>1 DEF DraftSet
  <2> QED BY <2>1, <1>2, MoneyInt
<1>7. sunk' \in Int /\ lost' \in SUBSET Item
  <2>1. \A d \in L : d.item \in Item \cup {None}
    BY <1>1 DEF DraftSet
  <2> QED BY <1>3, <1>6, <2>1 DEF StoreType
<1> QED BY <1>1, <1>2, <1>4, <1>5, <1>6, <1>7 DEF E, L

\* What becomes of a mail whose item or money is taken, and of its mailbox.
ItemTaken(m) == [m EXCEPT !.item = None, !.cod = 0]
MoneyTaken(m) == [m EXCEPT !.money = 0]
Changed(p, m, e) == (inbox[p] \ {m}) \cup {e}

\* What is sent when an item is taken, or a mail is returned.
CodDrafts(p, m) ==
  IF m.cod > 0 THEN {Draft(m.from, p, None, m.cod, 0, TRUE, TRUE)} ELSE {}
GoesBack(m) == m.normal /\ m.from \notin Hardcore
BackDrafts(p, m) ==
  IF GoesBack(m) THEN {Draft(m.from, p, m.item, m.money, 0, TRUE, TRUE)} ELSE {}

\* A mailbox with one mail rewritten.
LEMMA ChangedType ==
  ASSUME HoldType, NEW p \in Player, NEW m \in inbox[p], NEW e \in MailSet
  PROVE  Changed(p, m, e) \in SUBSET MailSet /\ IsFiniteSet(Changed(p, m, e)) /\ m \in MailSet
<1>1. inbox[p] \in SUBSET MailSet /\ IsFiniteSet(inbox[p])
  BY DEF HoldType, BoxType
<1>2. IsFiniteSet(inbox[p] \ {m})
  BY <1>1, FS_RemoveElement
<1>3. IsFiniteSet(Changed(p, m, e))
  BY <1>2, FS_AddElement DEF Changed
<1> QED BY <1>1, <1>3 DEF Changed

\* A mail that was taken from is a mail.
LEMMA TakenType ==
  ASSUME NEW m \in MailSet
  PROVE  ItemTaken(m) \in MailSet /\ MoneyTaken(m) \in MailSet
BY DEF ItemTaken, MoneyTaken, MailSet

\* The drafts of taking an item and of sending a mail back.
LEMMA DraftsType ==
  ASSUME NEW p \in Player, NEW m \in MailSet
  PROVE  /\ CodDrafts(p, m) \in SUBSET DraftSet /\ IsFiniteSet(CodDrafts(p, m))
         /\ BackDrafts(p, m) \in SUBSET DraftSet /\ IsFiniteSet(BackDrafts(p, m))
<1>1. Draft(m.from, p, None, m.cod, 0, TRUE, TRUE) \in DraftSet
  BY DraftType DEF MailSet
<1>2. Draft(m.from, p, m.item, m.money, 0, TRUE, TRUE) \in DraftSet
  BY DraftType DEF MailSet
<1>3. CodDrafts(p, m) \in SUBSET DraftSet /\ BackDrafts(p, m) \in SUBSET DraftSet
  BY <1>1, <1>2 DEF CodDrafts, BackDrafts
<1>4. IsFiniteSet(CodDrafts(p, m)) /\ IsFiniteSet(BackDrafts(p, m))
  BY FS_EmptySet, FS_Singleton DEF CodDrafts, BackDrafts
<1> QED BY <1>3, <1>4

\* Saving a mailbox forgets its marks.
LEMMA DeletedReset ==
  ASSUME HoldType, NEW p \in Player, deleted' = [deleted EXCEPT ![p] = {}]
  PROVE  deleted' \in [Player -> SUBSET Nat]
BY DEF HoldType

\* MasterPlayer::SaveToDB() keeps the types and queues the deletion of the marked mails.
LEMMA SaveMailboxDoes ==
  ASSUME HoldType, StoreType, NEW p \in Player, NEW next \in SUBSET MailSet, IsFiniteSet(next),
         SaveMailbox(p, next), rows' = rows
  PROVE  /\ BoxType(inbox') /\ deleted' \in [Player -> SUBSET Nat] /\ pending' \in Seq(WriteSet)
         /\ sunk' \in Int /\ lost' \in SUBSET Item
         /\ Settled' = {x \in Settled : x.id \notin IdsOf(Marked(p, inbox[p]))}
<1>1. inbox[p] \in SUBSET MailSet /\ IsFiniteSet(inbox[p]) /\ BoxType(inbox)
  BY DEF HoldType, BoxType
<1> DEFINE ws == SaveWrites(p, inbox[p], {})
<1>2. /\ pending' = pending \o ws /\ inbox' = [inbox EXCEPT ![p] = next]
      /\ deleted' = [deleted EXCEPT ![p] = {}]
      /\ sunk' = sunk + SavesMoney(p, inbox[p]) /\ lost' = lost \cup SavesItems(p, inbox[p])
  BY DEF SaveMailbox, Enqueue
<1>3. /\ ws \in Seq(WriteSet)
      /\ Executed(Settled, ws) = {x \in Settled : x.id \notin IdsOf(Marked(p, inbox[p]))}
  <2> DEFINE box == inbox[p]
  <2>1. box \in SUBSET MailSet /\ IsFiniteSet(box)
    BY <1>1
  <2> HIDE DEF box
  <2>2. SaveWrites(p, box, {}) \in Seq(WriteSet)
    BY <2>1, Saved
  <2>3. Executed(Settled, SaveWrites(p, box, {})) = {x \in Settled : x.id \notin IdsOf(Marked(p, box))}
    BY <2>1, Saved
  <2> QED BY <2>2, <2>3 DEF box
<1> HIDE DEF ws
<1>4. pending' \in Seq(WriteSet) /\ Settled' = Executed(Settled, ws)
  BY <1>2, <1>3, Queued
<1>5. BoxType(inbox')
  BY <1>1, <1>2, BoxSet
<1>6. deleted' \in [Player -> SUBSET Nat]
  BY <1>2, DeletedReset
<1>7. SavesMoney(p, inbox[p]) \in Int /\ SavesItems(p, inbox[p]) \in SUBSET Item
  BY <1>1, SavedBoxType
<1>8. sunk' \in Int /\ lost' \in SUBSET Item
  BY <1>2, <1>7 DEF StoreType
<1> QED BY <1>3, <1>4, <1>5, <1>6, <1>8

\* HandleMailTakeMoney() keeps the types; the mail is rewritten, the mailbox saved.
LEMMA TakeMoneyDoes ==
  ASSUME HoldType, StoreType, NEW p \in Player, NEW m \in inbox[p], HandleMailTakeMoney(p, m)
  PROVE  /\ gold' \in [Player -> Nat] /\ BoxType(inbox') /\ deleted' \in [Player -> SUBSET Nat]
         /\ pending' \in Seq(WriteSet) /\ sunk' \in Int /\ lost' \in SUBSET Item
         /\ Settled' = {x \in Apply(Settled, Write(p, "update", MoneyTaken(m))) :
                          x.id \notin IdsOf(Marked(p, Changed(p, m, MoneyTaken(m))))}
<1> DEFINE e == MoneyTaken(m)
           box == Changed(p, m, e)
           ws == SaveWrites(p, box, {e})
<1>1. m \in MailSet /\ BoxType(inbox)
  BY DEF HoldType, BoxType
<1>2. e \in MailSet
  BY <1>1, TakenType
<1>3. /\ gold' = [gold EXCEPT ![p] = @ + m.money]
      /\ inbox' = [inbox EXCEPT ![p] = SavedBox(p, box)]
      /\ pending' = pending \o ws /\ rows' = rows
      /\ deleted' = [deleted EXCEPT ![p] = {}]
      /\ sunk' = sunk + SavesMoney(p, box) /\ lost' = lost \cup SavesItems(p, box)
  BY DEF HandleMailTakeMoney, Enqueue, MoneyTaken, Changed
<1> HIDE DEF e
<1>4. box \in SUBSET MailSet /\ IsFiniteSet(box)
  BY <1>2, ChangedType
<1> HIDE DEF box
<1>5. /\ ws \in Seq(WriteSet)
      /\ Executed(Settled, ws) = {x \in Apply(Settled, Write(p, "update", e)) : x.id \notin IdsOf(Marked(p, box))}
  <2>1. ws \in Seq(WriteSet)
    BY <1>2, <1>4, SavedChanged
  <2>2. Executed(Settled, ws) = {x \in Apply(Settled, Write(p, "update", e)) : x.id \notin IdsOf(Marked(p, box))}
    BY <1>2, <1>4, SavedChanged
  <2> QED BY <2>1, <2>2
<1> HIDE DEF ws
<1>6. pending' \in Seq(WriteSet) /\ Settled' = Executed(Settled, ws)
  BY <1>3, <1>5, Queued
<1>7. /\ SavedBox(p, box) \in SUBSET MailSet /\ IsFiniteSet(SavedBox(p, box))
      /\ SavesMoney(p, box) \in Int /\ SavesItems(p, box) \in SUBSET Item
  BY <1>4, SavedBoxType
<1>8. BoxType(inbox')
  BY <1>1, <1>3, <1>7, BoxSet
<1>9. deleted' \in [Player -> SUBSET Nat]
  BY <1>3, DeletedReset
<1>10. sunk' \in Int /\ lost' \in SUBSET Item
  BY <1>3, <1>7 DEF StoreType
<1>11. gold' \in [Player -> Nat]
  BY <1>1, <1>3 DEF HoldType, MailSet
<1> QED BY <1>5, <1>6, <1>8, <1>9, <1>10, <1>11 DEF e, box

\* HandleMailTakeItem() keeps the types; the price is sent, the mail rewritten, the mailbox saved.
LEMMA TakeItemDoes ==
  ASSUME HoldType, StoreType, NEW p \in Player, NEW m \in inbox[p], HandleMailTakeItem(p, m)
  PROVE  /\ gold' \in [Player -> Nat] /\ bag' \in [Player -> SUBSET Item]
         /\ BoxType(inbox') /\ deleted' \in [Player -> SUBSET Nat]
         /\ pending' \in Seq(WriteSet) /\ sunk' \in Int /\ lost' \in SUBSET Item
         /\ MayPost(CodDrafts(p, m))
         /\ inbox' = Received([inbox EXCEPT ![p] = SavedBox(p, Changed(p, m, ItemTaken(m)))],
                              Numbered(CodDrafts(p, m)))
         /\ Settled' = {x \in Apply(Settled \cup Numbered(CodDrafts(p, m)),
                                    Write(p, "update", ItemTaken(m))) :
                          x.id \notin IdsOf(Marked(p, Changed(p, m, ItemTaken(m))))}
<1> DEFINE e == ItemTaken(m)
           box == Changed(p, m, e)
           ws == SaveWrites(p, box, {e})
           D == CodDrafts(p, m)
           none == <<>>
           boxes == [inbox EXCEPT ![p] = SavedBox(p, box)]
<1>1. m \in MailSet /\ BoxType(inbox)
  BY DEF HoldType, BoxType
<1>2. e \in MailSet
  BY <1>1, TakenType
<1>3. /\ gold' = [gold EXCEPT ![p] = @ - m.cod] /\ gold[p] >= m.cod
      /\ bag' = [bag EXCEPT ![p] = @ \cup {m.item}] /\ m.item # None
      /\ Post(boxes, none, D, ws) /\ rows' = rows
      /\ deleted' = [deleted EXCEPT ![p] = {}]
      /\ sunk' = sunk + SavesMoney(p, box) /\ lost' = lost \cup SavesItems(p, box)
  BY DEF HandleMailTakeItem, ItemTaken, Changed, CodDrafts
<1>4. D \in SUBSET DraftSet /\ IsFiniteSet(D)
  BY <1>1, DraftsType
<1> HIDE DEF e, D
<1>5. box \in SUBSET MailSet /\ IsFiniteSet(box)
  BY <1>2, ChangedType
<1> HIDE DEF box
<1>6. ws \in Seq(WriteSet)
  BY <1>2, <1>5, SavedChanged
<1>7. none \in Seq(WriteSet)
  OBVIOUS
<1>8. Executed(Settled, none) = Settled
  BY ExecutedNone
<1>9. \A T : Executed(T, ws) = {x \in Apply(T, Write(p, "update", e)) : x.id \notin IdsOf(Marked(p, box))}
  BY <1>2, <1>5, SavedChanged
<1>10. /\ SavedBox(p, box) \in SUBSET MailSet /\ IsFiniteSet(SavedBox(p, box))
       /\ SavesMoney(p, box) \in Int /\ SavesItems(p, box) \in SUBSET Item
  BY <1>5, SavedBoxType
<1>11. BoxType(boxes)
  BY <1>1, <1>10, BoxSet
<1> HIDE DEF ws, none, boxes
<1>12. /\ MayPost(D) /\ inbox' = Received(boxes, Numbered(D)) /\ pending' \in Seq(WriteSet)
       /\ Settled' = Executed(Executed(Settled, none) \cup Numbered(D), ws)
  BY <1>3, <1>4, <1>6, <1>7, Posted
<1>13. Settled' = {x \in Apply(Settled \cup Numbered(D), Write(p, "update", e)) : x.id \notin IdsOf(Marked(p, box))}
  BY <1>8, <1>9, <1>12
<1>14. BoxType(inbox')
  <2>1. Numbered(D) \in SUBSET MailSet /\ IsFiniteSet(Numbered(D))
    BY <1>4, <1>12, NumberedType
  <2> QED BY <2>1, <1>11, <1>12, ReceivedType
<1>15. deleted' \in [Player -> SUBSET Nat]
  BY <1>3, DeletedReset
<1>16. sunk' \in Int /\ lost' \in SUBSET Item
  BY <1>3, <1>10 DEF StoreType
<1>17. gold' \in [Player -> Nat]
  <2>1. gold \in [Player -> Nat] /\ m.cod \in Nat
    BY <1>1 DEF HoldType, MailSet
  <2>2. gold[p] - m.cod \in Nat
    BY <2>1, <1>3
  <2> QED BY <2>1, <2>2, <1>3
<1>18. bag' \in [Player -> SUBSET Item]
  <2>1. bag \in [Player -> SUBSET Item] /\ m.item \in Item
    BY <1>1, <1>3 DEF HoldType, MailSet
  <2> QED BY <2>1, <1>3
<1> QED BY <1>12, <1>13, <1>14, <1>15, <1>16, <1>17, <1>18 DEF e, box, D, boxes

\* HandleMailReturnToSender() keeps the types; the mail is deleted and perhaps sent back.
LEMMA ReturnDoes ==
  ASSUME HoldType, StoreType, NEW p \in Player, NEW m \in inbox[p], HandleMailReturnToSender(p, m)
  PROVE  /\ BoxType(inbox') /\ pending' \in Seq(WriteSet) /\ sunk' \in Int /\ lost' \in SUBSET Item
         /\ MayPost(BackDrafts(p, m))
         /\ inbox' = Received([inbox EXCEPT ![p] = @ \ {m}], Numbered(BackDrafts(p, m)))
         /\ Settled' = {x \in Settled : x.id # m.id} \cup Numbered(BackDrafts(p, m))
<1> DEFINE w == Write(p, "delete", m)
           before == <<w>>
           D == BackDrafts(p, m)
           none == <<>>
           boxes == [inbox EXCEPT ![p] = @ \ {m}]
<1>1. m \in MailSet /\ BoxType(inbox) /\ inbox[p] \in SUBSET MailSet /\ IsFiniteSet(inbox[p])
  BY DEF HoldType, BoxType
<1>2. Post(boxes, before, D, none) /\ rows' = rows
      /\ sunk' = sunk + (IF GoesBack(m) THEN 0 ELSE m.money)
      /\ lost' = lost \cup (IF GoesBack(m) THEN {} ELSE {m.item} \ {None})
  BY DEF HandleMailReturnToSender, BackDrafts, GoesBack
<1>3. D \in SUBSET DraftSet /\ IsFiniteSet(D)
  BY <1>1, DraftsType
<1>4. w \in WriteSet /\ w.op = "delete" /\ w.mail = m
  BY <1>1 DEF Write, WriteSet
<1>5. BoxType(boxes)
  <2>1. inbox[p] \ {m} \in SUBSET MailSet /\ IsFiniteSet(inbox[p] \ {m})
    BY <1>1, FS_RemoveElement
  <2> QED BY <2>1, <1>1, BoxSet
<1> HIDE DEF w, D, boxes
<1>6. Executed(Settled, before) = {x \in Settled : x.id # m.id}
  <2>1. Executed(Settled, before) = Apply(Settled, w)
    BY ExecutedOne
  <2>2. Apply(Settled, w) = {x \in Settled : x.id # w.mail.id}
    BY <1>4 DEF Apply
  <2> QED BY <2>1, <2>2, <1>4
<1>7. before \in Seq(WriteSet) /\ none \in Seq(WriteSet)
  BY <1>4
<1>8. \A T : Executed(T, none) = T
  BY ExecutedNone
<1> HIDE DEF before, none
<1>9. /\ MayPost(D) /\ inbox' = Received(boxes, Numbered(D)) /\ pending' \in Seq(WriteSet)
      /\ Settled' = Executed(Executed(Settled, before) \cup Numbered(D), none)
  BY <1>2, <1>3, <1>7, Posted
<1>10. BoxType(inbox')
  <2>1. Numbered(D) \in SUBSET MailSet /\ IsFiniteSet(Numbered(D))
    BY <1>3, <1>9, NumberedType
  <2> QED BY <2>1, <1>5, <1>9, ReceivedType
<1>11. sunk' \in Int /\ lost' \in SUBSET Item
  <2>1. m.money \in Int /\ m.item \in Item \cup {None} /\ sunk \in Int /\ lost \in SUBSET Item
    BY <1>1 DEF MailSet, StoreType
  <2> QED BY <2>1, <1>2
<1> QED BY <1>6, <1>8, <1>9, <1>10, <1>11 DEF D, boxes

\* The statement of the job that returns expired mails.
LEMMA JobWriteDoes ==
  ASSUME StoreType, NEW w \in WriteSet, JobWrite(w), rows' = rows
  PROVE  /\ pending' \in Seq(WriteSet) /\ sunk' \in Int /\ lost' \in SUBSET Item
         /\ overtaken' \in BOOLEAN
         /\ Settled' = Apply(Settled, w)
<1> DEFINE ws == <<w>>
<1>1. /\ pending' = pending \o ws
      /\ sunk' = sunk + (IF w.op = "delete" THEN w.mail.money ELSE 0)
      /\ lost' = lost \cup (IF w.op = "delete" THEN {w.mail.item} \ {None} ELSE {})
      /\ overtaken' \in BOOLEAN
  BY DEF JobWrite, Enqueue
<1>2. ws \in Seq(WriteSet) /\ Executed(Settled, ws) = Apply(Settled, w)
  BY ExecutedOne
<1> HIDE DEF ws
<1>3. pending' \in Seq(WriteSet) /\ Settled' = Executed(Settled, ws)
  BY <1>1, <1>2, Queued
<1>4. w.mail.money \in Int /\ w.mail.item \in Item \cup {None} /\ sunk \in Int /\ lost \in SUBSET Item
  BY DEF WriteSet, MailSet, StoreType
<1> QED BY <1>1, <1>2, <1>3, <1>4

\* The steps of the system.
LEMMA Steps ==
  ASSUME [Next]_vars
  PROVE  \/ Execute /\ UNCHANGED <<house, trade>>
         \/ ReturnOrDeleteOldMails /\ UNCHANGED <<house, trade>>
         \/ OldMailsCallback /\ UNCHANGED <<house, trade>>
         \/ SingleMailCallback /\ UNCHANGED <<house, trade>>
         \/ \E p \in Player : HandleSendMail(p) /\ UNCHANGED <<house, trade>>
         \/ \E p \in Player : \E m \in inbox[p] : HandleMailTakeItem(p, m) /\ UNCHANGED <<house, trade>>
         \/ \E p \in Player : \E m \in inbox[p] : HandleMailTakeMoney(p, m) /\ UNCHANGED <<house, trade>>
         \/ \E p \in Player : \E m \in inbox[p] : HandleMailDelete(p, m) /\ UNCHANGED <<house, trade>>
         \/ \E p \in Player : \E m \in inbox[p] : HandleMailReturnToSender(p, m) /\ UNCHANGED <<house, trade>>
         \/ \E p \in Player : SendMailAnswer(p) /\ UNCHANGED <<house, trade>>
         \/ \E p \in Player : ReadMails(p) /\ UNCHANGED <<house, trade>>
         \/ \E p \in Player : FinishLogin(p) /\ UNCHANGED <<house, trade>>
         \/ \E p \in Player : SaveMails(p) /\ UNCHANGED <<house, trade>>
         \/ \E p \in Player : Logout(p)
         \/ \E p \in Player : HandleAuctionSellItem(p) /\ UNCHANGED trade
         \/ \E p \in Player : \E i \in Item : HandleAuctionPlaceBid(p, i) /\ UNCHANGED trade
         \/ \E p \in Player : \E i \in Item : HandleAuctionRemoveItem(p, i) /\ UNCHANGED trade
         \/ \E i \in Item : UpdateAuction(i) /\ UNCHANGED trade
         \/ \E p \in Player : TradeStep(p) /\ UNCHANGED house
         \/ UNCHANGED vars
<1>1. CASE MailNext /\ UNCHANGED <<house, trade>>
  BY <1>1 DEF MailNext, MailStep
<1>2. CASE AuctionNext /\ UNCHANGED trade
  BY <1>2 DEF AuctionNext
<1>3. ASSUME NEW p \in Player, MailStep(p) /\ UNCHANGED <<house, trade>>
      PROVE  \/ HandleSendMail(p) /\ UNCHANGED <<house, trade>>
             \/ \E m \in inbox[p] : HandleMailTakeItem(p, m) /\ UNCHANGED <<house, trade>>
             \/ \E m \in inbox[p] : HandleMailTakeMoney(p, m) /\ UNCHANGED <<house, trade>>
             \/ \E m \in inbox[p] : HandleMailDelete(p, m) /\ UNCHANGED <<house, trade>>
             \/ \E m \in inbox[p] : HandleMailReturnToSender(p, m) /\ UNCHANGED <<house, trade>>
  BY <1>3 DEF MailStep
<1>4. ASSUME NEW p \in Player, AuctionStep(p) /\ UNCHANGED trade
      PROVE  \/ HandleAuctionSellItem(p) /\ UNCHANGED trade
             \/ \E i \in Item : HandleAuctionPlaceBid(p, i) /\ UNCHANGED trade
             \/ \E i \in Item : HandleAuctionRemoveItem(p, i) /\ UNCHANGED trade
  BY <1>4 DEF AuctionStep
<1> QED BY <1>1, <1>2, <1>3, <1>4 DEF Next

\* The drafts of an auction that is sold, and of those who are paid back.
AuctionDrafts(a, i) == {SendAuctionSuccessfulMail(a), SendAuctionWonMail(a, i)}

\* The mails of an auction are drafts, and the cut is at most the bid.
LEMMA AuctionDraftsType ==
  ASSUME NEW a \in AuctionSet, NEW i \in Item
  PROVE  /\ SendAuctionSuccessfulMail(a) \in DraftSet /\ SendAuctionWonMail(a, i) \in DraftSet
         /\ SendAuctionExpiredMail(a, i) \in DraftSet
         /\ \A p : SendAuctionOutbiddedMail(a, p) \in DraftSet
         /\ AuctionMail(a.bidder, None, a.bid) \in DraftSet
         /\ AuctionMail(a.owner, i, 0) \in DraftSet
         /\ GetAuctionCut(a) \in Nat /\ GetAuctionCut(a) <= a.bid
<1>1. a.bid \in Nat /\ a.deposit \in Nat /\ a.owner \in Player /\ a.bidder \in Player \cup {None}
  BY DEF AuctionSet
<1>2. GetAuctionCut(a) \in Nat /\ GetAuctionCut(a) <= a.bid
  BY <1>1, CutWithin
<1>3. a.bid + a.deposit - GetAuctionCut(a) \in Nat
  BY <1>1, <1>2
<1>4. \A to \in Player \cup {None}, item \in Item \cup {None}, money \in Nat :
        AuctionMail(to, item, money) \in DraftSet
  BY DraftType DEF AuctionMail
<1> QED BY <1>1, <1>2, <1>3, <1>4
        DEF SendAuctionSuccessfulMail, SendAuctionWonMail, SendAuctionExpiredMail, SendAuctionOutbiddedMail

\* What bids and the end of an auction send.
Refunds(a) == IF a.bidder = None THEN {} ELSE {AuctionMail(a.bidder, None, a.bid)}
Overbid(a, p) == IF a.bidder = p THEN {} ELSE Refunds(a)

\* The sets of drafts that an auction's operations send.
LEMMA RefundsType ==
  ASSUME NEW a \in AuctionSet, NEW i \in Item
  PROVE  /\ Refunds(a) \in SUBSET DraftSet /\ IsFiniteSet(Refunds(a))
         /\ \A p : Overbid(a, p) \in SUBSET DraftSet /\ IsFiniteSet(Overbid(a, p))
         /\ AuctionDrafts(a, i) \in SUBSET DraftSet /\ IsFiniteSet(AuctionDrafts(a, i))
         /\ {SendAuctionExpiredMail(a, i)} \in SUBSET DraftSet /\ IsFiniteSet({SendAuctionExpiredMail(a, i)})
         /\ {AuctionMail(a.owner, i, 0)} \in SUBSET DraftSet /\ IsFiniteSet({AuctionMail(a.owner, i, 0)})
<1>1. \A x : IsFiniteSet({x})
  BY FS_Singleton
<1>2. \A x, y : IsFiniteSet({x, y})
  <2> TAKE x, y
  <2> DEFINE s == {x}
  <2>1. IsFiniteSet(s)
    BY <1>1
  <2>2. {x, y} = s \cup {y}
    OBVIOUS
  <2> HIDE DEF s
  <2>3. IsFiniteSet(s \cup {y})
    BY <2>1, FS_AddElement
  <2> QED BY <2>2, <2>3
<1>3. IsFiniteSet({})
  BY FS_EmptySet
<1>4. Refunds(a) \in SUBSET DraftSet /\ IsFiniteSet(Refunds(a))
  BY <1>1, <1>3, AuctionDraftsType DEF Refunds
<1>5. \A p : Overbid(a, p) \in SUBSET DraftSet /\ IsFiniteSet(Overbid(a, p))
  BY <1>3, <1>4 DEF Overbid
<1>6. AuctionDrafts(a, i) \in SUBSET DraftSet /\ IsFiniteSet(AuctionDrafts(a, i))
  BY <1>2, AuctionDraftsType DEF AuctionDrafts
<1> QED BY <1>1, <1>4, <1>5, <1>6, AuctionDraftsType

\* The auction after a bid, and what an accepted bid does.
Bought(a, price) == a.buyout # 0 /\ price >= a.buyout
Paying(a, price) == IF Bought(a, price) THEN a.buyout ELSE price
WithBid(a, p, paid) == [a EXCEPT !.bidder = p, !.bid = paid]
Charge(a, p, paid) == IF a.bidder = p THEN paid - a.bid ELSE paid

\* A bid that does not buy, one that does.
OnlyBids(p, i, a, paid) ==
  /\ Pay(Overbid(a, p), {}, 0)
  /\ house' = [house EXCEPT ![i] = WithBid(a, p, paid)]
Buys(p, i, a, paid) ==
  /\ Pay(Overbid(a, p) \cup AuctionDrafts(WithBid(a, p, paid), i), {}, GetAuctionCut(WithBid(a, p, paid)))
  /\ house' = [house EXCEPT ![i] = NoAuction]

\* HandleAuctionPlaceBid(): the bidder can pay, the auction takes the bid or ends.
LEMMA BidDoes ==
  ASSUME NEW p \in Player, NEW i \in Item, HandleAuctionPlaceBid(p, i), HoldType, StoreType, HouseInv
  PROVE  \E paid \in Nat :
           /\ house[i] \in AuctionSet /\ house[i] # NoAuction /\ p # house[i].owner /\ Online(p)
           /\ paid > house[i].bid /\ paid <= gold[p] /\ Charge(house[i], p, paid) \in 0..gold[p]
           /\ WithBid(house[i], p, paid) \in AuctionSet
           /\ gold' = [gold EXCEPT ![p] = @ - Charge(house[i], p, paid)]
           /\ \/ OnlyBids(p, i, house[i], paid) /\ (house[i].buyout = 0 \/ paid < house[i].buyout)
              \/ Buys(p, i, house[i], paid)
           /\ UNCHANGED <<bag, loginVars, deleted, rows, job, overtaken>>
<1> DEFINE a == house[i]
<1>1. a \in AuctionSet /\ a # NoAuction /\ Online(p) /\ house \in [Item -> {NoAuction} \cup AuctionSet]
      /\ (a.buyout = 0 \/ a.bid < a.buyout)
  <2>1. a # NoAuction /\ Online(p)
    BY DEF HandleAuctionPlaceBid, Auctioned
  <2> QED BY <2>1 DEF HouseInv
<1>2. PICK price \in Price :
        /\ BidAccepted(p, a, price)
        /\ gold' = [gold EXCEPT ![p] = @ - Charge(a, p, Paying(a, price))]
        /\ IF Bought(a, price) THEN Buys(p, i, a, Paying(a, price)) ELSE OnlyBids(p, i, a, Paying(a, price))
        /\ UNCHANGED <<bag, loginVars, deleted, rows, job, overtaken>>
  BY DEF HandleAuctionPlaceBid, Charge, Bought, Paying, Buys, OnlyBids, Sold, AuctionDrafts, WithBid, Overbid, Refunds,
         SendAuctionOutbiddedMail
<1>3. price \in Nat /\ gold[p] \in Nat /\ a.bid \in Nat /\ a.buyout \in Nat
  BY <1>1, AuctionAssumption DEF HoldType, AuctionSet
<1> DEFINE paid == Paying(a, price)
<1>4. a.owner # p /\ price > a.bid /\ price <= gold[p]
  BY <1>2 DEF BidAccepted
<1> HIDE DEF a
<1>5. paid \in Nat /\ paid > a.bid /\ paid <= gold[p]
  BY <1>1, <1>3, <1>4 DEF Paying, Bought
<1>6. ~Bought(a, price) => a.buyout = 0 \/ paid < a.buyout
  BY <1>3 DEF Paying, Bought
<1> HIDE DEF paid
<1>7. Charge(a, p, paid) \in 0..gold[p]
  BY <1>3, <1>5 DEF Charge
<1>8. WithBid(a, p, paid) \in AuctionSet
  BY <1>1, <1>5 DEF WithBid, AuctionSet
<1>9. /\ a \in AuctionSet /\ a # NoAuction /\ p # a.owner /\ Online(p)
      /\ paid > a.bid /\ paid <= gold[p] /\ Charge(a, p, paid) \in 0..gold[p]
      /\ WithBid(a, p, paid) \in AuctionSet
      /\ gold' = [gold EXCEPT ![p] = @ - Charge(a, p, paid)]
      /\ \/ OnlyBids(p, i, a, paid) /\ (a.buyout = 0 \/ paid < a.buyout)
         \/ Buys(p, i, a, paid)
      /\ UNCHANGED <<bag, loginVars, deleted, rows, job, overtaken>>
  <2>1. gold' = [gold EXCEPT ![p] = @ - Charge(a, p, paid)]
    BY <1>2 DEF paid
  <2>2. IF Bought(a, price) THEN Buys(p, i, a, paid) ELSE OnlyBids(p, i, a, paid)
    BY <1>2 DEF paid
  <2>3. UNCHANGED <<bag, loginVars, deleted, rows, job, overtaken>>
    BY <1>2
  <2> QED BY <2>1, <2>2, <2>3, <1>1, <1>4, <1>5, <1>6, <1>7, <1>8
<1> QED BY <1>5, <1>9 DEF a

\* What the other operations on auctions and the trades do.
LEMMA SellDoes ==
  ASSUME NEW p \in Player, HandleAuctionSellItem(p), HoldType
  PROVE  \E i \in bag[p], bid \in Nat, buyout \in Nat :
           LET a == [owner |-> p, startbid |-> bid, buyout |-> buyout, bidder |-> None, bid |-> 0,
                     deposit |-> Deposit]
           IN /\ i \in Item /\ house[i] = NoAuction /\ a \in AuctionSet /\ Deposit \in 0..gold[p]
              /\ gold' = [gold EXCEPT ![p] = @ - Deposit]
              /\ bag' = [bag EXCEPT ![p] = @ \ {i}]
              /\ house' = [house EXCEPT ![i] = a]
              /\ UNCHANGED <<loginVars, boxVars, storeVars, job, lossVars, overtaken>>
<1>1. PICK i \in bag[p], bid \in Price, buyout \in Price \cup {0} :
        /\ i \notin Auctioned /\ gold[p] >= Deposit
        /\ bag' = [bag EXCEPT ![p] = @ \ {i}]
        /\ house' = [house EXCEPT ![i] = [owner |-> p, startbid |-> bid, buyout |-> buyout,
                                          bidder |-> None, bid |-> 0, deposit |-> Deposit]]
  BY DEF HandleAuctionSellItem
<1>2. bid \in Nat /\ buyout \in Nat /\ Deposit \in Nat /\ i \in Item /\ gold[p] \in Nat
  BY AuctionAssumption DEF HoldType
<1>3. Deposit \in 0..gold[p]
  BY <1>1, <1>2
<1>4. house[i] = NoAuction
  BY <1>1, <1>2 DEF Auctioned
<1>5. [owner |-> p, startbid |-> bid, buyout |-> buyout, bidder |-> None, bid |-> 0,
       deposit |-> Deposit] \in AuctionSet
  BY <1>2 DEF AuctionSet
<1>6. /\ gold' = [gold EXCEPT ![p] = @ - Deposit]
      /\ UNCHANGED <<loginVars, boxVars, storeVars, job, lossVars, overtaken>>
  BY DEF HandleAuctionSellItem
<1> QED BY <1>1, <1>2, <1>3, <1>4, <1>5, <1>6

\* What HandleAuctionRemoveItem() takes from the owner.
CutOf(a) == IF a.bidder = None THEN 0 ELSE GetAuctionCut(a)

\* HandleAuctionRemoveItem(): the bidder is paid back, the owner gets the item.
LEMMA RemoveDoes ==
  ASSUME NEW p \in Player, NEW i \in Item, HandleAuctionRemoveItem(p, i), HoldType, HouseInv
  PROVE  /\ house[i] \in AuctionSet /\ house[i] # NoAuction /\ house[i].owner = p
         /\ CutOf(house[i]) \in 0..gold[p]
         /\ gold' = [gold EXCEPT ![p] = @ - CutOf(house[i])]
         /\ Pay(Refunds(house[i]), {AuctionMail(house[i].owner, i, 0)}, house[i].deposit + CutOf(house[i]))
         /\ house' = [house EXCEPT ![i] = NoAuction]
         /\ UNCHANGED <<bag, loginVars, deleted, rows, job, overtaken>>
<1> DEFINE a == house[i]
<1>1. /\ a # NoAuction /\ a.owner = p /\ gold[p] >= CutOf(a)
      /\ gold' = [gold EXCEPT ![p] = @ - CutOf(a)]
      /\ Pay(Refunds(a), {AuctionMail(p, i, 0)}, a.deposit + CutOf(a))
      /\ house' = [house EXCEPT ![i] = NoAuction]
      /\ UNCHANGED <<bag, loginVars, deleted, rows, job, overtaken>>
  BY DEF HandleAuctionRemoveItem, Refunds, CutOf, Auctioned
<1>2. a \in AuctionSet /\ gold[p] \in Nat
  BY <1>1 DEF HouseInv, HoldType
<1>3. CutOf(a) \in Nat
  BY <1>2, AuctionDraftsType DEF CutOf
<1>4. CutOf(a) \in 0..gold[p]
  BY <1>1, <1>2, <1>3
<1>5. Pay(Refunds(a), {AuctionMail(a.owner, i, 0)}, a.deposit + CutOf(a))
  BY <1>1
<1> QED BY <1>1, <1>2, <1>4, <1>5

\* AuctionHouseObject::Update(): the auction ends, its parts are sent.
LEMMA UpdateDoes ==
  ASSUME NEW i \in Item, UpdateAuction(i), HouseInv
  PROVE  /\ house[i] \in AuctionSet /\ house[i] # NoAuction
         /\ IF house[i].bidder = None
              THEN Pay({SendAuctionExpiredMail(house[i], i)}, {}, house[i].deposit)
              ELSE Pay(AuctionDrafts(house[i], i), {}, GetAuctionCut(house[i]))
         /\ house' = [house EXCEPT ![i] = NoAuction]
         /\ UNCHANGED <<holdVars, loginVars, deleted, rows, job, overtaken>>
<1>1. house[i] # NoAuction
  BY DEF UpdateAuction, Auctioned
<1>2. house[i] \in AuctionSet
  BY <1>1 DEF HouseInv
<1>3. IF house[i].bidder = None
        THEN Pay({SendAuctionExpiredMail(house[i], i)}, {}, house[i].deposit)
        ELSE Pay(AuctionDrafts(house[i], i), {}, GetAuctionCut(house[i]))
  <2>1. {} \cup AuctionDrafts(house[i], i) = AuctionDrafts(house[i], i)
    OBVIOUS
  <2> QED BY <2>1 DEF UpdateAuction, Sold, AuctionDrafts
<1>4. /\ house' = [house EXCEPT ![i] = NoAuction]
      /\ UNCHANGED <<holdVars, loginVars, deleted, rows, job, overtaken>>
  BY DEF UpdateAuction, Sold
<1> QED BY <1>1, <1>2, <1>3, <1>4

\* An exchange, or nothing but the trade itself.
LEMMA TradeDoes ==
  ASSUME NEW p \in Player, TradeStep(p), TradeInv
  PROVE  \/ UNCHANGED mailVars
         \/ /\ Trading(p) /\ HasMoney(p) /\ HasMoney(trade[p].with)
            /\ Exchange(p, trade[p].with)
BY DEF TradeStep, HandleInitiateTrade, HandleSetTradeGold, HandleSetTradeItem, HandleClearTradeItem,
       HandleAcceptTrade, HandleUnacceptTrade, HandleCancelTrade, Accept

\* After an exchange the one has what the other gave.
LEMMA ExchangeDoes ==
  ASSUME HoldType, TradeInv, NEW p \in Player, Trading(p), HasMoney(p), HasMoney(trade[p].with),
         Exchange(p, trade[p].with)
  PROVE  \E q \in Player \ {p}, given \in Nat, taken \in Nat :
           /\ q = trade[p].with /\ given <= gold[p] /\ taken <= gold[q]
           /\ gold' = [gold EXCEPT ![p] = @ - given + taken, ![q] = @ - taken + given]
           /\ gold' \in [Player -> Nat]
           /\ bag' = [bag EXCEPT ![p] = (@ \ Given(p)) \cup Given(q), ![q] = (@ \ Given(q)) \cup Given(p)]
           /\ bag' \in [Player -> SUBSET Item]
           /\ UNCHANGED <<loginVars, boxVars, storeVars, job, lossVars, overtaken>>
<1> DEFINE q == trade[p].with
           given == trade[p].money
           taken == trade[q].money
<1>1. q \in Player \ {p} /\ given \in Nat /\ taken \in Nat
  BY DEF TradeInv, TradeSet
<1>2. given <= gold[p] /\ taken <= gold[q]
  BY DEF HasMoney
<1>3. /\ gold' = [gold EXCEPT ![p] = @ - given + taken, ![q] = @ - taken + given]
      /\ bag' = [bag EXCEPT ![p] = (@ \ Given(p)) \cup Given(q), ![q] = (@ \ Given(q)) \cup Given(p)]
      /\ UNCHANGED <<loginVars, boxVars, storeVars, job, lossVars, overtaken>>
  BY DEF Exchange
<1> HIDE DEF q, given, taken
<1>4. gold' \in [Player -> Nat]
  <2>1. gold \in [Player -> Nat]
    BY DEF HoldType
  <2>2. gold[p] - given + taken \in Nat /\ gold[q] - taken + given \in Nat
    BY <2>1, <1>1, <1>2
  <2> QED BY <2>1, <2>2, <1>1, <1>3
<1>5. bag' \in [Player -> SUBSET Item]
  <2>1. bag \in [Player -> SUBSET Item]
    BY DEF HoldType
  <2>2. Given(p) \in SUBSET Item /\ Given(q) \in SUBSET Item
    BY <2>1, <1>1 DEF Given
  <2> QED BY <2>1, <2>2, <1>1, <1>3
<1> QED BY <1>1, <1>2, <1>3, <1>4, <1>5 DEF q

----------------------------------------------------------------------------
(* Types, auctions, mailboxes and trades are kept. *)

\* A packet or the answer to a count query writes a mail, or nothing happens.
LEMMA SendDoes ==
  ASSUME NEW p \in Player, HandleSendMail(p) \/ SendMailAnswer(p), HoldType
  PROVE  /\ \/ \E r \in RequestSet : HandleSendMailCallback(r)
            \/ UNCHANGED <<gold, bag, sunk, inbox, pending>>
         /\ request' \in [Player -> {None} \cup RequestSet]
         /\ UNCHANGED <<login, answer, deleted, rows, job, lost, overtaken>>
<1>0. request \in [Player -> {None} \cup RequestSet] /\ bag \in [Player -> SUBSET Item]
  BY DEF HoldType
<1>1. CASE HandleSendMail(p)
  <2>1. PICK to \in Player, item \in bag[p] \cup {None}, amount \in Amount :
          LET r == MailRequest(p, to, item, amount[1], amount[2])
          IN  IF Online(to)
                THEN HandleSendMailCallback(r) /\ UNCHANGED request
                ELSE request' = [request EXCEPT ![p] = r] /\ UNCHANGED <<gold, bag, sunk, inbox, pending>>
    BY <1>1 DEF HandleSendMail
  <2> DEFINE r == MailRequest(p, to, item, amount[1], amount[2])
  <2>2. r \in RequestSet
    <3>1. amount[1] \in Nat /\ amount[2] \in Nat
      BY MailAssumption
    <3>2. item \in Item \cup {None}
      BY <1>0
    <3> QED BY <3>1, <3>2 DEF MailRequest, RequestSet
  <2>3. UNCHANGED <<login, answer, deleted, rows, job, lost, overtaken>>
    BY <1>1 DEF HandleSendMail
  <2>4. \/ HandleSendMailCallback(r) /\ request' = request
        \/ request' = [request EXCEPT ![p] = r] /\ UNCHANGED <<gold, bag, sunk, inbox, pending>>
    BY <2>1
  <2> HIDE DEF r
  <2>5. request' \in [Player -> {None} \cup RequestSet]
    BY <2>2, <2>4, <1>0
  <2> QED BY <2>2, <2>3, <2>4, <2>5
<1>2. CASE SendMailAnswer(p)
  <2>1. request[p] # None /\ request' = [request EXCEPT ![p] = None]
        /\ UNCHANGED <<login, answer, deleted, rows, job, lost, overtaken>>
    BY <1>2 DEF SendMailAnswer
  <2>2. request[p] \in RequestSet
    BY <1>0, <2>1
  <2>3. HandleSendMailCallback(request[p]) \/ UNCHANGED <<gold, bag, sunk, inbox, pending>>
    BY <1>2 DEF SendMailAnswer
  <2>4. request' \in [Player -> {None} \cup RequestSet]
    BY <2>1, <1>0
  <2> QED BY <2>1, <2>2, <2>3, <2>4
<1> QED BY <1>1, <1>2

\* The job goes on to a mail, or writes about its own.
LEMMA JobDoes ==
  ASSUME OldMailsCallback \/ SingleMailCallback, StoreType
  PROVE  /\ job.mail \in MailSet
         /\ job' = NoJob \/ job' \in [at : {"found", "item"}, mail : MailSet]
         /\ \/ UNCHANGED <<pending, overtaken, sunk, lost>>
            \/ /\ ~Online(job.mail.to)
               /\ \E op \in {"delete", "return"} : JobWrite(Write(None, op, job.mail))
         /\ UNCHANGED <<holdVars, loginVars, boxVars, rows>>
<1>1. job \in [at : {"found", "item"}, mail : MailSet]
  BY DEF StoreType, OldMailsCallback, SingleMailCallback, NoJob
<1>2. job.mail \in MailSet
  BY <1>1
<1>3. [at |-> "item", mail |-> job.mail] \in [at : {"found", "item"}, mail : MailSet]
  BY <1>2
<1>4. CASE OldMailsCallback
  BY <1>2, <1>3, <1>4 DEF OldMailsCallback
<1>5. CASE SingleMailCallback
  BY <1>2, <1>3, <1>5 DEF SingleMailCallback
<1> QED BY <1>4, <1>5

\* Types are kept by every step.
TypeInv == HoldType /\ StoreType

\* Every step keeps the types.
LEMMA TypeKept ==
  ASSUME TypeInv, HouseInv, TradeInv, [Next]_vars
  PROVE  TypeInv'
<1> USE DEF TypeInv
<1>1. ASSUME Execute PROVE TypeInv'
  <2>1. PICK k \in DOMAIN pending :
          /\ rows' = Apply(rows, pending[k]) /\ pending' = RemoveAt(pending, k)
          /\ overtaken' \in BOOLEAN
          /\ UNCHANGED <<holdVars, loginVars, boxVars, job, lossVars>>
    BY <1>1 DEF Execute
  <2>2. pending \in Seq(WriteSet) /\ k \in 1..Len(pending)
    BY DEF StoreType
  <2>3. pending' \in Seq(WriteSet)
    BY <2>1, <2>2, RemovedAt
  <2>4. pending[k] \in WriteSet /\ rows \in SUBSET MailSet /\ IsFiniteSet(rows)
    BY <2>2 DEF StoreType
  <2>5. rows' \in SUBSET MailSet /\ IsFiniteSet(rows')
    <3> DEFINE w == pending[k]
    <3> HIDE DEF w
    <3>1. w \in WriteSet
      BY <2>4 DEF w
    <3>2. Apply(rows, w) \in SUBSET MailSet
      BY <3>1, <2>4, ApplyType
    <3>3. IsFiniteSet(Apply(rows, w))
      BY <3>1, <2>4, ApplyFinite
    <3> QED BY <3>2, <3>3, <2>1 DEF w
  <2>6. HoldType'
    BY <2>1 DEF HoldType, BoxType, holdVars, loginVars, boxVars
  <2>7. StoreType'
    BY <2>1, <2>3, <2>5 DEF StoreType, lossVars
  <2> QED BY <2>6, <2>7
<1>2. ASSUME ReturnOrDeleteOldMails PROVE TypeInv'
  <2>1. PICK m \in rows : job' = [at |-> "found", mail |-> m]
    BY <1>2 DEF ReturnOrDeleteOldMails
  <2>2. UNCHANGED <<holdVars, loginVars, boxVars, storeVars, lossVars, overtaken>>
    BY <1>2 DEF ReturnOrDeleteOldMails
  <2>3. job' \in [at : {"found", "item"}, mail : MailSet]
    BY <2>1 DEF StoreType
  <2>4. HoldType'
    BY <2>2 DEF HoldType, BoxType, holdVars, loginVars, boxVars
  <2>5. StoreType'
    BY <2>2, <2>3 DEF StoreType, storeVars, lossVars
  <2> QED BY <2>4, <2>5
<1>3. ASSUME OldMailsCallback \/ SingleMailCallback PROVE TypeInv'
  <2>1. /\ job.mail \in MailSet
        /\ job' = NoJob \/ job' \in [at : {"found", "item"}, mail : MailSet]
        /\ \/ UNCHANGED <<pending, overtaken, sunk, lost>>
           \/ \E op \in {"delete", "return"} : JobWrite(Write(None, op, job.mail))
        /\ UNCHANGED <<holdVars, loginVars, boxVars, rows>>
    BY <1>3, JobDoes
  <2>2. HoldType'
    BY <2>1 DEF HoldType, BoxType, holdVars, loginVars, boxVars
  <2>3. pending' \in Seq(WriteSet) /\ sunk' \in Int /\ lost' \in SUBSET Item /\ overtaken' \in BOOLEAN
    <3>1. CASE UNCHANGED <<pending, overtaken, sunk, lost>>
      BY <3>1 DEF StoreType
    <3>2. CASE \E op \in {"delete", "return"} : JobWrite(Write(None, op, job.mail))
      <4>1. PICK op \in {"delete", "return"} : JobWrite(Write(None, op, job.mail))
        BY <3>2
      <4>2. Write(None, op, job.mail) \in WriteSet /\ rows' = rows
        BY <2>1 DEF Write, WriteSet
      <4> DEFINE w == Write(None, op, job.mail)
      <4>3. w \in WriteSet /\ JobWrite(w)
        BY <4>1, <4>2
      <4> HIDE DEF w
      <4> QED BY <4>2, <4>3, JobWriteDoes
    <3> QED BY <2>1, <3>1, <3>2
  <2>4. StoreType'
    BY <2>1, <2>3 DEF StoreType
  <2> QED BY <2>2, <2>4
<1>4. ASSUME NEW p \in Player, HandleSendMail(p) \/ SendMailAnswer(p) PROVE TypeInv'
  <2>1. /\ \/ \E r \in RequestSet : HandleSendMailCallback(r)
           \/ UNCHANGED <<gold, bag, sunk, inbox, pending>>
        /\ request' \in [Player -> {None} \cup RequestSet]
        /\ UNCHANGED <<login, answer, deleted, rows, job, lost, overtaken>>
    BY <1>4, SendDoes
  <2>2. /\ gold' \in [Player -> Nat] /\ bag' \in [Player -> SUBSET Item] /\ sunk' \in Int
        /\ BoxType(inbox') /\ pending' \in Seq(WriteSet)
    <3>1. CASE UNCHANGED <<gold, bag, sunk, inbox, pending>>
      BY <3>1 DEF HoldType, StoreType
    <3>2. CASE \E r \in RequestSet : HandleSendMailCallback(r)
      BY <2>1, <3>2, CallbackDoes
    <3> QED BY <2>1, <3>1, <3>2
  <2>3. HoldType'
    BY <2>1, <2>2 DEF HoldType
  <2>4. StoreType'
    BY <2>1, <2>2 DEF StoreType
  <2> QED BY <2>3, <2>4
<1>5. ASSUME NEW p \in Player, NEW m \in inbox[p], HandleMailTakeItem(p, m) PROVE TypeInv'
  <2>1. UNCHANGED <<loginVars, rows, job, overtaken>>
    BY <1>5 DEF HandleMailTakeItem
  <2>2. /\ gold' \in [Player -> Nat] /\ bag' \in [Player -> SUBSET Item]
        /\ BoxType(inbox') /\ deleted' \in [Player -> SUBSET Nat]
        /\ pending' \in Seq(WriteSet) /\ sunk' \in Int /\ lost' \in SUBSET Item
    BY <1>5, TakeItemDoes
  <2>3. HoldType'
    BY <2>1, <2>2 DEF HoldType, loginVars
  <2>4. StoreType'
    BY <2>1, <2>2 DEF StoreType
  <2> QED BY <2>3, <2>4
<1>6. ASSUME NEW p \in Player, NEW m \in inbox[p], HandleMailTakeMoney(p, m) PROVE TypeInv'
  <2>1. UNCHANGED <<bag, loginVars, rows, job, overtaken>>
    BY <1>6 DEF HandleMailTakeMoney
  <2>2. /\ gold' \in [Player -> Nat] /\ BoxType(inbox') /\ deleted' \in [Player -> SUBSET Nat]
        /\ pending' \in Seq(WriteSet) /\ sunk' \in Int /\ lost' \in SUBSET Item
    BY <1>6, TakeMoneyDoes
  <2>3. HoldType'
    BY <2>1, <2>2 DEF HoldType, loginVars
  <2>4. StoreType'
    BY <2>1, <2>2 DEF StoreType
  <2> QED BY <2>3, <2>4
<1>7. ASSUME NEW p \in Player, NEW m \in inbox[p], HandleMailDelete(p, m) PROVE TypeInv'
  <2>1. /\ deleted' = [deleted EXCEPT ![p] = @ \cup {m.id}]
        /\ UNCHANGED <<holdVars, loginVars, inbox, storeVars, job, lossVars, overtaken>>
    BY <1>7 DEF HandleMailDelete
  <2>2. m.id \in Nat
    BY DEF HoldType, BoxType, MailSet
  <2>3. deleted' \in [Player -> SUBSET Nat]
    BY <2>1, <2>2 DEF HoldType
  <2>4. HoldType'
    BY <2>1, <2>3 DEF HoldType, holdVars, loginVars
  <2>5. StoreType'
    BY <2>1 DEF StoreType, storeVars, lossVars
  <2> QED BY <2>4, <2>5
<1>8. ASSUME NEW p \in Player, NEW m \in inbox[p], HandleMailReturnToSender(p, m) PROVE TypeInv'
  <2>1. UNCHANGED <<holdVars, loginVars, deleted, rows, job, overtaken>>
    BY <1>8 DEF HandleMailReturnToSender
  <2>2. BoxType(inbox') /\ pending' \in Seq(WriteSet) /\ sunk' \in Int /\ lost' \in SUBSET Item
    BY <1>8, ReturnDoes
  <2>3. HoldType'
    BY <2>1, <2>2 DEF HoldType, holdVars, loginVars
  <2>4. StoreType'
    BY <2>1, <2>2 DEF StoreType
  <2> QED BY <2>3, <2>4
<1>9. ASSUME NEW p \in Player, ReadMails(p) PROVE TypeInv'
  <2> DEFINE mine == {m \in rows : m.to = p}
  <2>1. /\ login' = [login EXCEPT ![p] = "read"] /\ answer' = [answer EXCEPT ![p] = mine]
        /\ overtaken' \in BOOLEAN
        /\ UNCHANGED <<holdVars, request, boxVars, storeVars, job, lossVars>>
    BY <1>9 DEF ReadMails
  <2>2. mine \in SUBSET rows
    OBVIOUS
  <2> HIDE DEF mine
  <2>3. mine \in SUBSET MailSet /\ IsFiniteSet(mine)
    BY <2>2, FS_Subset DEF StoreType
  <2>4. BoxType(answer')
    BY <2>1, <2>3, BoxSet DEF HoldType
  <2>5. HoldType'
    BY <2>1, <2>4 DEF HoldType, holdVars, boxVars
  <2>6. StoreType'
    BY <2>1 DEF StoreType, storeVars, lossVars
  <2> QED BY <2>5, <2>6
<1>10. ASSUME NEW p \in Player, FinishLogin(p) PROVE TypeInv'
  <2>1. /\ login' = [login EXCEPT ![p] = "in"] /\ inbox' = [inbox EXCEPT ![p] = answer[p]]
        /\ answer' = [answer EXCEPT ![p] = {}]
        /\ UNCHANGED <<holdVars, request, deleted, storeVars, job, lossVars, overtaken>>
    BY <1>10 DEF FinishLogin
  <2>2. BoxType(answer') /\ BoxType(inbox')
    BY <2>1, FS_EmptySet DEF HoldType, BoxType
  <2>3. HoldType'
    BY <2>1, <2>2 DEF HoldType, holdVars
  <2>4. StoreType'
    BY <2>1 DEF StoreType, storeVars, lossVars
  <2> QED BY <2>3, <2>4
<1>11. ASSUME NEW p \in Player, SaveMails(p) \/ LogoutMail(p) PROVE TypeInv'
  <2>1. PICK next : next \in SUBSET MailSet /\ IsFiniteSet(next) /\ SaveMailbox(p, next)
    <3>1. SavedBox(p, inbox[p]) \in SUBSET MailSet /\ IsFiniteSet(SavedBox(p, inbox[p]))
      <4>1. inbox[p] \in SUBSET MailSet /\ IsFiniteSet(inbox[p])
        BY DEF HoldType, BoxType
      <4> QED BY <4>1, SavedBoxType
    <3> QED BY <3>1, <1>11, FS_EmptySet DEF SaveMails, LogoutMail
  <2>2. login' \in [Player -> {"out", "read", "in"}] /\ UNCHANGED <<holdVars, answer, request, rows, job, overtaken>>
    BY <1>11 DEF SaveMails, LogoutMail, loginVars, HoldType
  <2>3. /\ BoxType(inbox') /\ deleted' \in [Player -> SUBSET Nat] /\ pending' \in Seq(WriteSet)
        /\ sunk' \in Int /\ lost' \in SUBSET Item
    BY <2>1, <2>2, SaveMailboxDoes
  <2>4. HoldType'
    BY <2>2, <2>3 DEF HoldType, holdVars
  <2>5. StoreType'
    BY <2>2, <2>3 DEF StoreType
  <2> QED BY <2>4, <2>5
<1>12. ASSUME NEW p \in Player, HandleAuctionSellItem(p) PROVE TypeInv'
  <2>1. PICK i \in bag[p] :
          /\ Deposit \in 0..gold[p] /\ gold' = [gold EXCEPT ![p] = @ - Deposit]
          /\ bag' = [bag EXCEPT ![p] = @ \ {i}]
          /\ UNCHANGED <<loginVars, boxVars, storeVars, job, lossVars, overtaken>>
    BY <1>12, SellDoes
  <2>2. gold' \in [Player -> Nat]
    <3>1. gold \in [Player -> Nat]
      BY DEF HoldType
    <3>2. gold[p] - Deposit \in Nat
      BY <3>1, <2>1
    <3> QED BY <2>1, <3>1, <3>2
  <2>3. bag' \in [Player -> SUBSET Item]
    BY <2>1 DEF HoldType
  <2>4. HoldType'
    BY <2>1, <2>2, <2>3 DEF HoldType, BoxType, loginVars, boxVars
  <2>5. StoreType'
    BY <2>1 DEF StoreType, storeVars, lossVars
  <2> QED BY <2>4, <2>5
<1>13. ASSUME NEW D \in SUBSET DraftSet, IsFiniteSet(D), NEW C \in SUBSET DraftSet, IsFiniteSet(C),
              NEW taken \in Int, Pay(D, C, taken), gold' \in [Player -> Nat],
              UNCHANGED <<bag, loginVars, deleted, rows, job, overtaken>>
       PROVE  TypeInv'
  <2>1. rows' = rows
    BY <1>13
  <2>2. /\ sunk' \in Int /\ lost' \in SUBSET Item
        /\ BoxType(inbox') /\ pending' \in Seq(WriteSet)
    BY <1>13, <2>1, PayDoes
  <2>3. HoldType'
    BY <1>13, <2>2 DEF HoldType, loginVars
  <2>4. StoreType'
    BY <1>13, <2>2 DEF StoreType
  <2> QED BY <2>3, <2>4
<1>14. ASSUME NEW p \in Player, NEW i \in Item, HandleAuctionPlaceBid(p, i) PROVE TypeInv'
  <2> DEFINE a == house[i]
  <2>1. PICK paid \in Nat :
           /\ a \in AuctionSet /\ Charge(a, p, paid) \in 0..gold[p]
           /\ WithBid(a, p, paid) \in AuctionSet
           /\ gold' = [gold EXCEPT ![p] = @ - Charge(a, p, paid)]
           /\ OnlyBids(p, i, a, paid) \/ Buys(p, i, a, paid)
           /\ UNCHANGED <<bag, loginVars, deleted, rows, job, overtaken>>
    BY <1>14, BidDoes
  <2> HIDE DEF a
  <2>2. gold' \in [Player -> Nat]
    <3>1. gold \in [Player -> Nat]
      BY DEF HoldType
    <3>2. gold[p] - Charge(a, p, paid) \in Nat
      BY <3>1, <2>1
    <3> QED BY <2>1, <3>1, <3>2
  <2> DEFINE next == WithBid(a, p, paid)
             D == Overbid(a, p)
             E == D \cup AuctionDrafts(next, i)
             none == {}
  <2>3. next \in AuctionSet
    BY <2>1
  <2>4. Pay(D, none, 0) \/ Pay(E, none, GetAuctionCut(next))
    BY <2>1 DEF OnlyBids, Buys
  <2>5. D \in SUBSET DraftSet /\ IsFiniteSet(D)
    BY <2>1, RefundsType
  <2> HIDE DEF next, D
  <2>6. E \in SUBSET DraftSet /\ IsFiniteSet(E) /\ GetAuctionCut(next) \in Int
    <3>1. AuctionDrafts(next, i) \in SUBSET DraftSet /\ IsFiniteSet(AuctionDrafts(next, i))
      BY <2>3, RefundsType
    <3>2. GetAuctionCut(next) \in Nat
      BY <2>3, AuctionDraftsType
    <3> DEFINE F == AuctionDrafts(next, i)
    <3>3. F \in SUBSET DraftSet /\ IsFiniteSet(F)
      BY <3>1
    <3> HIDE DEF F
    <3>4. IsFiniteSet(D \cup F)
      BY <3>3, <2>5, FS_Union
    <3> QED BY <3>2, <3>3, <3>4, <2>5 DEF F
  <2>7. none \in SUBSET DraftSet /\ IsFiniteSet(none) /\ 0 \in Int
    BY FS_EmptySet
  <2>8. UNCHANGED <<bag, loginVars, deleted, rows, job, overtaken>>
    BY <2>1
  <2> HIDE DEF E, none
  <2>9. CASE Pay(D, none, 0)
    BY <2>9, <2>2, <2>5, <2>7, <2>8, <1>13
  <2>10. CASE Pay(E, none, GetAuctionCut(next))
    BY <2>10, <2>2, <2>6, <2>7, <2>8, <1>13
  <2> QED BY <2>4, <2>9, <2>10
<1>15. ASSUME NEW p \in Player, NEW i \in Item, HandleAuctionRemoveItem(p, i) PROVE TypeInv'
  <2> DEFINE a == house[i]
             D == Refunds(a)
             C == {AuctionMail(a.owner, i, 0)}
             t == a.deposit + CutOf(a)
  <2>1. /\ a \in AuctionSet /\ CutOf(a) \in 0..gold[p]
        /\ gold' = [gold EXCEPT ![p] = @ - CutOf(a)]
        /\ Pay(D, C, t)
        /\ UNCHANGED <<bag, loginVars, deleted, rows, job, overtaken>>
    BY <1>15, RemoveDoes
  <2>2. D \in SUBSET DraftSet /\ IsFiniteSet(D) /\ C \in SUBSET DraftSet /\ IsFiniteSet(C)
    BY <2>1, RefundsType
  <2>3. t \in Int
    BY <2>1 DEF AuctionSet, HoldType
  <2>4. gold' \in [Player -> Nat]
    <3>1. gold \in [Player -> Nat]
      BY DEF HoldType
    <3>2. gold[p] - CutOf(a) \in Nat
      BY <3>1, <2>1
    <3> QED BY <2>1, <3>1, <3>2
  <2> HIDE DEF a, D, C, t
  <2> QED BY <2>1, <2>2, <2>3, <2>4, <1>13
<1>16. ASSUME NEW i \in Item, UpdateAuction(i) PROVE TypeInv'
  <2> DEFINE a == house[i]
             D == {SendAuctionExpiredMail(a, i)}
             E == AuctionDrafts(a, i)
             none == {}
  <2>1. /\ a \in AuctionSet
        /\ IF a.bidder = None THEN Pay(D, none, a.deposit) ELSE Pay(E, none, GetAuctionCut(a))
        /\ UNCHANGED <<holdVars, loginVars, deleted, rows, job, overtaken>>
    BY <1>16, UpdateDoes
  <2>2. /\ D \in SUBSET DraftSet /\ IsFiniteSet(D) /\ E \in SUBSET DraftSet /\ IsFiniteSet(E)
        /\ none \in SUBSET DraftSet /\ IsFiniteSet(none)
    BY <2>1, RefundsType, FS_EmptySet
  <2>3. a.deposit \in Int /\ GetAuctionCut(a) \in Int
    <3>1. GetAuctionCut(a) \in Nat
      BY <2>1, AuctionDraftsType
    <3> QED BY <3>1, <2>1 DEF AuctionSet
  <2>4. gold' \in [Player -> Nat] /\ UNCHANGED <<bag, loginVars, deleted, rows, job, overtaken>>
    BY <2>1 DEF HoldType, holdVars
  <2> HIDE DEF a, D, E, none
  <2>5. CASE Pay(D, none, a.deposit)
    BY <2>2, <2>3, <2>4, <2>5, <1>13
  <2>6. CASE Pay(E, none, GetAuctionCut(a))
    BY <2>2, <2>3, <2>4, <2>6, <1>13
  <2> QED BY <2>1, <2>5, <2>6
<1>17. ASSUME UNCHANGED mailVars PROVE TypeInv'
  <2>1. HoldType'
    BY <1>17 DEF HoldType, BoxType, mailVars, holdVars, loginVars, boxVars
  <2>2. StoreType'
    BY <1>17 DEF StoreType, mailVars, storeVars, lossVars
  <2> QED BY <2>1, <2>2
<1>18. ASSUME NEW p \in Player, TradeStep(p) PROVE TypeInv'
  <2>1. CASE UNCHANGED mailVars
    BY <1>17, <2>1
  <2>2. CASE Trading(p) /\ HasMoney(p) /\ HasMoney(trade[p].with) /\ Exchange(p, trade[p].with)
    <3>1. /\ gold' \in [Player -> Nat] /\ bag' \in [Player -> SUBSET Item]
          /\ UNCHANGED <<loginVars, boxVars, storeVars, job, lossVars, overtaken>>
      BY <2>2, ExchangeDoes
    <3>2. HoldType'
      BY <3>1 DEF HoldType, BoxType, loginVars, boxVars
    <3>3. StoreType'
      BY <3>1 DEF StoreType, storeVars, lossVars
    <3> QED BY <3>2, <3>3
  <2> QED BY <1>18, <2>1, <2>2, TradeDoes
<1>19. ASSUME UNCHANGED vars PROVE TypeInv'
  BY <1>17, <1>19 DEF vars
<1>20. ASSUME NEW p \in Player, Logout(p) PROVE TypeInv'
  BY <1>11, <1>20 DEF Logout
<1> HIDE DEF TypeInv
<1> QED BY Steps, <1>1, <1>2, <1>3, <1>4, <1>5, <1>6, <1>7, <1>8, <1>9, <1>10, <1>11, <1>12, <1>14,
           <1>15, <1>16, <1>18, <1>19, <1>20

\* Every step keeps the auctions sound: nobody bids for his own item.
LEMMA HouseKept ==
  ASSUME TypeInv, HouseInv, TradeInv, [Next]_vars
  PROVE  HouseInv'
<1>1. ASSUME UNCHANGED house PROVE HouseInv'
  BY <1>1 DEF HouseInv
<1>2. ASSUME NEW i \in Item, house' = [house EXCEPT ![i] = NoAuction] PROVE HouseInv'
  BY <1>2 DEF HouseInv
<1>3. ASSUME NEW i \in Item, NEW a \in AuctionSet, house' = [house EXCEPT ![i] = a],
             a.bidder # a.owner, a.bidder = None <=> a.bid = 0, a.buyout = 0 \/ a.bid < a.buyout
      PROVE  HouseInv'
  BY <1>3 DEF HouseInv
<1>4. ASSUME NEW p \in Player, HandleAuctionSellItem(p) PROVE HouseInv'
  <2>1. PICK i \in bag[p], bid \in Nat, buyout \in Nat :
           LET a == [owner |-> p, startbid |-> bid, buyout |-> buyout, bidder |-> None, bid |-> 0,
                     deposit |-> Deposit]
           IN i \in Item /\ a \in AuctionSet /\ house' = [house EXCEPT ![i] = a]
    BY <1>4, SellDoes DEF TypeInv
  <2> DEFINE a == [owner |-> p, startbid |-> bid, buyout |-> buyout, bidder |-> None, bid |-> 0,
                   deposit |-> Deposit]
  <2>2. a.bidder # a.owner /\ a.bidder = None /\ a.bid = 0 /\ (a.buyout = 0 \/ a.bid < a.buyout)
    BY MailAssumption
  <2>3. i \in Item /\ a \in AuctionSet /\ house' = [house EXCEPT ![i] = a]
    BY <2>1
  <2> HIDE DEF a
  <2> QED BY <2>2, <2>3, <1>3
<1>5. ASSUME NEW p \in Player, NEW i \in Item, HandleAuctionPlaceBid(p, i) PROVE HouseInv'
  <2> DEFINE a == house[i]
  <2>1. PICK paid \in Nat :
           /\ a \in AuctionSet /\ p # a.owner /\ paid > a.bid /\ WithBid(a, p, paid) \in AuctionSet
           /\ \/ OnlyBids(p, i, a, paid) /\ (a.buyout = 0 \/ paid < a.buyout)
              \/ Buys(p, i, a, paid)
    BY <1>5, BidDoes DEF TypeInv
  <2>2. CASE Buys(p, i, a, paid)
    BY <2>2, <1>2 DEF Buys
  <2>3. CASE OnlyBids(p, i, a, paid) /\ (a.buyout = 0 \/ paid < a.buyout)
    <3> DEFINE n == WithBid(a, p, paid)
    <3> HIDE DEF a
    <3>1. n.bidder = p /\ n.owner = a.owner /\ n.bid = paid /\ n.buyout = a.buyout
      BY <2>1 DEF WithBid, AuctionSet
    <3>2. a.bid \in Nat /\ p # None
      BY <2>1, MailAssumption DEF AuctionSet
    <3>3. n.bidder # n.owner /\ (n.bidder = None <=> n.bid = 0) /\ (n.buyout = 0 \/ n.bid < n.buyout)
      BY <2>1, <2>3, <3>1, <3>2
    <3>4. n \in AuctionSet /\ house' = [house EXCEPT ![i] = n]
      BY <2>1, <2>3 DEF OnlyBids
    <3> HIDE DEF n
    <3> QED BY <3>3, <3>4, <1>3
  <2> QED BY <2>1, <2>2, <2>3
<1>6. ASSUME NEW p \in Player, NEW i \in Item, HandleAuctionRemoveItem(p, i) PROVE HouseInv'
  BY <1>2, <1>6, RemoveDoes DEF TypeInv
<1>7. ASSUME NEW i \in Item, UpdateAuction(i) PROVE HouseInv'
  BY <1>2, <1>7, UpdateDoes
<1>8. ASSUME NEW p \in Player, Logout(p) PROVE HouseInv'
  BY <1>1, <1>8 DEF Logout
<1>9. ASSUME UNCHANGED vars PROVE HouseInv'
  BY <1>1, <1>9 DEF vars
<1> QED BY Steps, <1>1, <1>4, <1>5, <1>6, <1>7, <1>8, <1>9

\* What is received is added, and only for those who are in.
LEMMA ReceivedAdds ==
  ASSUME NEW boxes, NEW N, NEW p \in Player
  PROVE  /\ \A m : m \in Received(boxes, N)[p] => m \in boxes[p] \/ (m \in N /\ m.to = p /\ Online(p))
         /\ boxes[p] \subseteq Received(boxes, N)[p]
BY DEF Received

\* Every step keeps the mailboxes to those who are in.
LEMMA BoxKept ==
  ASSUME TypeInv, HouseInv, TradeInv, BoxInv, [Next]_vars
  PROVE  BoxInv'
<1>0. BoxType(inbox) /\ BoxType(answer) /\ deleted \in [Player -> SUBSET Nat]
      /\ login \in [Player -> {"out", "read", "in"}]
  BY DEF TypeInv, HoldType
<1> DEFINE Kept(q) == /\ login'[q] # "in" => inbox'[q] = {}
                      /\ login'[q] # "read" => answer'[q] = {}
                      /\ deleted'[q] \subseteq {m.id : m \in inbox'[q]}
<1>1. (\A q \in Player : Kept(q)) => BoxInv'
  BY DEF BoxInv, IdsOf
<1>2. \A q \in Player : /\ login[q] # "in" => inbox[q] = {}
                        /\ login[q] # "read" => answer[q] = {}
                        /\ \A d \in deleted[q] : \E m \in inbox[q] : m.id = d
  BY DEF BoxInv, IdsOf
<1>3. ASSUME UNCHANGED <<loginVars, boxVars>> PROVE BoxInv'
  BY <1>3 DEF BoxInv, IdsOf, loginVars, boxVars
<1>4. ASSUME UNCHANGED <<login, answer, deleted>>, NEW N, inbox' = Received(inbox, N) PROVE BoxInv'
  <2>1. ASSUME NEW q \in Player PROVE Kept(q)
    <3>1. \A m : m \in inbox'[q] => m \in inbox[q] \/ Online(q)
      BY <1>4, ReceivedAdds
    <3>2. inbox[q] \subseteq inbox'[q]
      BY <1>4, ReceivedAdds
    <3> QED BY <1>2, <1>4, <3>1, <3>2 DEF Online
  <2> QED BY <1>1, <2>1
<1>5. ASSUME NEW p \in Player, HandleSendMail(p) \/ SendMailAnswer(p) PROVE BoxInv'
  <2>1. /\ \/ \E r \in RequestSet : HandleSendMailCallback(r)
           \/ UNCHANGED <<gold, bag, sunk, inbox, pending>>
        /\ UNCHANGED <<login, answer, deleted, rows, job, lost, overtaken>>
    BY <1>5, SendDoes DEF TypeInv
  <2>2. CASE UNCHANGED <<gold, bag, sunk, inbox, pending>>
    BY <2>1, <2>2 DEF BoxInv, IdsOf
  <2>3. CASE \E r \in RequestSet : HandleSendMailCallback(r)
    <3>1. PICK r \in RequestSet : HandleSendMailCallback(r)
      BY <2>3
    <3>2. inbox' = Received(inbox, Numbered({Written(r)}))
      BY <2>1, <3>1, CallbackDoes DEF TypeInv
    <3> QED BY <2>1, <3>2, <1>4
  <2> QED BY <2>1, <2>2, <2>3
<1>6. ASSUME NEW p \in Player, NEW m \in inbox[p], HandleMailTakeItem(p, m) PROVE BoxInv'
  <2>1. /\ UNCHANGED <<login, answer>> /\ deleted' = [deleted EXCEPT ![p] = {}] /\ Online(p)
    BY <1>6 DEF HandleMailTakeItem, loginVars, Readable
  <2> DEFINE boxes == [inbox EXCEPT ![p] = SavedBox(p, Changed(p, m, ItemTaken(m)))]
  <2>2. PICK N : inbox' = Received(boxes, N)
    BY <1>6, TakeItemDoes DEF TypeInv
  <2>3. ASSUME NEW q \in Player PROVE Kept(q)
    <3>1. CASE q = p
      BY <2>1, <3>1, <1>0, <1>2 DEF Online
    <3>2. CASE q # p
      <4>1. boxes[q] = inbox[q] /\ deleted'[q] = deleted[q]
        BY <3>2, <2>1, <1>0 DEF BoxType
      <4>2. (\A x : x \in inbox'[q] => x \in boxes[q] \/ Online(q)) /\ boxes[q] \subseteq inbox'[q]
        <5> HIDE DEF boxes
        <5>1. \A x : x \in inbox'[q] => x \in boxes[q] \/ Online(q)
          BY <2>2, ReceivedAdds
        <5>2. boxes[q] \subseteq inbox'[q]
          BY <2>2, ReceivedAdds
        <5> QED BY <5>1, <5>2
      <4> HIDE DEF boxes
      <4> QED BY <4>1, <4>2, <2>1, <1>2 DEF Online
    <3> QED BY <3>1, <3>2
  <2> QED BY <1>1, <2>3
<1>7. ASSUME NEW p \in Player, NEW m \in inbox[p], HandleMailTakeMoney(p, m) PROVE BoxInv'
  <2>1. /\ UNCHANGED <<login, answer>> /\ deleted' = [deleted EXCEPT ![p] = {}] /\ Online(p)
    BY <1>7 DEF HandleMailTakeMoney, loginVars, Readable
  <2>2. PICK box : inbox' = [inbox EXCEPT ![p] = box]
    BY <1>7 DEF HandleMailTakeMoney
  <2>3. ASSUME NEW q \in Player PROVE Kept(q)
    BY <2>1, <2>2, <1>0, <1>2 DEF Online, BoxType
  <2> QED BY <1>1, <2>3
<1>8. ASSUME NEW p \in Player, NEW m \in inbox[p], HandleMailDelete(p, m) PROVE BoxInv'
  <2>1. /\ deleted' = [deleted EXCEPT ![p] = @ \cup {m.id}] /\ UNCHANGED <<login, answer, inbox>>
    BY <1>8 DEF HandleMailDelete, loginVars
  <2>2. ASSUME NEW q \in Player PROVE Kept(q)
    BY <2>1, <1>0, <1>2
  <2> QED BY <1>1, <2>2
<1>9. ASSUME NEW p \in Player, NEW m \in inbox[p], HandleMailReturnToSender(p, m) PROVE BoxInv'
  <2>1. UNCHANGED <<login, answer, deleted>> /\ Online(p) /\ m.id \notin deleted[p]
    BY <1>9 DEF HandleMailReturnToSender, loginVars, Readable
  <2> DEFINE boxes == [inbox EXCEPT ![p] = @ \ {m}]
  <2>2. PICK N : inbox' = Received(boxes, N)
    BY <1>9, ReturnDoes DEF TypeInv
  <2>3. ASSUME NEW q \in Player PROVE Kept(q)
    <3>1. boxes[q] \subseteq inbox[q] /\ \A x \in inbox[q] : x.id \in deleted[q] => x \in boxes[q]
      BY <2>1, <1>0 DEF BoxType
    <3>2. \A x : x \in inbox'[q] => x \in boxes[q] \/ Online(q)
      <4> HIDE DEF boxes
      <4> QED BY <2>2, ReceivedAdds
    <3>3. boxes[q] \subseteq inbox'[q]
      <4> HIDE DEF boxes
      <4> QED BY <2>2, ReceivedAdds
    <3> HIDE DEF boxes
    <3> QED BY <3>1, <3>2, <3>3, <2>1, <1>2 DEF Online
  <2> QED BY <1>1, <2>3
<1>10. ASSUME NEW p \in Player, ReadMails(p) PROVE BoxInv'
  <2>1. PICK mine : /\ login' = [login EXCEPT ![p] = "read"] /\ answer' = [answer EXCEPT ![p] = mine]
                    /\ UNCHANGED <<inbox, deleted>> /\ login[p] = "out"
    BY <1>10 DEF ReadMails, boxVars
  <2>2. ASSUME NEW q \in Player PROVE Kept(q)
    BY <2>1, <1>0, <1>2 DEF BoxType
  <2> QED BY <1>1, <2>2
<1>11. ASSUME NEW p \in Player, FinishLogin(p) PROVE BoxInv'
  <2>1. /\ login' = [login EXCEPT ![p] = "in"] /\ inbox' = [inbox EXCEPT ![p] = answer[p]]
        /\ answer' = [answer EXCEPT ![p] = {}] /\ login[p] = "read" /\ deleted' = deleted
    BY <1>11 DEF FinishLogin
  <2>2. ASSUME NEW q \in Player PROVE Kept(q)
    BY <2>1, <1>0, <1>2 DEF BoxType
  <2> QED BY <1>1, <2>2
<1>12. ASSUME NEW p \in Player, SaveMails(p) \/ LogoutMail(p) PROVE BoxInv'
  <2>1. PICK next : /\ inbox' = [inbox EXCEPT ![p] = next] /\ deleted' = [deleted EXCEPT ![p] = {}]
                    /\ answer' = answer /\ Online(p)
                    /\ \/ login' = login
                       \/ login' = [login EXCEPT ![p] = "out"] /\ next = {}
    BY <1>12 DEF SaveMails, LogoutMail, SaveMailbox, loginVars
  <2>2. ASSUME NEW q \in Player PROVE Kept(q)
    BY <2>1, <1>0, <1>2 DEF Online, BoxType
  <2> QED BY <1>1, <2>2
<1>13. ASSUME NEW D, NEW C, NEW taken, Pay(D, C, taken), UNCHANGED <<loginVars, deleted>> PROVE BoxInv'
  <2>1. PICK N : inbox' = Received(inbox, N)
    BY <1>13 DEF Pay, Post
  <2> QED BY <2>1, <1>4, <1>13 DEF loginVars
<1>14. ASSUME NEW p \in Player, NEW i \in Item, HandleAuctionPlaceBid(p, i) PROVE BoxInv'
  <2>1. UNCHANGED <<loginVars, deleted>> /\ \E D, C, taken : Pay(D, C, taken)
    BY <1>14, BidDoes DEF OnlyBids, Buys, TypeInv
  <2> QED BY <2>1, <1>13
<1>15. ASSUME NEW p \in Player, NEW i \in Item, HandleAuctionRemoveItem(p, i) PROVE BoxInv'
  <2>1. UNCHANGED <<loginVars, deleted>> /\ \E D, C, taken : Pay(D, C, taken)
    <3> DEFINE D == Refunds(house[i])
               C == {AuctionMail(house[i].owner, i, 0)}
               t == house[i].deposit + CutOf(house[i])
    <3>1. Pay(D, C, t) /\ UNCHANGED <<loginVars, deleted>>
      BY <1>15, RemoveDoes DEF TypeInv
    <3> HIDE DEF D, C, t
    <3> QED BY <3>1
  <2> QED BY <2>1, <1>13
<1>16. ASSUME NEW i \in Item, UpdateAuction(i) PROVE BoxInv'
  <2>1. UNCHANGED <<loginVars, deleted>> /\ \E D, C, taken : Pay(D, C, taken)
    BY <1>16, UpdateDoes
  <2> QED BY <2>1, <1>13
<1>17. ASSUME NEW p \in Player, HandleAuctionSellItem(p) PROVE BoxInv'
  BY <1>17, <1>3 DEF HandleAuctionSellItem
<1>18. ASSUME NEW p \in Player, TradeStep(p) PROVE BoxInv'
  <2>1. UNCHANGED <<loginVars, boxVars>>
    BY <1>18, TradeDoes DEF mailVars, Exchange
  <2> QED BY <2>1, <1>3
<1>19. ASSUME UNCHANGED vars PROVE BoxInv'
  BY <1>19, <1>3 DEF vars, mailVars
<1>20. ASSUME NEW p \in Player, Logout(p) PROVE BoxInv'
  BY <1>12, <1>20 DEF Logout
<1>21. ASSUME Execute \/ ReturnOrDeleteOldMails PROVE BoxInv'
  BY <1>21, <1>3 DEF Execute, ReturnOrDeleteOldMails
<1>22. ASSUME OldMailsCallback \/ SingleMailCallback PROVE BoxInv'
  BY <1>22, <1>3 DEF OldMailsCallback, SingleMailCallback
<1> HIDE DEF Kept
<1> QED BY Steps, <1>5, <1>6, <1>7, <1>8, <1>9, <1>10, <1>11, <1>12, <1>14, <1>15, <1>16, <1>17,
           <1>18, <1>19, <1>20, <1>21, <1>22

\* The trades after a step: as they were, with one that is new, with one that is gone,
\* or with other offers and acceptances.
LEMMA TradeKept ==
  ASSUME TypeInv, HouseInv, TradeInv, AcceptedIsCurrent, [Next]_vars
  PROVE  TradeInv' /\ AcceptedIsCurrent'
<1>0. /\ trade \in [Player -> TradeSet] /\ login \in [Player -> {"out", "read", "in"}]
      /\ gold \in [Player -> Nat] /\ bag \in [Player -> SUBSET Item]
  BY DEF TypeInv, HoldType, TradeInv
<1> DEFINE Good == TradeInv' /\ AcceptedIsCurrent'
<1>1. ASSUME UNCHANGED <<login, trade>> PROVE Good
  BY <1>1 DEF TradeInv, AcceptedIsCurrent, Trading, Online, Offers, Offer
<1>2. ASSUME trade' = trade, NEW p \in Player, NEW s \in {"out", "read", "in"},
             login' = [login EXCEPT ![p] = s], s # "in" => ~Trading(p)
      PROVE  Good
  BY <1>0, <1>2 DEF TradeInv, AcceptedIsCurrent, Trading, Online, Offers, Offer
<1>3. NoTrade \in TradeSet /\ NoTrade.with = None /\ NoTrade.accepted = <<>>
  <2>1. 0 \in Nat /\ None \in Item \cup {None} /\ None \in Player \cup {None}
        /\ <<>> \in {<<>>} \cup (OfferSet \X OfferSet)
    OBVIOUS
  <2> QED BY <2>1 DEF NoTrade, TradeSet
<1>4. None \notin Player
  BY MailAssumption
<1>5. ASSUME NEW p \in Player, NEW q \in Player, p # q, trade' = Without(p, q),
             Trading(p), trade[p].with = q, \A r \in Player : r # p => login'[r] = login[r]
      PROVE  Good
  <2>1. trade' \in [Player -> TradeSet]
    BY <1>0, <1>3, <1>5 DEF Without
  <2>2. ~Trading(p)' /\ ~Trading(q)' /\ trade[q].with = p
    BY <1>0, <1>3, <1>5 DEF Without, Trading, TradeInv
  <2>3. ASSUME NEW r \in Player, Trading(r)'
        PROVE  /\ trade'[r].with \in Player /\ trade'[r].with # r /\ Online(r)'
               /\ trade'[trade'[r].with].with = r
               /\ trade'[r].accepted \in {<<>>, Offers(r)'}
    <3>1. r # p /\ r # q /\ trade'[r] = trade[r] /\ Trading(r)
      BY <2>2, <2>3, <1>0, <1>5 DEF Without, Trading
    <3> DEFINE s == trade[r].with
    <3>2. s \in Player /\ s # r /\ Online(r) /\ trade[s].with = r
          /\ trade[r].accepted \in {<<>>, Offers(r)}
      BY <3>1 DEF TradeInv, AcceptedIsCurrent
    <3>3. s # p /\ s # q
      BY <3>1, <3>2, <2>2, <1>5
    <3>4. trade'[s] = trade[s]
      BY <3>2, <3>3, <1>0, <1>5 DEF Without
    <3>5. Online(r)'
      BY <3>1, <3>2, <1>5 DEF Online
    <3>6. Offers(r)' = Offers(r)
      BY <3>1, <3>4 DEF Offers, Offer
    <3> QED BY <3>1, <3>2, <3>4, <3>5, <3>6
  <2> QED BY <2>1, <2>3 DEF TradeInv, AcceptedIsCurrent
<1>6. ASSUME NEW p \in Player, HandleInitiateTrade(p) PROVE Good
  <2>1. PICK q \in Trader \ {p} :
          /\ Online(q) /\ ~Trading(q) /\ Online(p) /\ ~Trading(p) /\ login' = login
          /\ trade' = [trade EXCEPT ![p] = [NoTrade EXCEPT !.with = q], ![q] = [NoTrade EXCEPT !.with = p]]
    BY <1>6 DEF HandleInitiateTrade, mailVars, loginVars
  <2>2. q \in Player /\ q # p
    BY <2>1, TradeAssumption
  <2> DEFINE tp == [NoTrade EXCEPT !.with = q]
             tq == [NoTrade EXCEPT !.with = p]
  <2>3. /\ tp \in TradeSet /\ tp.with = q /\ tp.accepted = <<>>
        /\ tq \in TradeSet /\ tq.with = p /\ tq.accepted = <<>>
    BY <2>2, <1>3 DEF NoTrade, TradeSet
  <2> HIDE DEF tp, tq
  <2>4. trade' \in [Player -> TradeSet] /\ trade'[p] = tp /\ trade'[q] = tq
        /\ \A r \in Player : r # p /\ r # q => trade'[r] = trade[r]
    BY <2>1, <2>2, <2>3, <1>0 DEF tp, tq
  <2>5. ASSUME NEW r \in Player, Trading(r)'
        PROVE  /\ trade'[r].with \in Player /\ trade'[r].with # r /\ Online(r)'
               /\ trade'[trade'[r].with].with = r
               /\ trade'[r].accepted \in {<<>>, Offers(r)'}
    <3>1. CASE r = p \/ r = q
      BY <3>1, <2>1, <2>2, <2>3, <2>4 DEF Online
    <3>2. CASE r # p /\ r # q
      <4>1. trade'[r] = trade[r] /\ Trading(r)
        BY <3>2, <2>4, <2>5 DEF Trading
      <4> DEFINE s == trade[r].with
      <4>2. s \in Player /\ s # r /\ Online(r) /\ trade[s].with = r
            /\ trade[r].accepted \in {<<>>, Offers(r)}
        BY <4>1 DEF TradeInv, AcceptedIsCurrent
      <4>3. s # p /\ s # q
        BY <4>2, <2>1, <1>4 DEF Trading
      <4>4. trade'[s] = trade[s]
        BY <4>2, <4>3, <2>4
      <4>5. Offers(r)' = Offers(r)
        BY <4>1, <4>4 DEF Offers, Offer
      <4>6. Online(r)'
        BY <4>2, <2>1 DEF Online
      <4> QED BY <4>1, <4>2, <4>4, <4>5, <4>6
    <3> QED BY <3>1, <3>2
  <2> QED BY <2>4, <2>5 DEF TradeInv, AcceptedIsCurrent
<1>7. ASSUME NEW p \in Player, Trading(p), login' = login, NEW x \in TradeSet, NEW y \in TradeSet,
             x.with = trade[p].with, y.with = p,
             trade' = [trade EXCEPT ![p] = x, ![trade[p].with] = y],
             x.accepted \in {<<>>, <<<<x.money, x.item>>, <<y.money, y.item>>>>},
             y.accepted \in {<<>>, <<<<y.money, y.item>>, <<x.money, x.item>>>>}
      PROVE  Good
  <2> DEFINE q == trade[p].with
  <2>1. q \in Player /\ q # p /\ trade[q].with = p /\ Online(p)
    BY <1>7 DEF TradeInv
  <2>2. Online(q)
    BY <2>1, <1>4 DEF TradeInv, Trading
  <2>3. q = x.with /\ trade' = [trade EXCEPT ![p] = x, ![q] = y]
    BY <1>7
  <2>4. trade[p].with = q
    OBVIOUS
  <2> HIDE DEF q
  <2>5. trade' \in [Player -> TradeSet] /\ trade'[p] = x /\ trade'[q] = y
        /\ \A r \in Player : r # p /\ r # q => trade'[r] = trade[r]
    BY <2>1, <2>3, <1>0
  <2>6. ASSUME NEW r \in Player, Trading(r)'
        PROVE  /\ trade'[r].with \in Player /\ trade'[r].with # r /\ Online(r)'
               /\ trade'[trade'[r].with].with = r
               /\ trade'[r].accepted \in {<<>>, Offers(r)'}
    <3>1. CASE r = p
      BY <3>1, <2>1, <2>3, <2>5, <1>7 DEF Online, Offers, Offer
    <3>2. CASE r = q
      BY <3>2, <2>1, <2>2, <2>3, <2>5, <1>7 DEF Online, Offers, Offer
    <3>3. CASE r # p /\ r # q
      <4>1. trade'[r] = trade[r] /\ Trading(r)
        BY <3>3, <2>5, <2>6 DEF Trading
      <4> DEFINE s == trade[r].with
      <4>2. s \in Player /\ s # r /\ Online(r) /\ trade[s].with = r
            /\ trade[r].accepted \in {<<>>, Offers(r)}
        BY <4>1 DEF TradeInv, AcceptedIsCurrent
      <4>3. s # p /\ s # q
        BY <4>2, <3>3, <2>1, <2>4
      <4>4. trade'[s] = trade[s]
        BY <4>2, <4>3, <2>5
      <4>5. Offers(r)' = Offers(r)
        BY <4>1, <4>4 DEF Offers, Offer
      <4>6. Online(r)'
        BY <4>2, <1>7 DEF Online
      <4> QED BY <4>1, <4>2, <4>4, <4>5, <4>6
    <3> QED BY <3>1, <3>2, <3>3
  <2> QED BY <2>5, <2>6 DEF TradeInv, AcceptedIsCurrent
<1>8. ASSUME NEW p \in Player, Trading(p)
      PROVE  /\ trade[p].with \in Player /\ trade[p].with # p
             /\ trade[trade[p].with].with = p
             /\ trade[p] \in TradeSet /\ trade[trade[p].with] \in TradeSet
             /\ trade[p].accepted \in {<<>>, Offers(p)}
             /\ trade[trade[p].with].accepted \in {<<>>, <<Offer(trade[p].with), Offer(p)>>}
  <2>1. /\ trade[p].with \in Player /\ trade[p].with # p
        /\ trade[trade[p].with].with = p
        /\ trade[p].accepted \in {<<>>, Offers(p)}
    BY <1>8 DEF TradeInv, AcceptedIsCurrent
  <2>2. Trading(trade[p].with)
    BY <2>1, <1>4 DEF Trading
  <2>3. trade[trade[p].with].accepted \in {<<>>, Offers(trade[p].with)}
    BY <2>1, <2>2 DEF AcceptedIsCurrent
  <2> QED BY <2>1, <2>3, <1>0 DEF Offers
<1>9. ASSUME NEW p \in Player, Trading(p), login' = login, NEW money \in Nat, NEW item \in Item \cup {None},
             ChangeOffer(p, money, item)
      PROVE  Good
  <2> DEFINE t == trade[p]
             u == trade[t.with]
             same == Offer(p) = <<money, item>>
             x == [t EXCEPT !.money = money, !.item = item, !.accepted = IF same THEN t.accepted ELSE <<>>]
             y == [u EXCEPT !.accepted = <<>>]
  <2>1. t.with \in Player /\ t.with # p /\ u.with = p /\ t \in TradeSet /\ u \in TradeSet
        /\ t.accepted \in {<<>>, Offers(p)}
    BY <1>8, <1>9
  <2>2. trade' = [trade EXCEPT ![p] = x, ![t.with] = y]
    BY <1>9, <2>1, <1>0 DEF ChangeOffer
  <2>3. Offers(p) = <<<<t.money, t.item>>, <<u.money, u.item>>>> /\ (same <=> t.money = money /\ t.item = item)
    BY DEF Offers, Offer
  <2>4. t.accepted \in {<<>>} \cup (OfferSet \X OfferSet)
    BY <2>1 DEF TradeSet
  <2> HIDE DEF t, u, same
  <2>5. x \in TradeSet /\ x.with = t.with /\ x.money = money /\ x.item = item
        /\ x.accepted = (IF same THEN t.accepted ELSE <<>>)
    <3>1. (IF same THEN t.accepted ELSE <<>>) \in {<<>>} \cup (OfferSet \X OfferSet)
      BY <2>4
    <3> QED BY <3>1, <2>1, <1>9 DEF TradeSet
  <2>6. y \in TradeSet /\ y.with = p /\ y.accepted = <<>> /\ y.money = u.money /\ y.item = u.item
    BY <2>1 DEF TradeSet
  <2>7. x.accepted \in {<<>>, <<<<x.money, x.item>>, <<y.money, y.item>>>>}
    BY <2>1, <2>3, <2>5, <2>6
  <2> HIDE DEF x, y
  <2> QED BY <2>2, <2>5, <2>6, <2>7, <1>7, <1>9 DEF t
<1>10. ASSUME NEW p \in Player, HandleSetTradeGold(p) \/ HandleSetTradeItem(p) \/ HandleClearTradeItem(p) PROVE Good
  <2>1. Trading(p) /\ login' = login /\ trade[p].money \in Nat /\ trade[p].item \in Item \cup {None}
    BY <1>0, <1>10 DEF HandleSetTradeGold, HandleSetTradeItem, HandleClearTradeItem, mailVars, loginVars, TradeSet
  <2>2. \E money \in Nat, item \in Item \cup {None} : ChangeOffer(p, money, item)
    <3>1. CASE HandleSetTradeGold(p)
      BY <3>1, <2>1, TradeAssumption DEF HandleSetTradeGold
    <3>2. CASE HandleSetTradeItem(p)
      BY <3>2, <2>1, <1>0 DEF HandleSetTradeItem
    <3>3. CASE HandleClearTradeItem(p)
      BY <3>3, <2>1 DEF HandleClearTradeItem
    <3> QED BY <1>10, <3>1, <3>2, <3>3
  <2> QED BY <2>1, <2>2, <1>9
<1>11. ASSUME NEW p \in Player, Trading(p), NEW mine \in {<<>>, Offers(p)},
              NEW his \in {<<>>, trade[trade[p].with].accepted}, login' = login,
              trade' = [trade EXCEPT ![p].accepted = mine, ![trade[p].with].accepted = his]
       PROVE  Good
  <2> DEFINE t == trade[p]
             u == trade[t.with]
             x == [t EXCEPT !.accepted = mine]
             y == [u EXCEPT !.accepted = his]
  <2>1. t.with \in Player /\ t.with # p /\ u.with = p /\ t \in TradeSet /\ u \in TradeSet
        /\ u.accepted \in {<<>>, <<Offer(t.with), Offer(p)>>}
    BY <1>8, <1>11
  <2>2. trade' = [trade EXCEPT ![p] = x, ![t.with] = y]
    BY <1>11, <2>1, <1>0
  <2>3. Offers(p) = <<<<t.money, t.item>>, <<u.money, u.item>>>>
        /\ Offer(p) = <<t.money, t.item>> /\ Offer(t.with) = <<u.money, u.item>>
    BY DEF Offers, Offer
  <2>4. his \in {<<>>, <<<<u.money, u.item>>, <<t.money, t.item>>>>}
        /\ mine \in {<<>>, <<<<t.money, t.item>>, <<u.money, u.item>>>>}
    BY <1>11, <2>1, <2>3
  <2> HIDE DEF t, u
  <2>5. his \in {<<>>} \cup (OfferSet \X OfferSet) /\ mine \in {<<>>} \cup (OfferSet \X OfferSet)
    <3>1. <<t.money, t.item>> \in OfferSet /\ <<u.money, u.item>> \in OfferSet
      BY <2>1 DEF TradeSet, OfferSet
    <3> QED BY <3>1, <2>4
  <2>6. x \in TradeSet /\ x.with = t.with /\ x.money = t.money /\ x.item = t.item /\ x.accepted = mine
    BY <2>1, <2>5 DEF TradeSet
  <2>7. y \in TradeSet /\ y.with = p /\ y.accepted = his /\ y.money = u.money /\ y.item = u.item
    BY <2>1, <2>5 DEF TradeSet
  <2>8. x.accepted \in {<<>>, <<<<x.money, x.item>>, <<y.money, y.item>>>>}
        /\ y.accepted \in {<<>>, <<<<y.money, y.item>>, <<x.money, x.item>>>>}
    BY <2>4, <2>6, <2>7
  <2> HIDE DEF x, y
  <2> QED BY <2>2, <2>6, <2>7, <2>8, <1>7, <1>11 DEF t
<1>12. ASSUME NEW p \in Player, HandleAcceptTrade(p) PROVE Good
  <2> DEFINE other == trade[p].with
  <2>1. Trading(p) /\ other \in Player /\ other # p
    BY <1>12, <1>8 DEF HandleAcceptTrade
  <2>2. CASE Exchange(p, other)
    <3>1. trade' = Without(p, other) /\ login' = login
      BY <2>2 DEF Exchange, loginVars
    <3> QED BY <3>1, <2>1, <1>5
  <2>3. CASE \E mine \in {<<>>, Offers(p)}, his \in {<<>>, trade[other].accepted} : Accept(p, mine, his)
    <3>1. PICK mine \in {<<>>, Offers(p)}, his \in {<<>>, trade[other].accepted} : Accept(p, mine, his)
      BY <2>3
    <3>2. login' = login /\ trade' = [trade EXCEPT ![p].accepted = mine, ![other].accepted = his]
      BY <3>1 DEF Accept, mailVars, loginVars
    <3> QED BY <3>2, <2>1, <1>11
  <2> QED BY <1>12, <2>2, <2>3 DEF HandleAcceptTrade
<1>13. ASSUME NEW p \in Player, HandleUnacceptTrade(p) PROVE Good
  <2>1. Trading(p) /\ login' = login /\ trade' = [trade EXCEPT ![p].accepted = <<>>]
    BY <1>13 DEF HandleUnacceptTrade, mailVars, loginVars
  <2> DEFINE his == trade[trade[p].with].accepted
             none == <<>>
  <2>2. trade' = [trade EXCEPT ![p].accepted = none, ![trade[p].with].accepted = his]
    <3>1. trade[p].with \in Player /\ trade[p].with # p /\ trade[trade[p].with] \in TradeSet
      BY <2>1, <1>8
    <3> DEFINE q == trade[p].with
               r == [trade EXCEPT ![p].accepted = none]
    <3>2. r[q] = trade[q] /\ q \in Player /\ trade[q] \in TradeSet /\ r \in [Player -> {r[z] : z \in Player}]
      BY <3>1, <1>0
    <3>3. [r[q] EXCEPT !.accepted = his] = r[q]
      BY <3>2 DEF TradeSet
    <3>4. [r EXCEPT ![q] = r[q]] = r
      <4> HIDE DEF r, q
      <4> QED BY <3>2
    <3>5. [r EXCEPT ![q].accepted = his] = r
      BY <3>3, <3>4
    <3> QED BY <3>5, <2>1
  <2>3. his \in {<<>>, trade[trade[p].with].accepted} /\ none \in {<<>>, Offers(p)}
    OBVIOUS
  <2> HIDE DEF his, none
  <2> QED BY <2>1, <2>2, <2>3, <1>11
<1>14. ASSUME NEW p \in Player, HandleCancelTrade(p) PROVE Good
  <2>1. Trading(p) /\ trade' = Without(p, trade[p].with) /\ login' = login
    BY <1>14 DEF HandleCancelTrade, Cancelled, mailVars, loginVars
  <2> QED BY <2>1, <1>5, <1>8
<1>15. ASSUME NEW p \in Player, TradeStep(p) PROVE Good
  BY <1>15, <1>6, <1>10, <1>12, <1>13, <1>14 DEF TradeStep
<1>16. ASSUME NEW p \in Player, Logout(p) PROVE Good
  <2>1. login' = [login EXCEPT ![p] = "out"] /\ trade' = Cancelled(p)
    BY <1>16 DEF Logout, LogoutMail
  <2>2. CASE Trading(p)
    <3>1. trade' = Without(p, trade[p].with) /\ \A r \in Player : r # p => login'[r] = login[r]
      BY <2>1, <2>2, <1>0 DEF Cancelled
    <3> QED BY <3>1, <2>2, <1>5, <1>8
  <2>3. CASE ~Trading(p)
    <3>1. trade' = trade
      BY <2>1, <2>3 DEF Cancelled
    <3> QED BY <3>1, <2>1, <2>3, <1>2
  <2> QED BY <2>2, <2>3
<1>17. ASSUME NEW p \in Player, ReadMails(p), trade' = trade PROVE Good
  <2>1. login' = [login EXCEPT ![p] = "read"] /\ login[p] = "out"
    BY <1>17 DEF ReadMails
  <2>2. ~Trading(p)
    BY <2>1 DEF TradeInv, Online
  <2> QED BY <2>1, <2>2, <1>2, <1>17
<1>18. ASSUME NEW p \in Player, FinishLogin(p), trade' = trade PROVE Good
  <2>1. login' = [login EXCEPT ![p] = "in"]
    BY <1>18 DEF FinishLogin
  <2> QED BY <2>1, <1>2, <1>18
<1>19. ASSUME NEW p \in Player, HandleSendMail(p) \/ SendMailAnswer(p) \/ SaveMails(p) \/ HandleAuctionSellItem(p),
              trade' = trade PROVE Good
  BY <1>1, <1>19 DEF HandleSendMail, SendMailAnswer, SaveMails, HandleAuctionSellItem, loginVars
<1>20. ASSUME NEW p \in Player, NEW m \in inbox[p],
              HandleMailTakeItem(p, m) \/ HandleMailTakeMoney(p, m) \/ HandleMailDelete(p, m)
                \/ HandleMailReturnToSender(p, m),
              trade' = trade PROVE Good
  BY <1>1, <1>20 DEF HandleMailTakeItem, HandleMailTakeMoney, HandleMailDelete, HandleMailReturnToSender, loginVars
<1>21. ASSUME NEW p \in Player, NEW i \in Item, HandleAuctionPlaceBid(p, i) \/ HandleAuctionRemoveItem(p, i),
              trade' = trade PROVE Good
  BY <1>1, <1>21 DEF HandleAuctionPlaceBid, HandleAuctionRemoveItem, loginVars
<1>22. ASSUME NEW i \in Item, UpdateAuction(i), trade' = trade PROVE Good
  BY <1>1, <1>22 DEF UpdateAuction, loginVars
<1>23. ASSUME Execute \/ ReturnOrDeleteOldMails \/ OldMailsCallback \/ SingleMailCallback, trade' = trade PROVE Good
  BY <1>1, <1>23 DEF Execute, ReturnOrDeleteOldMails, OldMailsCallback, SingleMailCallback, loginVars
<1>24. ASSUME UNCHANGED vars PROVE Good
  BY <1>1, <1>24 DEF vars, mailVars, loginVars
<1>25. Good
  <2> HIDE DEF Good
  <2> QED BY Steps, <1>15, <1>16, <1>17, <1>18, <1>19, <1>20, <1>21, <1>22, <1>23, <1>24
<1> QED BY <1>25

----------------------------------------------------------------------------
(* Mails turned over: what goes from and comes to the mails there will be. *)

\* How each operation turns the mails over, as long as nothing was overtaken.
LEMMA AddTurns ==
  ASSUME TypeInv, StoreInv, NEW E \in SUBSET DraftSet, IsFiniteSet(E), MayPost(E),
         Settled' = Settled \cup Numbered(E), inbox' = Received(inbox, Numbered(E)), answer' = answer
  PROVE  Turns({}, Numbered(E)) /\ Follows(Numbered(E))
<1> DEFINE N == Numbered(E)
<1>1. /\ N \in SUBSET MailSet /\ IsFiniteSet(N)
      /\ \A m \in N : m.id \in FreeIds
      /\ \A m, n \in N : m.id = n.id => m = n
  BY NumberedType
<1>2. Settled' = Settled \cup N /\ inbox' = Received(inbox, N)
  OBVIOUS
<1> HIDE DEF N
<1>3. \A m \in N : \A n \in Settled : m.id # n.id
  BY <1>1, FreshId DEF TypeInv
<1>4. Turns({}, N)
  BY <1>1, <1>2, <1>3 DEF Turns
<1>5. Follows(N)
  <2> SUFFICES ASSUME NEW p \in Player, NEW m \in inbox'[p] \cup answer'[p]
               PROVE  m \in Settled' /\ (m \in inbox[p] \cup answer[p] \/ (m \in N /\ m.to = p))
    BY DEF Follows
  <2>1. m \in inbox[p] \cup answer[p] \/ (m \in N /\ m.to = p)
    BY <1>2, ReceivedAdds
  <2>2. m \in inbox[p] \cup answer[p] => m \in Settled
    BY DEF StoreInv
  <2> QED BY <2>1, <2>2, <1>2
<1> QED BY <1>4, <1>5 DEF N

\* What an auction pays adds mails with ids of their own.
LEMMA PayTurns ==
  ASSUME TypeInv, StoreInv, NEW D \in SUBSET DraftSet, IsFiniteSet(D),
         NEW C \in SUBSET DraftSet, IsFiniteSet(C), NEW taken \in Int,
         Pay(D, C, taken), rows' = rows, answer' = answer
  PROVE  /\ Turns({}, Numbered(Paid(D, C))) /\ Follows(Numbered(Paid(D, C)))
         /\ Paid(D, C) \in SUBSET DraftSet /\ IsFiniteSet(Paid(D, C)) /\ MayPost(Paid(D, C))
<1> DEFINE E == Paid(D, C)
<1>1. HoldType /\ StoreType
  BY DEF TypeInv
<1>2. /\ E \in SUBSET DraftSet /\ IsFiniteSet(E) /\ MayPost(E)
      /\ inbox' = Received(inbox, Numbered(E))
      /\ Settled' = Settled \cup Numbered(E)
  BY <1>1, PayDoes
<1> HIDE DEF E
<1>3. Turns({}, Numbered(E)) /\ Follows(Numbered(E))
  BY <1>2, AddTurns
<1> QED BY <1>2, <1>3 DEF E

\* A player's mail adds one mail with an id of its own.
LEMMA CallbackTurns ==
  ASSUME TypeInv, StoreInv, NEW r \in RequestSet, HandleSendMailCallback(r), rows' = rows, answer' = answer
  PROVE  Turns({}, Numbered({Written(r)})) /\ Follows(Numbered({Written(r)}))
         /\ Written(r) \in DraftSet /\ MayPost({Written(r)})
<1> DEFINE E == {Written(r)}
<1>1. HoldType /\ StoreType
  BY DEF TypeInv
<1>2. /\ Written(r) \in DraftSet /\ MayPost(E)
      /\ inbox' = Received(inbox, Numbered(E))
      /\ Settled' = Settled \cup Numbered(E)
  BY <1>1, CallbackDoes
<1>3. E \in SUBSET DraftSet /\ IsFiniteSet(E)
  BY <1>2, FS_Singleton
<1> HIDE DEF E
<1>4. Turns({}, Numbered(E)) /\ Follows(Numbered(E))
  BY <1>2, <1>3, AddTurns
<1> QED BY <1>2, <1>4 DEF E

\* Mails with new ids; one mail of a mailbox is changed and the mailbox saved.
Fresh(N) ==
  /\ N \in SUBSET MailSet /\ IsFiniteSet(N) /\ \A x \in N : x.id \in FreeIds
  /\ \A x, y \in N : x.id = y.id => x = y

\* What a handler does that changes mail m of p's mailbox to e, sends N and saves the mailbox.
Saves(p, m, e, N) ==
  /\ e \in MailSet /\ e = Overwritten(m, e)
  /\ Settled' = {x \in Apply(Settled \cup N, Write(p, "update", e)) :
                   x.id \notin IdsOf(Marked(p, Changed(p, m, e)))}
  /\ \A q \in Player : \A x \in inbox'[q] :
       \/ q # p /\ x \in inbox[q]
       \/ q = p /\ x \in SavedBox(p, Changed(p, m, e))
       \/ x \in N /\ x.to = q
  /\ answer' = answer

\* As mails turned over: m and the marked ones K go, e and N come.
TurnsBox(m, e, N, K) ==
  /\ Turns({m} \cup K, {e} \cup N) /\ Follows({e} \cup N)
  /\ m \notin K /\ m \in MailSet /\ e \notin N /\ m.id = e.id /\ K \in SUBSET Settled

\* Taking from a mail turns it over, and the marked ones with it.
LEMMA TakeTurns ==
  ASSUME TypeInv, BoxInv, StoreInv, NEW p \in Player, NEW m \in inbox[p], Readable(p, m),
         NEW e, NEW N, Fresh(N), Saves(p, m, e, N)
  PROVE  TurnsBox(m, e, N, Marked(p, Changed(p, m, e)))
<1>0. /\ e \in MailSet /\ e = Overwritten(m, e)
      /\ N \in SUBSET MailSet /\ IsFiniteSet(N) /\ \A x \in N : x.id \in FreeIds
      /\ \A x, y \in N : x.id = y.id => x = y
      /\ Settled' = {x \in Apply(Settled \cup N, Write(p, "update", e)) :
                       x.id \notin IdsOf(Marked(p, Changed(p, m, e)))}
      /\ \A q \in Player : \A x \in inbox'[q] :
           \/ q # p /\ x \in inbox[q]
           \/ q = p /\ x \in SavedBox(p, Changed(p, m, e))
           \/ x \in N /\ x.to = q
      /\ answer' = answer
  BY DEF Fresh, Saves
<1> DEFINE K == Marked(p, Changed(p, m, e))
<1>1. inbox[p] \in SUBSET MailSet /\ m \in MailSet /\ m.id \notin deleted[p] /\ answer[p] = {}
      /\ m \in Settled /\ m.to = p
  BY DEF TypeInv, HoldType, BoxType, Readable, Online, BoxInv, StoreInv
<1>2. e.id = m.id /\ e.to = m.to
  BY <1>0, <1>1 DEF MailSet, Overwritten
<1>3. \A x : x \in K <=> x \in inbox[p] /\ x.id \in deleted[p]
  BY <1>1, <1>2 DEF Marked, SavedBox, Changed
<1>4. \A x : x \in SavedBox(p, Changed(p, m, e)) => x = e \/ (x \in inbox[p] /\ x # m /\ x.id \notin deleted[p])
  BY DEF SavedBox, Changed
<1>5. /\ Settled \in SUBSET MailSet /\ \A x, y \in Settled : x.id = y.id => x = y
      /\ \A q \in Player : \A x \in inbox[q] \cup answer[q] : x \in Settled /\ x.to = q
  BY SettledType DEF TypeInv, StoreInv
<1>6. \A x \in N : \A y \in Settled : x.id # y.id
  BY <1>0, FreshId DEF TypeInv
<1> DEFINE T == Settled \cup N
<1>7. Apply(T, Write(p, "update", e)) = (T \ {m}) \cup {e}
  <2>1. T \in SUBSET MailSet /\ m \in T /\ \A x \in T : x.id = m.id => x = m
    BY <1>0, <1>1, <1>5, <1>6
  <2> HIDE DEF T
  <2> QED BY <1>0, <2>1, ApplyUpdate
<1>8. \A x : x \in Settled' <=> (x = e \/ (x \in Settled /\ x # m) \/ (x \in N /\ x # m)) /\ x.id \notin IdsOf(K)
  BY <1>0, <1>7
<1> HIDE DEF K
<1>9. \A x : x.id \in IdsOf(K) <=> \E y \in K : y.id = x.id
  BY DEF IdsOf
<1>10. K \in SUBSET Settled /\ m \notin K
  BY <1>1, <1>3, <1>5
<1>11. e.id \notin IdsOf(K)
  BY <1>1, <1>2, <1>3, <1>9
<1>12. \A x \in N : x.id \notin IdsOf(K) /\ x # m /\ x.id # e.id
  BY <1>1, <1>2, <1>6, <1>9, <1>10
<1>13. \A x \in Settled : x.id \in IdsOf(K) <=> x \in K
  BY <1>5, <1>9, <1>10
<1>14. Settled' = (Settled \ ({m} \cup K)) \cup ({e} \cup N)
  <2>1. \A x : x \in Settled' <=> x \in (Settled \ ({m} \cup K)) \cup ({e} \cup N)
    BY <1>8, <1>11, <1>12, <1>13
  <2> QED BY <2>1
<1>15. Turns({m} \cup K, {e} \cup N)
  <2>1. {m} \cup K \in SUBSET Settled /\ {e} \cup N \in SUBSET MailSet
    BY <1>0, <1>1, <1>10
  <2>2. IsFiniteSet(N \cup {e})
    BY <1>0, FS_AddElement
  <2>3. IsFiniteSet({e} \cup N)
    <3>1. {e} \cup N = N \cup {e}
      OBVIOUS
    <3> QED BY <3>1, <2>2
  <2>4. \A x \in {e} \cup N : \A y \in Settled \ ({m} \cup K) : x.id # y.id
    BY <1>0, <1>1, <1>2, <1>5, <1>6
  <2>5. \A x, y \in {e} \cup N : x.id = y.id => x = y
    BY <1>0, <1>12
  <2> QED BY <2>1, <2>3, <2>4, <2>5, <1>14 DEF Turns
<1>16. Follows({e} \cup N)
  <2> SUFFICES ASSUME NEW q \in Player, NEW x \in inbox'[q] \cup answer'[q]
               PROVE  x \in Settled' /\ (x \in inbox[q] \cup answer[q] \/ (x \in {e} \cup N /\ x.to = q))
    BY DEF Follows
  <2>1. \/ q # p /\ x \in inbox[q] \cup answer[q]
        \/ q = p /\ x \in SavedBox(p, Changed(p, m, e))
        \/ x \in N /\ x.to = q
    BY <1>0, <1>1
  <2>2. CASE q # p /\ x \in inbox[q] \cup answer[q]
    <3>1. x \in Settled /\ x.to = q /\ x # m
      BY <2>2, <1>1, <1>5
    <3>2. x \notin K
      BY <2>2, <3>1, <1>3, <1>5
    <3> QED BY <2>2, <3>1, <3>2, <1>14
  <2>3. CASE q = p /\ x \in SavedBox(p, Changed(p, m, e))
    <3>1. x = e \/ (x \in inbox[p] /\ x # m /\ x.id \notin deleted[p])
      BY <2>3, <1>4
    <3>2. x \in inbox[p] /\ x # m /\ x.id \notin deleted[p] => x \in Settled /\ x \notin {m} \cup K
      BY <1>3, <1>5
    <3> QED BY <2>3, <3>1, <3>2, <1>1, <1>2, <1>14
  <2>4. CASE x \in N /\ x.to = q
    BY <2>4, <1>14
  <2> QED BY <2>1, <2>2, <2>3, <2>4
<1>17. e \notin N
  BY <1>12
<1> QED BY <1>1, <1>2, <1>10, <1>15, <1>16, <1>17 DEF K, TurnsBox

\* The marked mails of a mailbox that is saved.
LEMMA SaveTurns ==
  ASSUME TypeInv, BoxInv, StoreInv, NEW p \in Player, Online(p),
         Settled' = {x \in Settled : x.id \notin IdsOf(Marked(p, inbox[p]))},
         NEW next \in SUBSET SavedBox(p, inbox[p]), inbox' = [inbox EXCEPT ![p] = next], answer' = answer
  PROVE  /\ Turns(Marked(p, inbox[p]), {}) /\ Follows({})
<1> DEFINE K == Marked(p, inbox[p])
<1>1. inbox[p] \in SUBSET MailSet /\ answer[p] = {} /\ inbox \in [Player -> SUBSET MailSet]
  BY DEF TypeInv, HoldType, BoxType, Online, BoxInv
<1>2. \A x : x \in K <=> x \in inbox[p] /\ x.id \in deleted[p]
  BY DEF Marked, SavedBox
<1>3. \A x : x \in SavedBox(p, inbox[p]) <=> x \in inbox[p] /\ x.id \notin deleted[p]
  BY DEF SavedBox
<1>4. /\ Settled \in SUBSET MailSet /\ \A x, y \in Settled : x.id = y.id => x = y
      /\ \A q \in Player : \A x \in inbox[q] \cup answer[q] : x \in Settled /\ x.to = q
  BY SettledType DEF TypeInv, StoreInv
<1>5. Settled' = {x \in Settled : x.id \notin IdsOf(K)}
  OBVIOUS
<1> HIDE DEF K
<1>6. K \in SUBSET Settled /\ \A x \in Settled : x.id \in IdsOf(K) <=> x \in K
  BY <1>2, <1>4 DEF IdsOf
<1>7. Settled' = Settled \ K
  BY <1>5, <1>6
<1>8. Turns(K, {})
  BY <1>6, <1>7, FS_EmptySet DEF Turns
<1>9. Follows({})
  <2> SUFFICES ASSUME NEW q \in Player, NEW x \in inbox'[q] \cup answer'[q]
               PROVE  x \in Settled' /\ x \in inbox[q] \cup answer[q]
    BY DEF Follows
  <2>1. CASE q = p
    <3>1. x \in inbox[p] /\ x.id \notin deleted[p]
      BY <2>1, <1>1, <1>3
    <3> QED BY <2>1, <3>1, <1>2, <1>4, <1>7
  <2>2. CASE q # p
    <3>1. x \in inbox[q] \cup answer[q] /\ x \in Settled /\ x.to = q
      BY <2>2, <1>1, <1>4
    <3>2. x \notin K
      BY <2>2, <3>1, <1>2, <1>4
    <3> QED BY <3>1, <3>2, <1>7
  <2> QED BY <2>1, <2>2
<1> QED BY <1>8, <1>9 DEF K

\* A mail of a mailbox goes, and others may come.
LEMMA ReturnTurns ==
  ASSUME TypeInv, BoxInv, StoreInv, NEW p \in Player, NEW m \in inbox[p], Online(p),
         NEW N \in SUBSET MailSet, IsFiniteSet(N), \A x \in N : x.id \in FreeIds,
         \A x, y \in N : x.id = y.id => x = y,
         Settled' = {x \in Settled : x.id # m.id} \cup N,
         inbox' = Received([inbox EXCEPT ![p] = @ \ {m}], N), answer' = answer
  PROVE  Turns({m}, N) /\ Follows(N) /\ m \in MailSet
<1>1. m \in MailSet /\ answer[p] = {} /\ m \in Settled /\ m.to = p /\ inbox \in [Player -> SUBSET MailSet]
  BY DEF TypeInv, HoldType, BoxType, Online, BoxInv, StoreInv
<1>2. /\ Settled \in SUBSET MailSet /\ \A x, y \in Settled : x.id = y.id => x = y
      /\ \A q \in Player : \A x \in inbox[q] \cup answer[q] : x \in Settled /\ x.to = q
  BY SettledType DEF TypeInv, StoreInv
<1>3. \A x \in N : \A y \in Settled : x.id # y.id
  BY FreshId DEF TypeInv
<1>4. Settled' = (Settled \ {m}) \cup N
  <2>1. \A x \in Settled : x.id # m.id <=> x # m
    BY <1>1, <1>2
  <2> QED BY <2>1
<1>5. Turns({m}, N)
  BY <1>1, <1>3, <1>4 DEF Turns
<1>6. Follows(N)
  <2> SUFFICES ASSUME NEW q \in Player, NEW x \in inbox'[q] \cup answer'[q]
               PROVE  x \in Settled' /\ (x \in inbox[q] \cup answer[q] \/ (x \in N /\ x.to = q))
    BY DEF Follows
  <2> DEFINE boxes == [inbox EXCEPT ![p] = @ \ {m}]
  <2>1. \A y : y \in boxes[q] => y \in inbox[q] /\ (q = p => y # m)
    BY <1>1
  <2>2. \A y : y \in inbox'[q] => y \in boxes[q] \/ (y \in N /\ y.to = q)
    <3> HIDE DEF boxes
    <3>1. inbox' = Received(boxes, N)
      BY DEF boxes
    <3> QED BY <3>1, ReceivedAdds
  <2> HIDE DEF boxes
  <2>3. \/ x \in inbox[q] \cup answer[q] /\ x # m
        \/ x \in N /\ x.to = q
    <3>1. x \in answer[q] => x # m
      BY <1>1, <1>2
    <3>2. x \in inbox'[q] => (x \in inbox[q] /\ x # m) \/ (x \in N /\ x.to = q)
      <4>1. x \in inbox'[q] => (x \in inbox[q] /\ (q = p => x # m)) \/ (x \in N /\ x.to = q)
        BY <2>1, <2>2
      <4>2. q # p => m \notin inbox[q]
        BY <1>1, <1>2
      <4> QED BY <4>1, <4>2
    <3> QED BY <3>1, <3>2
  <2> QED BY <2>3, <1>2, <1>4
<1> QED BY <1>1, <1>5, <1>6

\* The job deletes its mail, or sends it back.
Returned(m) == [m EXCEPT !.to = m.from, !.from = m.to, !.cod = 0, !.final = TRUE]

\* The job's statement turns its mail over, as the mail is still the one it read.
LEMMA JobTurns ==
  ASSUME TypeInv, BoxInv, StoreInv, NEW m \in MailSet, NEW op \in {"delete", "return"},
         JobWrite(Write(None, op, m)), ~overtaken', ~Online(m.to),
         rows' = rows, UNCHANGED <<loginVars, boxVars>>
  PROVE  /\ m \in Settled
         /\ Returned(m) \in MailSet /\ Returned(m).id = m.id
         /\ Returned(m).item = m.item /\ Returned(m).money = m.money
         /\ op = "delete" => Turns({m}, {}) /\ Follows({})
         /\ op = "return" => Turns({m}, {Returned(m)}) /\ Follows({Returned(m)})
<1> DEFINE w == Write(None, op, m)
<1>1. w \in WriteSet /\ w.mail = m /\ w.op = op
  BY DEF Write, WriteSet
<1>2. JobWrite(w)
  OBVIOUS
<1> HIDE DEF w
<1>3. Settled' = Apply(Settled, w)
  BY <1>1, <1>2, JobWriteDoes DEF TypeInv
<1>4. m \in Settled /\ \A p \in Player : m.id \notin IdsOf(answer[p])
  BY <1>1, <1>2 DEF JobWrite
<1>5. /\ Settled \in SUBSET MailSet /\ \A x, y \in Settled : x.id = y.id => x = y
      /\ \A q \in Player : \A x \in inbox[q] \cup answer[q] : x \in Settled /\ x.to = q
  BY SettledType DEF TypeInv, StoreInv
<1>6. \A q \in Player : m \notin inbox'[q] \cup answer'[q] /\ inbox'[q] = inbox[q] /\ answer'[q] = answer[q]
  <2>1. \A q \in Player : m \notin answer[q]
    BY <1>4 DEF IdsOf
  <2>2. \A q \in Player : m \notin inbox[q]
    BY <1>5 DEF BoxInv, Online
  <2> QED BY <2>1, <2>2 DEF loginVars, boxVars
<1>7. Returned(m) \in MailSet /\ Returned(m).id = m.id
      /\ Returned(m).item = m.item /\ Returned(m).money = m.money
  BY DEF Returned, MailSet
<1> DEFINE others == {x \in Settled : x.id # w.mail.id}
           here == Settled \ others
           f(x) == [x EXCEPT !.to = x.from, !.from = x.to, !.cod = 0, !.final = TRUE]
<1>8. others = Settled \ {m} /\ here = {m}
  BY <1>1, <1>4, <1>5
<1>9. ASSUME op = "delete" PROVE Turns({m}, {}) /\ Follows({})
  <2>1. Settled' = Settled \ {m}
    <3>1. Settled' = others
      BY <1>1, <1>3, <1>9 DEF Apply
    <3> QED BY <3>1, <1>8
  <2>2. Turns({m}, {})
    BY <2>1, <1>4, FS_EmptySet DEF Turns
  <2>3. Follows({})
    BY <2>1, <1>5, <1>6 DEF Follows
  <2> QED BY <2>2, <2>3
<1>10. ASSUME op = "return" PROVE Turns({m}, {Returned(m)}) /\ Follows({Returned(m)})
  <2> DEFINE r == Returned(m)
  <2>1. Settled' = others \cup {f(x) : x \in here}
    BY <1>1, <1>3, <1>10 DEF Apply
  <2>2. f(m) = r
    BY DEF Returned
  <2> HIDE DEF f, others, here, r
  <2>3. Settled' = (Settled \ {m}) \cup {r}
    BY <2>1, <2>2, <1>8
  <2>4. \A x \in Settled \ {m} : r.id # x.id
    BY <1>4, <1>5, <1>7 DEF r
  <2>5. Turns({m}, {r})
    BY <2>3, <2>4, <1>4, <1>7, FS_Singleton DEF Turns, r
  <2>6. Follows({r})
    BY <2>3, <1>5, <1>6 DEF Follows
  <2> QED BY <2>5, <2>6 DEF r
<1> QED BY <1>4, <1>7, <1>9, <1>10

\* A statement that no older one is overtaken by changes nothing that will be.
LEMMA ExecuteTurns ==
  ASSUME TypeInv, Execute, ~overtaken'
  PROVE  Settled' = Settled
<1>1. PICK k \in DOMAIN pending :
        /\ rows' = Apply(rows, pending[k]) /\ pending' = RemoveAt(pending, k)
        /\ overtaken' = (overtaken \/ \E j \in 1..(k - 1) : pending[j].mail.id = pending[k].mail.id)
  BY DEF Execute
<1>2. pending \in Seq(WriteSet) /\ k \in 1..Len(pending) /\ rows \in SUBSET MailSet /\ IsFiniteSet(rows)
  BY DEF TypeInv, StoreType
<1>3. \A j \in 1..(k - 1) : pending[j].mail.id # pending[k].mail.id
  BY <1>1
<1>4. Executed(Apply(rows, pending[k]), RemoveAt(pending, k)) = Executed(rows, pending)
  BY <1>2, <1>3, ExecutedFirst
<1> QED BY <1>1, <1>4 DEF Settled

\* Without statements on their way about what is read, what is read is what will be.
LEMMA ReadStore ==
  ASSUME TypeInv, StoreInv, NEW p \in Player, ReadMails(p), ~overtaken'
  PROVE  StoreInv' /\ Settled' = Settled
<1> DEFINE mine == {m \in rows : m.to = p}
<1>1. /\ answer' = [answer EXCEPT ![p] = mine]
      /\ \A k \in DOMAIN pending : pending[k].mail.id \notin {m.id : m \in mine}
      /\ UNCHANGED <<boxVars, storeVars>>
  BY DEF ReadMails
<1>2. Settled' = Settled
  BY <1>1, SettledSame
<1>3. pending \in Seq(WriteSet) /\ rows \in SUBSET MailSet /\ IsFiniteSet(rows) /\ DOMAIN pending = 1..Len(pending)
  BY DEF TypeInv, StoreType
<1>4. \A x \in mine : x \in Settled /\ x.to = p
  <2> SUFFICES ASSUME NEW x \in mine PROVE x \in Settled
    OBVIOUS
  <2>1. x \in rows /\ \A k \in 1..Len(pending) : pending[k].mail.id # x.id
    BY <1>1, <1>3
  <2> QED BY <2>1, <1>3, ExecutedElsewhere DEF Settled
<1> HIDE DEF mine
<1>5. answer \in [Player -> SUBSET MailSet]
  BY DEF TypeInv, HoldType, BoxType
<1>6. \A q \in Player : answer'[q] = answer[q] \/ (q = p /\ answer'[q] = mine)
  BY <1>1, <1>5
<1>7. StoreInv'
  BY <1>1, <1>2, <1>4, <1>6 DEF StoreInv, boxVars
<1> QED BY <1>2, <1>7

----------------------------------------------------------------------------
(* The ledger: where items are, and how much money there is. *)

\* An item is in one place: the bag of one player, one mail, the house, or lost.
Owners(i, bags) == {p \in Player : i \in bags[p]}

OnePlace(owners, carriers, auctioned, gone) ==
  \/ (\E p : owners = {p}) /\ carriers = {} /\ ~auctioned /\ ~gone
  \/ owners = {} /\ (\E n : carriers = {n}) /\ ~auctioned /\ ~gone
  \/ owners = {} /\ carriers = {} /\ auctioned /\ ~gone
  \/ owners = {} /\ carriers = {} /\ ~auctioned /\ gone

Located(i) ==
  OnePlace(Owners(i, bag), Carriers(i, Settled), house[i] # NoAuction, i \in lost)

ItemInv == \A i \in Item : Located(i)

MoneyInv ==
  SumFunction(gold) + MoneyIn(Settled) + Value(house) + sunk = StartGold * Cardinality(Player)

\* What holds as long as nothing was overtaken.
Ledger == StoreInv /\ ItemInv /\ MoneyInv

\* Where an item is, it is nowhere else.
LEMMA InBag ==
  ASSUME ItemInv, NEW i \in Item, NEW p \in Player, i \in bag[p]
  PROVE  Owners(i, bag) = {p} /\ Carriers(i, Settled) = {} /\ house[i] = NoAuction /\ i \notin lost
<1>1. p \in Owners(i, bag)
  BY DEF Owners
<1>2. OnePlace(Owners(i, bag), Carriers(i, Settled), house[i] # NoAuction, i \in lost)
  BY DEF ItemInv, Located
<1> QED BY <1>1, <1>2 DEF OnePlace

\* An item in a mail is in no other mail and nowhere else.
LEMMA InMail ==
  ASSUME ItemInv, NEW i \in Item, NEW m \in Settled, m.item = i
  PROVE  Owners(i, bag) = {} /\ Carriers(i, Settled) = {m.id} /\ house[i] = NoAuction /\ i \notin lost
<1>1. m.id \in Carriers(i, Settled)
  BY DEF Carriers
<1>2. OnePlace(Owners(i, bag), Carriers(i, Settled), house[i] # NoAuction, i \in lost)
  BY DEF ItemInv, Located
<1> QED BY <1>1, <1>2 DEF OnePlace

\* An auctioned item is nowhere else.
LEMMA InHouse ==
  ASSUME ItemInv, NEW i \in Item, house[i] # NoAuction
  PROVE  Owners(i, bag) = {} /\ Carriers(i, Settled) = {} /\ i \notin lost
<1>2. OnePlace(Owners(i, bag), Carriers(i, Settled), house[i] # NoAuction, i \in lost)
  BY DEF ItemInv, Located
<1> QED BY <1>2 DEF OnePlace

\* An item that the step does not touch stays where it is.
LEMMA Stays ==
  ASSUME ItemInv, NEW i \in Item, Owners(i, bag') = Owners(i, bag),
         Carriers(i, Settled') = Carriers(i, Settled),
         house'[i] # NoAuction <=> house[i] # NoAuction, i \in lost' <=> i \in lost
  PROVE  Located(i)'
<1>1. OnePlace(Owners(i, bag), Carriers(i, Settled), house[i] # NoAuction, i \in lost)
  BY DEF ItemInv, Located
<1>2. OnePlace(Owners(i, bag'), Carriers(i, Settled'), house'[i] # NoAuction, i \in lost')
  BY <1>1 DEF OnePlace
<1> QED BY <1>2 DEF Located

\* Where an item is after a step: in a bag.
LEMMA NowInBag ==
  ASSUME NEW i, NEW p, Owners(i, bag') = {p}, Carriers(i, Settled') = {}, house'[i] = NoAuction, i \notin lost'
  PROVE  Located(i)'
<1>1. OnePlace(Owners(i, bag'), Carriers(i, Settled'), house'[i] # NoAuction, i \in lost')
  BY DEF OnePlace
<1> QED BY <1>1 DEF Located

\* In a mail.
LEMMA NowInMail ==
  ASSUME NEW i, NEW n, Owners(i, bag') = {}, Carriers(i, Settled') = {n}, house'[i] = NoAuction, i \notin lost'
  PROVE  Located(i)'
<1>1. OnePlace(Owners(i, bag'), Carriers(i, Settled'), house'[i] # NoAuction, i \in lost')
  BY DEF OnePlace
<1> QED BY <1>1 DEF Located

\* In the auction house.
LEMMA NowInHouse ==
  ASSUME NEW i, Owners(i, bag') = {}, Carriers(i, Settled') = {}, house'[i] # NoAuction, i \notin lost'
  PROVE  Located(i)'
<1>1. OnePlace(Owners(i, bag'), Carriers(i, Settled'), house'[i] # NoAuction, i \in lost')
  BY DEF OnePlace
<1> QED BY <1>1 DEF Located

\* Nowhere any more.
LEMMA NowLost ==
  ASSUME NEW i, Owners(i, bag') = {}, Carriers(i, Settled') = {}, house'[i] = NoAuction, i \in lost'
  PROVE  Located(i)'
<1>1. OnePlace(Owners(i, bag'), Carriers(i, Settled'), house'[i] # NoAuction, i \in lost')
  BY DEF OnePlace
<1> QED BY <1>1 DEF Located

\* The purses and the house.
LEMMA GoldInt ==
  ASSUME NEW f \in [Player -> Nat]
  PROVE  SumFunction(f) \in Int
<1>1. IsFiniteSet(Player) /\ \A p \in Player : f[p] \in Int
  BY MailAssumption
<1>2. SumFunction(f) = SumFunctionOnSet(f, Player)
  BY DEF SumFunction
<1> QED BY <1>1, <1>2, SumInt

\* The sum of the purses, after one of them changed.
LEMMA GoldSet ==
  ASSUME NEW f \in [Player -> Nat], NEW p \in Player, NEW v \in Nat
  PROVE  SumFunction([f EXCEPT ![p] = v]) = SumFunction(f) + (v - f[p])
<1> DEFINE g == [f EXCEPT ![p] = v]
<1>1. g \in [Player -> Int] /\ f \in [Player -> Int] /\ g[p] = v /\ f[p] \in Nat
      /\ \A q \in Player : q # p => g[q] = f[q]
  OBVIOUS
<1>2. IsFiniteSet(Player)
  BY MailAssumption
<1> HIDE DEF g
<1>3. SumFunction(g) = SumFunction(f) - f[p] + g[p] /\ SumFunction(f) \in Int
  BY <1>1, <1>2, SumChanged
<1>4. SumFunction(g) = SumFunction(f) + (v - f[p])
  BY <1>1, <1>3
<1> QED BY <1>4 DEF g

\* What the auctions hold is a number.
LEMMA ValueInt ==
  ASSUME HouseInv
  PROVE  Value(house) \in Int
<1> DEFINE A == {j \in Item : house[j] # NoAuction}
           f == [j \in A |-> Worth(house[j])]
<1>1. IsFiniteSet(A)
  <2>1. A \in SUBSET Item
    OBVIOUS
  <2> QED BY <2>1, MailAssumption, FS_Subset
<1>2. \A j \in A : f[j] \in Int
  <2>1. \A j \in A : house[j] \in AuctionSet
    BY DEF HouseInv
  <2>2. \A b \in AuctionSet : Worth(b) \in Int
    BY DEF Worth, AuctionSet
  <2> HIDE DEF A
  <2> QED BY <2>1, <2>2
<1>3. Value(house) = SumFunctionOnSet(f, A)
  BY DEF Value, SumFunction
<1> HIDE DEF A, f
<1> QED BY <1>1, <1>2, <1>3, SumInt

\* What an auction holds, nothing if there is none.
WorthOf(a) == IF a = NoAuction THEN 0 ELSE Worth(a)

\* It is a number.
LEMMA WorthType ==
  ASSUME NEW a \in {NoAuction} \cup AuctionSet
  PROVE  WorthOf(a) \in Int
BY DEF WorthOf, Worth, AuctionSet

\* What the auctions hold, after one of them changed.
LEMMA ValueSet ==
  ASSUME HouseInv, NEW i \in Item, NEW a \in {NoAuction} \cup AuctionSet, house' = [house EXCEPT ![i] = a]
  PROVE  Value(house') = Value(house) + (WorthOf(a) - WorthOf(house[i]))
<1>1. house \in [Item -> {NoAuction} \cup AuctionSet]
  BY DEF HouseInv
<1>2. Value([house EXCEPT ![i] = a])
        = Value(house) - (IF house[i] = NoAuction THEN 0 ELSE Worth(house[i]))
                       + (IF a = NoAuction THEN 0 ELSE Worth(a))
  BY <1>1, ValueChanged
<1>3. Value(house) \in Int /\ WorthOf(a) \in Int /\ WorthOf(house[i]) \in Int
  BY <1>1, ValueInt, WorthType
<1>4. Value(house') = Value(house) - WorthOf(house[i]) + WorthOf(a)
  BY <1>2 DEF WorthOf
<1> QED BY <1>3, <1>4

\* The balance holds if what leaves one side arrives on another.
LEMMA Balance ==
  ASSUME TypeInv, HouseInv, MoneyInv, NEW Gone, NEW New, Turns(Gone, New),
         NEW dg \in Int, NEW dv \in Int, NEW ds \in Int,
         SumFunction(gold') = SumFunction(gold) + dg, Value(house') = Value(house) + dv,
         sunk' = sunk + ds, dg + dv + ds = MoneyIn(Gone) - MoneyIn(New)
  PROVE  MoneyInv'
<1>1. /\ MoneyIn(Settled) \in Int /\ MoneyIn(Gone) \in Int /\ MoneyIn(New) \in Int
      /\ MoneyIn(Settled') = MoneyIn(Settled) - MoneyIn(Gone) + MoneyIn(New)
  BY TurnsMoney DEF TypeInv
<1>2. SumFunction(gold) \in Int /\ sunk \in Int /\ Value(house) \in Int
  BY GoldInt, ValueInt DEF TypeInv, HoldType, StoreType
<1>3. SumFunction(gold) + MoneyIn(Settled) + Value(house) + sunk = StartGold * Cardinality(Player)
  BY DEF MoneyInv
<1>4. SumFunction(gold') + MoneyIn(Settled') + Value(house') + sunk'
        = SumFunction(gold) + MoneyIn(Settled) + Value(house) + sunk
  <2> DEFINE a == SumFunction(gold)
             b == MoneyIn(Settled)
             c == Value(house)
             s == sunk
             g == MoneyIn(Gone)
             n == MoneyIn(New)
  <2>1. a \in Int /\ b \in Int /\ c \in Int /\ s \in Int /\ g \in Int /\ n \in Int /\ dg + dv + ds = g - n
    BY <1>1, <1>2
  <2>2. SumFunction(gold') = a + dg /\ MoneyIn(Settled') = b - g + n /\ Value(house') = c + dv /\ sunk' = s + ds
    BY <1>1
  <2> HIDE DEF a, b, c, s, g, n
  <2>3. (a + dg) + (b - g + n) + (c + dv) + (s + ds) = a + b + c + s
    BY <2>1
  <2> QED BY <2>2, <2>3 DEF a, b, c, s
<1>5. SumFunction(gold') + MoneyIn(Settled') + Value(house') + sunk' = StartGold * Cardinality(Player)
  BY <1>3, <1>4
<1> QED BY <1>5 DEF MoneyInv

\* The money in one mail.
LEMMA MoneyOne ==
  ASSUME NEW x, x.money \in Int
  PROVE  MoneyIn({x}) = x.money
<1> DEFINE none == {}
           n == MoneyIn(none)
           k == x.money
<1>1. IsFiniteSet(none) /\ x \notin none /\ MoneyIn(none) = 0 /\ \A m \in none \cup {x} : m.money \in Int
  BY FS_EmptySet, MoneyEmpty
<1>2. none \cup {x} = {x}
  OBVIOUS
<1> HIDE DEF none
<1>3. MoneyIn(none \cup {x}) = x.money + MoneyIn(none)
  BY <1>1, MoneyAdd
<1>4. MoneyIn({x}) = k + n
  BY <1>2, <1>3
<1>5. n = 0 /\ k \in Int
  BY <1>1
<1> HIDE DEF n, k
<1>6. k + n = k
  BY <1>5
<1>7. MoneyIn({x}) = k
  BY <1>4, <1>6
<1> QED BY <1>7 DEF k

\* The money in two mails.
LEMMA MoneyTwo ==
  ASSUME NEW x, NEW y, x # y, x.money \in Int, y.money \in Int
  PROVE  MoneyIn({x, y}) = x.money + y.money
<1> DEFINE one == {x}
           n == MoneyIn(one)
           k == y.money
           j == x.money
<1>1. IsFiniteSet(one) /\ y \notin one /\ \A m \in one \cup {y} : m.money \in Int
  BY FS_Singleton
<1>2. one \cup {y} = {x, y}
  OBVIOUS
<1>3. MoneyIn(one) = x.money
  BY MoneyOne
<1> HIDE DEF one
<1>4. MoneyIn(one \cup {y}) = y.money + MoneyIn(one)
  BY <1>1, MoneyAdd
<1>5. MoneyIn({x, y}) = k + n
  BY <1>2, <1>4
<1>6. n = j /\ j \in Int /\ k \in Int
  BY <1>3
<1> HIDE DEF n, k, j
<1>7. k + n = j + k
  BY <1>6
<1>8. MoneyIn({x, y}) = j + k
  BY <1>5, <1>7
<1> QED BY <1>8 DEF j, k

\* The ledger is kept by a step that turns mails over, if each item is located after it and
\* the sums balance.
LEMMA LedgerKept ==
  ASSUME TypeInv, HouseInv, Ledger, NEW Gone, NEW New, Turns(Gone, New), Follows(New),
         NEW dg \in Int, NEW dv \in Int, NEW ds \in Int,
         SumFunction(gold') = SumFunction(gold) + dg, Value(house') = Value(house) + dv,
         sunk' = sunk + ds, dg + dv + ds = MoneyIn(Gone) - MoneyIn(New),
         \A i \in Item : Located(i)'
  PROVE  Ledger'
<1>1. StoreInv /\ ItemInv /\ MoneyInv
  BY DEF Ledger
<1>2. StoreInv'
  BY <1>1, TurnsStore
<1>3. ItemInv'
  BY DEF ItemInv
<1>4. MoneyInv'
  BY <1>1, Balance
<1> QED BY <1>2, <1>3, <1>4 DEF Ledger

\* An item in a mail that goes, an item that is in no mail, any other item.
LEMMA MailLeft ==
  ASSUME ItemInv, StoreInv, NEW Gone, NEW New, Turns(Gone, New), NEW i \in Item, NEW k \in Gone, k.item = i
  PROVE  /\ Owners(i, bag) = {} /\ house[i] = NoAuction /\ i \notin lost
         /\ Carriers(i, Settled') = Carriers(i, New)
         /\ \A n \in Settled : n.item = i => n = k
<1>1. k \in Settled
  BY DEF Turns
<1>2. /\ Owners(i, bag) = {} /\ house[i] = NoAuction /\ i \notin lost
      /\ Carriers(i, Settled) = {k.id}
  BY <1>1, InMail
<1>3. \A n \in Settled : n.item = i => n = k
  <2>1. \A n \in Settled : n.item = i => n.id = k.id
    BY <1>2 DEF Carriers
  <2> QED BY <2>1, <1>1 DEF StoreInv
<1>4. Carriers(i, Settled') = (Carriers(i, Settled) \ Carriers(i, Gone)) \cup Carriers(i, New)
  BY TurnsCarriers
<1>5. k.id \in Carriers(i, Gone)
  BY DEF Carriers
<1> QED BY <1>2, <1>3, <1>4, <1>5

\* An item that was in no mail is in those that come.
LEMMA MailCame ==
  ASSUME StoreInv, NEW Gone, NEW New, Turns(Gone, New), NEW i, Carriers(i, Settled) = {}
  PROVE  Carriers(i, Settled') = Carriers(i, New)
<1>1. Carriers(i, Settled') = (Carriers(i, Settled) \ Carriers(i, Gone)) \cup Carriers(i, New)
  BY TurnsCarriers
<1> QED BY <1>1

\* An item that goes and comes with the same mails stays where it is.
LEMMA MailStays ==
  ASSUME ItemInv, StoreInv, NEW Gone, NEW New, Turns(Gone, New), NEW i \in Item,
         Carriers(i, New) = Carriers(i, Gone), Owners(i, bag') = Owners(i, bag),
         house'[i] # NoAuction <=> house[i] # NoAuction, i \in lost' <=> i \in lost
  PROVE  Located(i)'
<1>1. Carriers(i, Settled') = (Carriers(i, Settled) \ Carriers(i, Gone)) \cup Carriers(i, New)
  BY TurnsCarriers
<1>2. Carriers(i, Gone) \subseteq Carriers(i, Settled)
  BY DEF Carriers, Turns
<1>3. Carriers(i, Settled') = Carriers(i, Settled)
  BY <1>1, <1>2
<1> QED BY <1>3, Stays

\* One purse changes.
LEMMA GoldBy ==
  ASSUME TypeInv, NEW p \in Player, NEW d \in Int, gold[p] + d \in Nat,
         gold' = [gold EXCEPT ![p] = gold[p] + d]
  PROVE  SumFunction(gold') = SumFunction(gold) + d
<1> DEFINE v == gold[p] + d
<1>1. gold \in [Player -> Nat]
  BY DEF TypeInv, HoldType
<1>2. v \in Nat /\ gold' = [gold EXCEPT ![p] = v] /\ v - gold[p] = d
  BY <1>1
<1> HIDE DEF v
<1>3. SumFunction([gold EXCEPT ![p] = v]) = SumFunction(gold) + (v - gold[p])
  BY <1>1, <1>2, GoldSet
<1> QED BY <1>2, <1>3

\* A purse is lighter by what is paid.
LEMMA GoldLess ==
  ASSUME TypeInv, NEW p \in Player, NEW c \in 0..gold[p], gold' = [gold EXCEPT ![p] = gold[p] - c]
  PROVE  \E d \in Int : d = -c /\ SumFunction(gold') = SumFunction(gold) + d
<1> DEFINE d == -c
<1>1. gold[p] \in Nat
  BY DEF TypeInv, HoldType
<1>2. d \in Int /\ gold[p] + d \in Nat /\ gold[p] - c = gold[p] + d /\ d = -c
  BY <1>1
<1> HIDE DEF d
<1>3. gold' = [gold EXCEPT ![p] = gold[p] + d]
  BY <1>2
<1>4. SumFunction(gold') = SumFunction(gold) + d
  BY <1>2, <1>3, GoldBy
<1> QED BY <1>2, <1>4

\* No purse changes.
LEMMA GoldStays ==
  ASSUME TypeInv, gold' = gold
  PROVE  SumFunction(gold') = SumFunction(gold) + 0
<1>1. SumFunction(gold) \in Int
  BY GoldInt DEF TypeInv, HoldType
<1> QED BY <1>1

\* No auction changes.
LEMMA ValueStays ==
  ASSUME HouseInv, house' = house
  PROVE  Value(house') = Value(house) + 0
BY ValueInt

\* A player's mail.
LEMMA CallbackLedger ==
  ASSUME TypeInv, HouseInv, Ledger, NEW r \in RequestSet, HandleSendMailCallback(r),
         rows' = rows, answer' = answer, house' = house, lost' = lost
  PROVE  Ledger'
<1> DEFINE E == {Written(r)}
           N == Numbered(E)
           none == {}
           cost == r.money + Postage
           p == r.from
<1>1. StoreInv /\ ItemInv
  BY DEF Ledger
<1>2. Turns(none, N) /\ Follows(N) /\ Written(r) \in DraftSet /\ MayPost(E)
  BY <1>1, CallbackTurns
<1>3. E \in SUBSET DraftSet /\ IsFiniteSet(E)
  BY <1>2, FS_Singleton
<1>4. p \in Player /\ r.money \in Nat /\ Postage \in Nat /\ r.item \in Item \cup {None}
  BY MailAssumption DEF RequestSet
<1>5. /\ gold[p] >= cost /\ (r.item = None \/ r.item \in bag[p])
      /\ gold' = [gold EXCEPT ![p] = @ - cost] /\ bag' = [bag EXCEPT ![p] = @ \ {r.item}]
      /\ sunk' = sunk + Postage
  BY DEF HandleSendMailCallback
<1>6. gold \in [Player -> Nat] /\ bag \in [Player -> SUBSET Item]
  BY DEF TypeInv, HoldType
<1>7. Written(r).money = r.money /\ Written(r).item = r.item
  BY DEF Written, Draft
<1>8. MoneyIn(N) = r.money
  <2>1. MoneyIn(N) = MoneyIn(E)
    BY <1>2, <1>3, MoneyNumbered
  <2>2. Written(r).money \in Int
    BY <1>4, <1>7
  <2>3. MoneyIn(E) = Written(r).money
    BY <2>2, MoneyOne
  <2> QED BY <2>1, <2>3, <1>7
<1>9. MoneyIn(none) = 0
  BY MoneyEmpty
<1>10. SumFunction(gold') = SumFunction(gold) + (-cost)
  <2>1. -cost \in Int /\ gold[p] + (-cost) \in Nat
    BY <1>4, <1>5, <1>6
  <2>2. gold' = [gold EXCEPT ![p] = gold[p] + (-cost)]
    BY <1>4, <1>5, <1>6
  <2> QED BY <2>1, <2>2, <1>4, GoldBy
<1>11. \A i : Carriers(i, none) = {}
  BY DEF Carriers
<1>12. \A i : r.item # i => Carriers(i, N) = {}
  BY <1>2, <1>3, <1>7, CarriersNumbered
<1>13. \E n \in Nat : Carriers(r.item, N) = {n}
  BY <1>2, <1>3, <1>7, CarriersNumbered
<1> HIDE DEF N, none
<1>14. ASSUME NEW i \in Item PROVE Located(i)'
  <2>1. CASE r.item = i
    <3>1. i \in bag[p]
      BY <2>1, <1>5, MailAssumption
    <3>2. Owners(i, bag) = {p} /\ Carriers(i, Settled) = {} /\ house[i] = NoAuction /\ i \notin lost
      BY <3>1, <1>1, <1>4, InBag
    <3>3. Owners(i, bag') = {}
      <4>1. \A q \in Player : i \in bag[q] => q = p
        BY <3>2 DEF Owners
      <4>2. \A q \in Player : i \notin bag'[q]
        BY <4>1, <2>1, <1>4, <1>5, <1>6
      <4> QED BY <4>2 DEF Owners
    <3>4. Carriers(i, Settled') = Carriers(i, N)
      BY <3>2, <1>1, <1>2, MailCame
    <3>5. PICK n \in Nat : Carriers(i, N) = {n}
      BY <2>1, <1>13
    <3> QED BY <3>2, <3>3, <3>4, <3>5, NowInMail
  <2>2. CASE r.item # i
    <3>1. Owners(i, bag') = Owners(i, bag)
      BY <2>2, <1>4, <1>5, <1>6 DEF Owners
    <3>2. Carriers(i, N) = Carriers(i, none)
      BY <2>2, <1>11, <1>12
    <3> QED BY <3>1, <3>2, <1>1, <1>2, MailStays
  <2> QED BY <2>1, <2>2
<1>15. -cost \in Int /\ 0 \in Int /\ Postage \in Int /\ (-cost) + 0 + Postage = MoneyIn(none) - MoneyIn(N)
  BY <1>4, <1>8, <1>9
<1>16. Value(house') = Value(house) + 0
  BY ValueStays
<1> HIDE DEF E, cost, p
<1> QED BY <1>2, <1>5, <1>10, <1>14, <1>15, <1>16, LedgerKept

\* The item leaves the mail for the bag, or none does.
Itemless(N) == \A x \in N : x.item = None
LosesItems(K) == \A j \in Item : j \in lost' <=> j \in lost \/ \E x \in K : x.item = j
Takes(p, m, e) ==
  \/ e.item = m.item /\ bag' = bag
  \/ m.item # None /\ e.item = None /\ bag' = [bag EXCEPT ![p] = @ \cup {m.item}]

\* Where an item is after one mail was changed and the mails of K were deleted.
LEMMA TakeLocated ==
  ASSUME ItemInv, StoreInv, NEW Gone, NEW New, Turns(Gone, New), NEW p \in Player, NEW m \in MailSet,
         NEW e, NEW N, NEW K \in SUBSET Settled, Gone = {m} \cup K, New = {e} \cup N,
         m \notin K, m.id = e.id, Itemless(N), TypeInv, house' = house, LosesItems(K), Takes(p, m, e),
         NEW i \in Item
  PROVE  Located(i)'
<1>0. /\ \A x \in N : x.item = None
      /\ \A j \in Item : j \in lost' <=> j \in lost \/ \E x \in K : x.item = j
      /\ bag \in [Player -> SUBSET Item]
      /\ \/ e.item = m.item /\ bag' = bag
         \/ m.item # None /\ e.item = None /\ bag' = [bag EXCEPT ![p] = @ \cup {m.item}]
  BY DEF Itemless, LosesItems, TypeInv, HoldType, Takes
<1>10. \A x \in Gone : x = m \/ x \in K
  OBVIOUS
<1>11. m \in Gone /\ K \subseteq Gone
  OBVIOUS
<1>12. Carriers(i, New) = IF e.item = i THEN {e.id} ELSE {}
  BY <1>0, MailAssumption DEF Carriers
<1>1. CASE \E x \in K : x.item = i
  <2>1. PICK x \in K : x.item = i
    BY <1>1
  <2>2. x \in Gone
    BY <1>11
  <2>3. /\ Owners(i, bag) = {} /\ house[i] = NoAuction /\ i \notin lost
        /\ Carriers(i, Settled') = Carriers(i, New)
        /\ \A n \in Settled : n.item = i => n = x
    BY <2>1, <2>2, MailLeft
  <2>4. m \in Settled
    BY <1>11 DEF Turns
  <2>5. m.item # i
    BY <2>3, <2>4
  <2>6. e.item # i
    BY <1>0, <2>5, MailAssumption
  <2>7. Owners(i, bag') = {}
    BY <1>0, <2>3, <2>5 DEF Owners
  <2>8. i \in lost'
    BY <1>0, <2>1
  <2>9. Carriers(i, Settled') = {}
    BY <2>3, <2>6, <1>12
  <2> QED BY <2>3, <2>7, <2>8, <2>9, NowLost
<1>2. CASE (\A x \in K : x.item # i) /\ m.item = i /\ e.item = None
  <2>1. /\ Owners(i, bag) = {} /\ house[i] = NoAuction /\ i \notin lost
        /\ Carriers(i, Settled') = Carriers(i, New)
    BY <1>2, <1>11, MailLeft
  <2>2. bag' = [bag EXCEPT ![p] = @ \cup {i}]
    BY <1>0, <1>2, MailAssumption
  <2>3. Owners(i, bag') = {p}
    <3>1. \A q \in Player : i \notin bag[q]
      BY <2>1 DEF Owners
    <3>2. \A q \in Player : i \in bag'[q] <=> q = p
      BY <1>0, <3>1, <2>2
    <3> QED BY <3>2 DEF Owners
  <2>4. Carriers(i, Settled') = {}
    BY <2>1, <1>2, <1>12, MailAssumption
  <2>5. i \notin lost'
    BY <1>0, <2>1, <1>2
  <2> QED BY <2>1, <2>3, <2>4, <2>5, NowInBag
<1>3. CASE (\A x \in K : x.item # i) /\ ~(m.item = i /\ e.item = None)
  <2>1. Owners(i, bag') = Owners(i, bag)
    BY <1>0, <1>3 DEF Owners
  <2>2. i \in lost' <=> i \in lost
    BY <1>0, <1>3
  <2>3. m.item = i <=> e.item = i
    BY <1>0, <1>3, MailAssumption
  <2>4. Carriers(i, Gone) = IF m.item = i THEN {m.id} ELSE {}
    BY <1>3, <1>10, <1>11 DEF Carriers
  <2>5. Carriers(i, New) = Carriers(i, Gone)
    BY <2>3, <2>4, <1>12
  <2> QED BY <2>1, <2>2, <2>5, MailStays
<1> QED BY <1>1, <1>2, <1>3

\* One mail of a mailbox is changed and the mailbox saved: what is taken from the mail arrives,
\* what is in marked mails is lost.
LEMMA TakeLedger ==
  ASSUME TypeInv, HouseInv, BoxInv, Ledger, NEW p \in Player, NEW m \in inbox[p], Readable(p, m),
         NEW e, NEW N, Fresh(N), Itemless(N), Saves(p, m, e, N), Takes(p, m, e), house' = house,
         NEW dg \in Int, SumFunction(gold') = SumFunction(gold) + dg,
         dg = m.money - e.money - MoneyIn(N),
         sunk' = sunk + SavesMoney(p, Changed(p, m, e)),
         lost' = lost \cup SavesItems(p, Changed(p, m, e))
  PROVE  Ledger'
<1> DEFINE K == Marked(p, Changed(p, m, e))
           Gone == {m} \cup K
           New == {e} \cup N
<1>1. StoreInv /\ ItemInv
  BY DEF Ledger
<1>2. /\ Turns(Gone, New) /\ Follows(New)
      /\ m \notin K /\ m \in MailSet /\ e \notin N /\ m.id = e.id /\ K \in SUBSET Settled
  <2>1. TurnsBox(m, e, N, Marked(p, Changed(p, m, e)))
    BY <1>1, TakeTurns
  <2> QED BY <2>1 DEF TurnsBox
<1>0. N \in SUBSET MailSet /\ IsFiniteSet(N) /\ e \in MailSet
  BY DEF Fresh, Saves
<1>3. SavesMoney(p, Changed(p, m, e)) = MoneyIn(K) /\ SavesItems(p, Changed(p, m, e)) = {x.item : x \in K} \ {None}
  BY DEF SavesMoney, SavesItems, Marked
<1>5. sunk' = sunk + MoneyIn(K) /\ LosesItems(K)
  BY <1>3, MailAssumption DEF LosesItems
<1> HIDE DEF K
<1>6. Settled \in SUBSET MailSet /\ IsFiniteSet(Settled) /\ IsFiniteSet(K) /\ K \in SUBSET MailSet
  <2>1. Settled \in SUBSET MailSet /\ IsFiniteSet(Settled)
    BY SettledType DEF TypeInv
  <2>2. IsFiniteSet(K)
    BY <2>1, <1>2, FS_Subset
  <2> QED BY <2>1, <2>2, <1>2
<1>7. \A x \in MailSet : x.money \in Int
  BY DEF MailSet
<1>8. MoneyIn(Gone) = m.money + MoneyIn(K) /\ MoneyIn(K) \in Int
  <2>1. K \cup {m} = Gone
    OBVIOUS
  <2>2. \A x \in K \cup {m} : x.money \in Int
    BY <1>2, <1>6, <1>7
  <2>3. MoneyIn(K \cup {m}) = m.money + MoneyIn(K)
    BY <2>2, <1>2, <1>6, MoneyAdd
  <2>4. MoneyIn(K) \in Int
    BY <2>2, <1>6, MoneyInt
  <2> QED BY <2>1, <2>3, <2>4
<1>9. MoneyIn(New) = e.money + MoneyIn(N) /\ MoneyIn(N) \in Int
  <2>1. N \cup {e} = New
    OBVIOUS
  <2>2. \A x \in N \cup {e} : x.money \in Int
    BY <1>0, <1>7
  <2>3. MoneyIn(N \cup {e}) = e.money + MoneyIn(N)
    BY <2>2, <1>0, <1>2, MoneyAdd
  <2>4. MoneyIn(N) \in Int
    BY <1>0, <2>2, MoneyInt
  <2> QED BY <2>1, <2>3, <2>4
<1>10. m.money \in Int /\ e.money \in Int
  BY <1>0, <1>2, <1>7
<1>11. 0 \in Int /\ MoneyIn(K) \in Int /\ dg + 0 + MoneyIn(K) = MoneyIn(Gone) - MoneyIn(New)
  BY <1>8, <1>9, <1>10
<1>14. Gone = {m} \cup K /\ New = {e} \cup N
  OBVIOUS
<1> HIDE DEF Gone, New
<1>16. \A i \in Item : Located(i)'
  BY <1>1, <1>2, <1>5, <1>14, TakeLocated
<1>17. Value(house') = Value(house) + 0
  BY ValueStays
<1> QED BY <1>2, <1>5, <1>11, <1>16, <1>17, LedgerKept

\* HandleMailTakeMoney() keeps the ledger: the mail's money is in the purse.
LEMMA TakeMoneyLedger ==
  ASSUME TypeInv, HouseInv, BoxInv, Ledger, NEW p \in Player, NEW m \in inbox[p],
         HandleMailTakeMoney(p, m), house' = house
  PROVE  Ledger'
<1> DEFINE e == MoneyTaken(m)
           N == {}
           box == Changed(p, m, e)
<1>1. HoldType /\ StoreType /\ m \in MailSet /\ inbox \in [Player -> SUBSET MailSet]
  BY DEF TypeInv, HoldType, BoxType
<1>2. e \in MailSet /\ e.money = 0 /\ e.item = m.item
  <2>1. e \in MailSet
    BY <1>1, TakenType
  <2> QED BY <2>1, <1>1 DEF MoneyTaken, MailSet
<1>3. e = Overwritten(m, e)
  BY <1>1 DEF MailSet, Overwritten, MoneyTaken
<1>4. /\ Readable(p, m) /\ gold' = [gold EXCEPT ![p] = @ + m.money]
      /\ inbox' = [inbox EXCEPT ![p] = SavedBox(p, box)]
      /\ sunk' = sunk + SavesMoney(p, box) /\ lost' = lost \cup SavesItems(p, box)
      /\ bag' = bag /\ answer' = answer
  BY DEF HandleMailTakeMoney, MoneyTaken, Changed, loginVars
<1>5. Settled' = {x \in Apply(Settled, Write(p, "update", e)) : x.id \notin IdsOf(Marked(p, box))}
  BY <1>1, TakeMoneyDoes
<1>6. Settled \cup N = Settled
  OBVIOUS
<1>7. N \in SUBSET MailSet /\ IsFiniteSet(N) /\ MoneyIn(N) = 0 /\ \A x : x \notin N
  BY FS_EmptySet, MoneyEmpty
<1> HIDE DEF N, e
<1>8. Settled' = {x \in Apply(Settled \cup N, Write(p, "update", e)) : x.id \notin IdsOf(Marked(p, box))}
  BY <1>5, <1>6
<1>9. \A q \in Player : \A x \in inbox'[q] :
        \/ q # p /\ x \in inbox[q]
        \/ q = p /\ x \in SavedBox(p, box)
        \/ x \in N /\ x.to = q
  <2> DEFINE s == SavedBox(p, box)
  <2>1. inbox' = [inbox EXCEPT ![p] = s]
    BY <1>4
  <2> HIDE DEF s
  <2>2. \A q \in Player : \A x \in inbox'[q] : (q # p /\ x \in inbox[q]) \/ (q = p /\ x \in s)
    BY <2>1, <1>1
  <2> QED BY <2>2 DEF s
<1>10. SumFunction(gold') = SumFunction(gold) + m.money /\ m.money \in Int
  <2>1. m.money \in Nat /\ gold \in [Player -> Nat]
    BY <1>1 DEF MailSet, HoldType
  <2>2. gold[p] + m.money \in Nat /\ m.money \in Int
    BY <2>1
  <2>3. gold' = [gold EXCEPT ![p] = gold[p] + m.money]
    BY <2>1, <1>4
  <2> QED BY <2>2, <2>3, GoldBy
<1>11. m.money = m.money - e.money - MoneyIn(N)
  BY <1>2, <1>7, <1>10
<1>12. Fresh(N) /\ Itemless(N)
  BY <1>7 DEF Fresh, Itemless
<1>13. Takes(p, m, e)
  BY <1>2, <1>4 DEF Takes
<1>14. Saves(p, m, e, N)
  BY <1>2, <1>3, <1>4, <1>8, <1>9 DEF Saves
<1> QED BY <1>4, <1>10, <1>11, <1>12, <1>13, <1>14, TakeLedger

\* HandleMailTakeItem() keeps the ledger: the item is in the bag, its price in a mail to the sender.
LEMMA TakeItemLedger ==
  ASSUME TypeInv, HouseInv, BoxInv, Ledger, NEW p \in Player, NEW m \in inbox[p],
         HandleMailTakeItem(p, m), house' = house
  PROVE  Ledger'
<1> DEFINE e == ItemTaken(m)
           D == CodDrafts(p, m)
           N == Numbered(D)
           box == Changed(p, m, e)
           cod == m.cod
<1>1. HoldType /\ StoreType /\ m \in MailSet /\ inbox \in [Player -> SUBSET MailSet]
  BY DEF TypeInv, HoldType, BoxType
<1>2. e \in MailSet /\ e.money = m.money /\ e.item = None
  <2>1. e \in MailSet
    BY <1>1, TakenType
  <2> QED BY <2>1, <1>1 DEF ItemTaken, MailSet
<1>3. e = Overwritten(m, e)
  BY <1>1 DEF MailSet, Overwritten, ItemTaken
<1>4. /\ Readable(p, m) /\ gold' = [gold EXCEPT ![p] = @ - m.cod] /\ gold[p] >= cod
      /\ bag' = [bag EXCEPT ![p] = @ \cup {m.item}] /\ m.item # None
      /\ sunk' = sunk + SavesMoney(p, box) /\ lost' = lost \cup SavesItems(p, box)
      /\ answer' = answer
  BY DEF HandleMailTakeItem, ItemTaken, Changed, loginVars
<1>5. /\ MayPost(D)
      /\ inbox' = Received([inbox EXCEPT ![p] = SavedBox(p, box)], N)
      /\ Settled' = {x \in Apply(Settled \cup N, Write(p, "update", e)) : x.id \notin IdsOf(Marked(p, box))}
  BY <1>1, TakeItemDoes
<1>6. D \in SUBSET DraftSet /\ IsFiniteSet(D)
  BY <1>1, DraftsType
<1>7. cod \in Nat /\ m.money \in Int
  BY <1>1 DEF MailSet
<1>8. \A d \in D : d.item = None
  BY DEF CodDrafts, Draft
<1>9. MoneyIn(D) = cod
  <2> DEFINE d == Draft(m.from, p, None, m.cod, 0, TRUE, TRUE)
  <2>1. CASE cod > 0
    <3>1. D = {d} /\ d.money = cod
      BY <2>1 DEF CodDrafts, Draft
    <3> HIDE DEF d
    <3>2. MoneyIn({d}) = d.money
      BY <3>1, <1>7, MoneyOne
    <3> QED BY <3>1, <3>2
  <2>2. CASE cod = 0
    <3>1. D = {}
      BY <2>2 DEF CodDrafts
    <3> QED BY <2>2, <3>1, MoneyEmpty
  <2> QED BY <2>1, <2>2, <1>7
<1> HIDE DEF D, e
<1>10. /\ N \in SUBSET MailSet /\ IsFiniteSet(N)
       /\ \A x \in N : x.id \in FreeIds
       /\ \A x, y \in N : x.id = y.id => x = y
       /\ \A x \in N : \E d \in D : x = WithId(d, x.id)
  BY <1>5, <1>6, NumberedType
<1>11. MoneyIn(N) = cod
  BY <1>5, <1>6, <1>9, MoneyNumbered
<1>12. \A x \in N : x.item = None
  <2>1. \A d, n : WithId(d, n).item = d.item
    BY DEF WithId
  <2> QED BY <2>1, <1>8, <1>10
<1> HIDE DEF N
<1>13. \A q \in Player : \A x \in inbox'[q] :
         \/ q # p /\ x \in inbox[q]
         \/ q = p /\ x \in SavedBox(p, box)
         \/ x \in N /\ x.to = q
  <2> DEFINE s == SavedBox(p, box)
             boxes == [inbox EXCEPT ![p] = s]
  <2>1. inbox' = Received(boxes, N)
    BY <1>5
  <2>2. \A q \in Player : boxes[q] = IF q = p THEN s ELSE inbox[q]
    BY <1>1
  <2> HIDE DEF s, boxes
  <2>3. \A q \in Player : \A x \in inbox'[q] : x \in boxes[q] \/ (x \in N /\ x.to = q)
    BY <2>1, ReceivedAdds
  <2>4. \A q \in Player : \A x \in inbox'[q] : (q # p /\ x \in inbox[q]) \/ (q = p /\ x \in s) \/ (x \in N /\ x.to = q)
    BY <2>2, <2>3
  <2> QED BY <2>4 DEF s
<1> DEFINE dg == -cod
<1>14. SumFunction(gold') = SumFunction(gold) + dg /\ dg \in Int
  <2>1. gold \in [Player -> Nat]
    BY <1>1 DEF HoldType
  <2>2. gold[p] + dg \in Nat /\ dg \in Int
    BY <2>1, <1>4, <1>7
  <2>3. gold' = [gold EXCEPT ![p] = gold[p] + dg]
    BY <2>1, <1>4, <1>7
  <2> HIDE DEF dg
  <2> QED BY <2>2, <2>3, GoldBy
<1>15. dg = m.money - e.money - MoneyIn(N)
  BY <1>2, <1>7, <1>11
<1>16. Takes(p, m, e)
  BY <1>2, <1>4 DEF Takes
<1>17. Saves(p, m, e, N)
  BY <1>2, <1>3, <1>4, <1>5, <1>13 DEF Saves
<1>18. Fresh(N) /\ Itemless(N)
  BY <1>10, <1>12 DEF Fresh, Itemless
<1> HIDE DEF dg, cod
<1> QED BY <1>4, <1>14, <1>15, <1>16, <1>17, <1>18, TakeLedger

\* The marked mails of a mailbox are deleted.
LEMMA SaveLedger ==
  ASSUME TypeInv, HouseInv, BoxInv, Ledger, NEW p \in Player,
         NEW next \in SUBSET SavedBox(p, inbox[p]), SaveMailbox(p, next), rows' = rows,
         UNCHANGED <<holdVars, answer, house>>
  PROVE  Ledger'
<1> DEFINE K == Marked(p, inbox[p])
           none == {}
<1>1. StoreInv /\ ItemInv
  BY DEF Ledger
<1>2. HoldType /\ StoreType /\ inbox[p] \in SUBSET MailSet /\ IsFiniteSet(inbox[p])
  BY DEF TypeInv, HoldType, BoxType
<1>3. /\ Online(p) /\ inbox' = [inbox EXCEPT ![p] = next] /\ answer' = answer
      /\ sunk' = sunk + SavesMoney(p, inbox[p]) /\ lost' = lost \cup SavesItems(p, inbox[p])
  BY DEF SaveMailbox
<1>4. next \in SUBSET MailSet /\ IsFiniteSet(next)
  <2>1. SavedBox(p, inbox[p]) \in SUBSET MailSet /\ IsFiniteSet(SavedBox(p, inbox[p]))
    BY <1>2, SavedBoxType
  <2> QED BY <2>1, FS_Subset
<1>5. Settled' = {x \in Settled : x.id \notin IdsOf(Marked(p, inbox[p]))}
  BY <1>2, <1>4, SaveMailboxDoes
<1>6. Turns(K, none) /\ Follows(none)
  BY <1>1, <1>3, <1>5, SaveTurns
<1>7. sunk' = sunk + MoneyIn(K) /\ lost' = lost \cup ({x.item : x \in K} \ {None})
  BY <1>3 DEF SavesMoney, SavesItems, Marked
<1>8. K \in SUBSET MailSet /\ IsFiniteSet(K)
  BY <1>2, SavedBoxType
<1>9. \A i \in Item : i \in lost' <=> i \in lost \/ \E x \in K : x.item = i
  BY <1>7, MailAssumption
<1>10. MoneyIn(K) \in Int /\ MoneyIn(none) = 0
  <2>1. \A x \in K : x.money \in Int
    BY <1>8 DEF MailSet
  <2> HIDE DEF K
  <2> QED BY <2>1, <1>8, MoneyInt, MoneyEmpty
<1>11. bag' = bag /\ house' = house /\ gold' = gold
  BY DEF holdVars
<1>12. \A i : Carriers(i, none) = {}
  BY DEF Carriers
<1> HIDE DEF K, none
<1>13. ASSUME NEW i \in Item PROVE Located(i)'
  <2>1. Owners(i, bag') = Owners(i, bag)
    BY <1>11
  <2>2. CASE \E x \in K : x.item = i
    <3>1. PICK x \in K : x.item = i
      BY <2>2
    <3>2. Owners(i, bag) = {} /\ house[i] = NoAuction /\ Carriers(i, Settled') = Carriers(i, none)
      BY <3>1, <1>1, <1>6, MailLeft
    <3>3. i \in lost'
      BY <3>1, <1>9
    <3>4. Carriers(i, Settled') = {} /\ house'[i] = NoAuction /\ Owners(i, bag') = {}
      BY <3>2, <2>1, <1>11, <1>12
    <3> QED BY <3>3, <3>4, NowLost
  <2>3. CASE ~\E x \in K : x.item = i
    <3>1. i \in lost' <=> i \in lost
      BY <2>3, <1>9
    <3>2. Carriers(i, K) = {}
      BY <2>3 DEF Carriers
    <3>3. Carriers(i, none) = Carriers(i, K)
      BY <3>2, <1>12
    <3> QED BY <2>1, <3>1, <3>3, <1>1, <1>6, <1>11, MailStays
  <2> QED BY <2>2, <2>3
<1>14. SumFunction(gold') = SumFunction(gold) + 0 /\ Value(house') = Value(house) + 0
  BY <1>11, GoldStays, ValueStays
<1>15. 0 \in Int /\ 0 + 0 + MoneyIn(K) = MoneyIn(K) - MoneyIn(none)
  BY <1>10
<1> QED BY <1>6, <1>7, <1>10, <1>13, <1>14, <1>15, LedgerKept

\* A mail that is returned goes to its sender as another, or what it held is lost.
LEMMA ReturnLedger ==
  ASSUME TypeInv, HouseInv, BoxInv, Ledger, NEW p \in Player, NEW m \in inbox[p],
         HandleMailReturnToSender(p, m), house' = house
  PROVE  Ledger'
<1> DEFINE D == BackDrafts(p, m)
           N == Numbered(D)
           Gone == {m}
           ds == IF GoesBack(m) THEN 0 ELSE m.money
           k == m.money
<1>1. StoreInv /\ ItemInv
  BY DEF Ledger
<1>2. HoldType /\ StoreType /\ m \in MailSet
  BY DEF TypeInv, HoldType, BoxType
<1>3. /\ Online(p) /\ answer' = answer /\ gold' = gold /\ bag' = bag
      /\ sunk' = sunk + ds
      /\ lost' = lost \cup (IF GoesBack(m) THEN {} ELSE {m.item} \ {None})
  BY DEF HandleMailReturnToSender, Readable, GoesBack, loginVars, holdVars
<1>4. /\ MayPost(D)
      /\ inbox' = Received([inbox EXCEPT ![p] = @ \ {m}], N)
      /\ Settled' = {x \in Settled : x.id # m.id} \cup N
  BY <1>2, ReturnDoes
<1>5. D \in SUBSET DraftSet /\ IsFiniteSet(D)
  BY <1>2, DraftsType
<1>6. k \in Int /\ m.item \in Item \cup {None}
  BY <1>2 DEF MailSet
<1>7. MoneyIn(D) = IF GoesBack(m) THEN k ELSE 0
  <2> DEFINE d == Draft(m.from, p, m.item, m.money, 0, TRUE, TRUE)
  <2>1. CASE GoesBack(m)
    <3>1. D = {d} /\ d.money = k
      BY <2>1 DEF BackDrafts, Draft
    <3> HIDE DEF d
    <3>2. MoneyIn({d}) = d.money
      BY <3>1, <1>6, MoneyOne
    <3> QED BY <2>1, <3>1, <3>2
  <2>2. CASE ~GoesBack(m)
    <3>1. D = {}
      BY <2>2 DEF BackDrafts
    <3> QED BY <2>2, <3>1, MoneyEmpty
  <2> QED BY <2>1, <2>2
<1>8. /\ GoesBack(m) => \E d \in D : d.item = m.item
      /\ ~GoesBack(m) => D = {}
      /\ \A d \in D : d.item = m.item
      /\ \A d, e \in D : d = e
  <2> DEFINE b == Draft(m.from, p, m.item, m.money, 0, TRUE, TRUE)
  <2>1. b.item = m.item
    BY DEF Draft
  <2>2. D = IF GoesBack(m) THEN {b} ELSE {}
    BY DEF BackDrafts
  <2> HIDE DEF b, D
  <2> QED BY <2>1, <2>2
<1> HIDE DEF D
<1>9. N \in SUBSET MailSet /\ IsFiniteSet(N) /\ (\A x \in N : x.id \in FreeIds)
      /\ (\A x, y \in N : x.id = y.id => x = y)
  BY <1>4, <1>5, NumberedType
<1>10. MoneyIn(N) = IF GoesBack(m) THEN k ELSE 0
  BY <1>4, <1>5, <1>7, MoneyNumbered
<1>11. \A i : m.item # i => Carriers(i, N) = {}
  BY <1>4, <1>5, <1>8, CarriersNumbered
<1>12. GoesBack(m) => \E n \in Nat : Carriers(m.item, N) = {n}
  BY <1>4, <1>5, <1>8, CarriersNumbered
<1>13. ~GoesBack(m) => Carriers(m.item, N) = {}
  <2> SUFFICES ASSUME ~GoesBack(m) PROVE Carriers(m.item, N) = {}
    OBVIOUS
  <2>1. \A d \in D : d.item # m.item
    BY <1>8
  <2> QED BY <2>1, <1>4, <1>5, CarriersNumbered
<1> HIDE DEF N
<1>14. Turns(Gone, N) /\ Follows(N)
  BY <1>1, <1>3, <1>4, <1>9, ReturnTurns
<1>15. MoneyIn(Gone) = k
  BY <1>6, MoneyOne
<1>16. \A i : m.item # i => Carriers(i, Gone) = {}
  BY DEF Carriers
<1>17. m \in Gone
  OBVIOUS
<1> HIDE DEF Gone
<1>18. ASSUME NEW i \in Item PROVE Located(i)'
  <2>0. Owners(i, bag') = Owners(i, bag) /\ (house'[i] # NoAuction <=> house[i] # NoAuction)
    BY <1>3
  <2>1. CASE m.item # i
    <3>1. i \in lost' <=> i \in lost
      BY <2>1, <1>3
    <3>2. Carriers(i, N) = Carriers(i, Gone)
      BY <2>1, <1>11, <1>16
    <3> QED BY <2>0, <3>1, <3>2, <1>1, <1>14, MailStays
  <2>2. CASE m.item = i
    <3>1. Owners(i, bag) = {} /\ house[i] = NoAuction /\ i \notin lost /\ Carriers(i, Settled') = Carriers(i, N)
      BY <2>2, <1>1, <1>14, <1>17, MailLeft
    <3>2. Owners(i, bag') = {} /\ house'[i] = NoAuction
      BY <2>0, <3>1
    <3>3. CASE GoesBack(m)
      <4>1. PICK n \in Nat : Carriers(i, N) = {n}
        BY <3>3, <2>2, <1>12
      <4>2. i \notin lost'
        BY <3>1, <3>3, <1>3
      <4> QED BY <3>1, <3>2, <4>1, <4>2, NowInMail
    <3>4. CASE ~GoesBack(m)
      <4>1. i \in lost'
        BY <2>2, <3>4, <1>3, MailAssumption
      <4>2. Carriers(i, Settled') = {}
        BY <2>2, <3>1, <3>4, <1>13
      <4> QED BY <3>2, <4>1, <4>2, NowLost
    <3> QED BY <3>3, <3>4
  <2> QED BY <2>1, <2>2
<1>19. SumFunction(gold') = SumFunction(gold) + 0 /\ Value(house') = Value(house) + 0
  BY <1>3, GoldStays, ValueStays
<1>20. 0 \in Int /\ ds \in Int /\ 0 + 0 + ds = MoneyIn(Gone) - MoneyIn(N)
  BY <1>6, <1>10, <1>15
<1> HIDE DEF ds, k
<1> QED BY <1>3, <1>14, <1>18, <1>19, <1>20, LedgerKept

\* An expired mail is deleted, or goes back.
LEMMA JobLedger ==
  ASSUME TypeInv, HouseInv, BoxInv, Ledger, NEW m \in MailSet, NEW op \in {"delete", "return"},
         JobWrite(Write(None, op, m)), ~overtaken', ~Online(m.to),
         rows' = rows, UNCHANGED <<holdVars, loginVars, boxVars, house>>
  PROVE  Ledger'
<1> DEFINE Gone == {m}
           Back == {Returned(m)}
           none == {}
           k == m.money
<1>1. StoreInv /\ ItemInv
  BY DEF Ledger
<1>2. /\ gold' = gold /\ bag' = bag /\ house' = house /\ UNCHANGED <<loginVars, boxVars>>
  BY DEF holdVars
<1>3. /\ sunk' = sunk + (IF op = "delete" THEN k ELSE 0)
      /\ lost' = lost \cup (IF op = "delete" THEN {m.item} \ {None} ELSE {})
  BY DEF JobWrite, Write
<1>4. /\ m \in Settled
      /\ Returned(m) \in MailSet /\ Returned(m).id = m.id
      /\ Returned(m).item = m.item /\ Returned(m).money = m.money
      /\ op = "delete" => Turns({m}, {}) /\ Follows({})
      /\ op = "return" => Turns({m}, {Returned(m)}) /\ Follows({Returned(m)})
  BY <1>1, <1>2, JobTurns
<1>5. /\ op = "delete" => Turns(Gone, none) /\ Follows(none)
      /\ op = "return" => Turns(Gone, Back) /\ Follows(Back)
  BY <1>4
<1>6. k \in Int
  BY DEF MailSet
<1>7. MoneyIn(Gone) = k /\ MoneyIn(none) = 0
  BY <1>6, MoneyOne, MoneyEmpty
<1>8. MoneyIn(Back) = k
  <2> DEFINE r == Returned(m)
  <2>1. r.money = k
    BY <1>4
  <2> HIDE DEF r
  <2>2. MoneyIn({r}) = r.money
    BY <2>1, <1>6, MoneyOne
  <2> QED BY <2>1, <2>2 DEF r
<1>9. \A i : Carriers(i, Back) = Carriers(i, Gone) /\ Carriers(i, none) = {}
  BY <1>4 DEF Carriers
<1>10. \A i : m.item # i => Carriers(i, Gone) = {}
  BY DEF Carriers
<1>11. m \in Gone
  OBVIOUS
<1> HIDE DEF Gone, Back, none
<1>12. SumFunction(gold') = SumFunction(gold) + 0 /\ Value(house') = Value(house) + 0
  BY <1>2, GoldStays, ValueStays
<1>13. CASE op = "delete"
  <2>1. ASSUME NEW i \in Item PROVE Located(i)'
    <3>0. Owners(i, bag') = Owners(i, bag) /\ (house'[i] # NoAuction <=> house[i] # NoAuction)
      BY <1>2
    <3>1. CASE m.item # i
      <4>1. i \in lost' <=> i \in lost
        BY <1>3, <3>1
      <4>2. Carriers(i, none) = Carriers(i, Gone)
        BY <1>9, <1>10, <3>1
      <4> QED BY <3>0, <4>1, <4>2, <1>1, <1>5, <1>13, MailStays
    <3>2. CASE m.item = i
      <4>1. Owners(i, bag) = {} /\ house[i] = NoAuction /\ Carriers(i, Settled') = Carriers(i, none)
        BY <3>2, <1>1, <1>5, <1>11, <1>13, MailLeft
      <4>2. i \in lost'
        BY <1>3, <1>13, <3>2, MailAssumption
      <4>3. Owners(i, bag') = {} /\ house'[i] = NoAuction /\ Carriers(i, Settled') = {}
        BY <3>0, <4>1, <1>9
      <4> QED BY <4>2, <4>3, NowLost
    <3> QED BY <3>1, <3>2
  <2>2. sunk' = sunk + k /\ 0 \in Int /\ 0 + 0 + k = MoneyIn(Gone) - MoneyIn(none)
    BY <1>3, <1>6, <1>7, <1>13
  <2> HIDE DEF k
  <2> QED BY <2>1, <2>2, <1>5, <1>6, <1>12, <1>13, LedgerKept
<1>14. CASE op = "return"
  <2>1. ASSUME NEW i \in Item PROVE Located(i)'
    <3>1. Owners(i, bag') = Owners(i, bag) /\ (house'[i] # NoAuction <=> house[i] # NoAuction)
          /\ (i \in lost' <=> i \in lost)
      BY <1>2, <1>3, <1>14
    <3>2. Carriers(i, Back) = Carriers(i, Gone)
      BY <1>9
    <3> QED BY <3>1, <3>2, <1>1, <1>5, <1>14, MailStays
  <2>2. sunk' = sunk + 0 /\ 0 \in Int /\ 0 + 0 + 0 = MoneyIn(Gone) - MoneyIn(Back)
    BY <1>3, <1>6, <1>7, <1>8, <1>14
  <2> HIDE DEF k
  <2> QED BY <2>1, <2>2, <1>5, <1>12, <1>14, LedgerKept
<1> QED BY <1>13, <1>14

\* Among drafts the item of an auction that ends is in one, that of one that goes on in none.
Carrying(i, a, drafts) ==
  \/ a # NoAuction /\ \A d \in drafts : d.item = None
  \/ a = NoAuction /\ \E d \in drafts : d.item = i /\ \A e \in drafts : e = d \/ e.item = None

\* The money that is paid, and what is not because the receiver is hardcore.
LEMMA PaidMoney ==
  ASSUME NEW D \in SUBSET DraftSet, IsFiniteSet(D), NEW C \in SUBSET DraftSet, IsFiniteSet(C), D \cap C = {}
  PROVE  /\ MoneyIn(D) \in Int /\ MoneyIn(C) \in Int /\ MoneyIn(Forfeited(D)) \in Int
         /\ MoneyIn(Paid(D, C)) = MoneyIn(D) + MoneyIn(C) - MoneyIn(Forfeited(D))
<1> DEFINE L == Forfeited(D)
           R == D \ L
<1>1. L \in SUBSET D /\ R \in SUBSET D /\ R \cup L = D /\ R \cap L = {} /\ R \cap C = {}
      /\ Paid(D, C) = R \cup C
  BY DEF Forfeited, Paid
<1> HIDE DEF R, L
<1>2. IsFiniteSet(L) /\ IsFiniteSet(R)
  BY <1>1, FS_Subset
<1>3. \A d \in DraftSet : d.money \in Int
  BY DEF DraftSet
<1>4. (\A d \in R \cup L : d.money \in Int) /\ (\A d \in R \cup C : d.money \in Int)
      /\ (\A d \in L : d.money \in Int) /\ (\A d \in R : d.money \in Int) /\ (\A d \in C : d.money \in Int)
  BY <1>1, <1>3
<1>5. MoneyIn(R \cup L) = MoneyIn(R) + MoneyIn(L)
  BY <1>1, <1>2, <1>4, MoneySplit
<1>6. MoneyIn(R \cup C) = MoneyIn(R) + MoneyIn(C)
  BY <1>1, <1>2, <1>4, MoneySplit
<1>7. MoneyIn(R) \in Int /\ MoneyIn(L) \in Int /\ MoneyIn(C) \in Int
  BY <1>2, <1>4, MoneyInt
<1>8. MoneyIn(D) = MoneyIn(R) + MoneyIn(L) /\ MoneyIn(Paid(D, C)) = MoneyIn(R) + MoneyIn(C)
  BY <1>1, <1>5, <1>6
<1> DEFINE r == MoneyIn(R)
           l == MoneyIn(L)
           c == MoneyIn(C)
<1>9. r \in Int /\ l \in Int /\ c \in Int /\ MoneyIn(D) = r + l /\ MoneyIn(Paid(D, C)) = r + c
  BY <1>7, <1>8
<1> HIDE DEF r, l, c
<1>10. MoneyIn(D) \in Int /\ c \in Int /\ l \in Int /\ MoneyIn(Paid(D, C)) = MoneyIn(D) + c - l
  BY <1>9
<1> QED BY <1>10 DEF c, l, L

\* Where the items are after an auction paid.
LEMMA PayLocated ==
  ASSUME ItemInv, StoreInv, NEW D \in SUBSET DraftSet, IsFiniteSet(D),
         NEW C \in SUBSET DraftSet, IsFiniteSet(C), D \cap C = {},
         Turns({}, Numbered(Paid(D, C))), Paid(D, C) \in SUBSET DraftSet,
         IsFiniteSet(Paid(D, C)), MayPost(Paid(D, C)),
         lost' = lost \cup ({d.item : d \in Forfeited(D)} \ {None}), bag' = bag,
         NEW i \in Item, NEW a, house \in [Item -> {NoAuction} \cup AuctionSet],
         house' = [house EXCEPT ![i] = a], house[i] # NoAuction,
         Carrying(i, a, D \cup C), NEW j \in Item
  PROVE  Located(j)'
<1> DEFINE L == Forfeited(D)
           E == Paid(D, C)
           N == Numbered(E)
           none == {}
<1>1. \A d : d \in E <=> (d \in D /\ d \notin L) \/ d \in C
  BY DEF Paid
<1>2. \A d \in L : d \in D /\ d \notin C
  BY DEF Forfeited
<1>3. \A k \in Item : k \in lost' <=> k \in lost \/ \E d \in L : d.item = k
  BY MailAssumption
<1>4. Turns(none, N) /\ E \in SUBSET DraftSet /\ IsFiniteSet(E) /\ MayPost(E)
  OBVIOUS
<1>5. Owners(j, bag') = Owners(j, bag)
  OBVIOUS
<1>6. Carriers(j, none) = {}
  BY DEF Carriers
<1> HIDE DEF L, E, none
<1>7. /\ (\A d \in E : d.item # j) => Carriers(j, N) = {}
      /\ \A d \in E : d.item = j /\ (\A e \in E : e.item = j => e = d)
           => \E n \in Nat : Carriers(j, N) = {n}
  BY <1>4, CarriersNumbered
<1> HIDE DEF N
<1>8. CASE j # i
  <2>1. \A d \in D \cup C : d.item # j
    BY <1>8, MailAssumption DEF Carrying
  <2>2. Carriers(j, N) = Carriers(j, none)
    BY <2>1, <1>1, <1>6, <1>7
  <2>3. j \in lost' <=> j \in lost
    BY <2>1, <1>2, <1>3
  <2>4. house'[j] # NoAuction <=> house[j] # NoAuction
    BY <1>8
  <2> QED BY <2>2, <2>3, <2>4, <1>4, <1>5, MailStays
<1>9. CASE j = i
  <2>1. Owners(j, bag) = {} /\ Carriers(j, Settled) = {} /\ j \notin lost
    BY <1>9, InHouse
  <2>2. Carriers(j, Settled') = Carriers(j, N)
    BY <2>1, <1>4, MailCame
  <2>3. house'[j] = a
    BY <1>9
  <2>4. CASE a # NoAuction
    <3>1. \A d \in D \cup C : d.item # j
      BY <2>4, MailAssumption DEF Carrying
    <3>2. Carriers(j, N) = {}
      BY <3>1, <1>1, <1>7
    <3>3. j \notin lost'
      BY <3>1, <2>1, <1>2, <1>3
    <3> QED BY <2>1, <2>2, <2>3, <2>4, <3>2, <3>3, <1>5, NowInHouse
  <2>5. CASE a = NoAuction
    <3>1. PICK d \in D \cup C : d.item = j /\ \A e \in D \cup C : e = d \/ e.item = None
      BY <2>5, <1>9 DEF Carrying
    <3>2. \A e \in D \cup C : e.item = j => e = d
      BY <3>1, MailAssumption
    <3>3. CASE d \in L
      <4>1. \A e \in E : e.item # j
        BY <3>2, <3>3, <1>1, <1>2
      <4>2. Carriers(j, N) = {}
        BY <4>1, <1>7
      <4>3. j \in lost'
        BY <3>1, <3>3, <1>3
      <4> QED BY <4>2, <4>3, <2>1, <2>2, <2>3, <2>5, <1>5, NowLost
    <3>4. CASE d \notin L
      <4>1. d \in E /\ d.item = j /\ \A e \in E : e.item = j => e = d
        BY <3>1, <3>2, <3>4, <1>1
      <4>2. PICK n \in Nat : Carriers(j, N) = {n}
        BY <4>1, <1>7
      <4>3. j \notin lost'
        BY <3>2, <3>4, <2>1, <1>2, <1>3
      <4> QED BY <4>2, <4>3, <2>1, <2>2, <2>3, <2>5, <1>5, NowInMail
    <3> QED BY <3>3, <3>4
  <2> QED BY <2>4, <2>5
<1> QED BY <1>8, <1>9

\* What an auction pays is what it held and what its bidder pays.
LEMMA PayLedger ==
  ASSUME TypeInv, HouseInv, Ledger, NEW D \in SUBSET DraftSet, IsFiniteSet(D),
         NEW C \in SUBSET DraftSet, IsFiniteSet(C), D \cap C = {}, NEW taken \in Int,
         Pay(D, C, taken), rows' = rows, answer' = answer, bag' = bag,
         NEW i \in Item, NEW a \in {NoAuction} \cup AuctionSet,
         house' = [house EXCEPT ![i] = a], house[i] # NoAuction,
         Carrying(i, a, D \cup C), NEW dg \in Int, SumFunction(gold') = SumFunction(gold) + dg,
         dg + (WorthOf(a) - WorthOf(house[i])) + taken + MoneyIn(D) + MoneyIn(C) = 0
  PROVE  Ledger'
<1> DEFINE N == Numbered(Paid(D, C))
           none == {}
           dv == WorthOf(a) - WorthOf(house[i])
           ds == taken + MoneyIn(Forfeited(D))
<1>1. StoreInv /\ ItemInv
  BY DEF Ledger
<1>2. house \in [Item -> {NoAuction} \cup AuctionSet]
  BY DEF HouseInv
<1>3. Turns({}, Numbered(Paid(D, C))) /\ Follows(Numbered(Paid(D, C)))
      /\ Paid(D, C) \in SUBSET DraftSet /\ IsFiniteSet(Paid(D, C)) /\ MayPost(Paid(D, C))
  BY <1>1, PayTurns
<1>4. sunk' = sunk + taken + MoneyIn(Forfeited(D)) /\ lost' = lost \cup ({d.item : d \in Forfeited(D)} \ {None})
  BY DEF Pay, Forfeited
<1>5. \A j \in Item : Located(j)'
  BY <1>1, <1>2, <1>3, <1>4, PayLocated
<1>6. Value(house') = Value(house) + dv /\ dv \in Int
  <2>1. WorthOf(a) \in Int
    BY WorthType
  <2>2. WorthOf(house[i]) \in Int
    BY <1>2, WorthType
  <2>3. Value(house') = Value(house) + (WorthOf(a) - WorthOf(house[i]))
    BY ValueSet
  <2> QED BY <2>1, <2>2, <2>3
<1>7. /\ MoneyIn(D) \in Int /\ MoneyIn(C) \in Int /\ MoneyIn(Forfeited(D)) \in Int
      /\ MoneyIn(Paid(D, C)) = MoneyIn(D) + MoneyIn(C) - MoneyIn(Forfeited(D))
  BY PaidMoney
<1>8. MoneyIn(N) = MoneyIn(Paid(D, C)) /\ MoneyIn(none) = 0
  BY <1>3, MoneyNumbered, MoneyEmpty
<1>9. Turns(none, N) /\ Follows(N)
  BY <1>3
<1>10. dg + dv + taken + MoneyIn(D) + MoneyIn(C) = 0
  OBVIOUS
<1> HIDE DEF N, none, dv
<1>11. ds \in Int /\ sunk' = sunk + ds
  <2>1. sunk \in Int
    BY DEF TypeInv, StoreType
  <2> QED BY <2>1, <1>4, <1>7
<1>12. dg + dv + ds = MoneyIn(none) - MoneyIn(N)
  BY <1>6, <1>7, <1>8, <1>10
<1> HIDE DEF ds
<1> QED BY <1>5, <1>6, <1>9, <1>11, <1>12, LedgerKept

\* The drafts of an auction, as to whom they go and what they carry.
LEMMA AuctionMailIs ==
  ASSUME NEW to, NEW item, NEW money
  PROVE  /\ AuctionMail(to, item, money).to = to /\ AuctionMail(to, item, money).item = item
         /\ AuctionMail(to, item, money).money = money
BY DEF AuctionMail, Draft

\* The refund of an auction is its bid.
LEMMA RefundsMoney ==
  ASSUME NEW a \in AuctionSet, a.bidder = None <=> a.bid = 0
  PROVE  MoneyIn(Refunds(a)) = a.bid
<1> DEFINE d == AuctionMail(a.bidder, None, a.bid)
<1>1. d.money = a.bid /\ a.bid \in Int
  BY AuctionMailIs DEF AuctionSet
<1>2. Refunds(a) = IF a.bidder = None THEN {} ELSE {d}
  BY DEF Refunds
<1> HIDE DEF d
<1>3. MoneyIn({d}) = d.money
  BY <1>1, MoneyOne
<1>4. CASE a.bidder = None
  <2>1. Refunds(a) = {} /\ a.bid = 0
    BY <1>2, <1>4
  <2> QED BY <2>1, MoneyEmpty
<1>5. CASE a.bidder # None
  <2>1. Refunds(a) = {d}
    BY <1>2, <1>5
  <2> QED BY <2>1, <1>1, <1>3
<1> QED BY <1>4, <1>5

\* A bidder pays for his bid, less what he gets back for an older one.
LEMMA OverbidMoney ==
  ASSUME NEW a \in AuctionSet, a.bidder = None <=> a.bid = 0, NEW p, NEW paid \in Nat, p # None
  PROVE  Charge(a, p, paid) = paid - a.bid + MoneyIn(Overbid(a, p)) /\ MoneyIn(Overbid(a, p)) \in Int
<1>1. a.bid \in Int
  BY DEF AuctionSet
<1>2. CASE a.bidder = p
  <2>1. Overbid(a, p) = {} /\ Charge(a, p, paid) = paid - a.bid
    BY <1>2 DEF Overbid, Charge
  <2>2. MoneyIn(Overbid(a, p)) = 0
    BY <2>1, MoneyEmpty
  <2> QED BY <2>1, <2>2, <1>1
<1>3. CASE a.bidder # p
  <2>1. Overbid(a, p) = Refunds(a) /\ Charge(a, p, paid) = paid
    BY <1>3 DEF Overbid, Charge
  <2>2. MoneyIn(Overbid(a, p)) = a.bid
    BY <2>1, RefundsMoney
  <2> QED BY <2>1, <2>2, <1>1
<1> QED BY <1>2, <1>3

\* The seller's mail has the price and the deposit without the cut, the buyer's has the item.
LEMMA SoldMoney ==
  ASSUME NEW a \in AuctionSet, NEW i \in Item
  PROVE  /\ MoneyIn(AuctionDrafts(a, i)) = a.bid + a.deposit - GetAuctionCut(a)
         /\ a.bid + a.deposit - GetAuctionCut(a) \in Int
         /\ SendAuctionSuccessfulMail(a) # SendAuctionWonMail(a, i)
<1> DEFINE s == SendAuctionSuccessfulMail(a)
           w == SendAuctionWonMail(a, i)
           k == a.bid + a.deposit - GetAuctionCut(a)
<1>1. k \in Int
  <2>1. a.bid \in Nat /\ a.deposit \in Nat /\ GetAuctionCut(a) \in Nat
    BY AuctionDraftsType DEF AuctionSet
  <2> QED BY <2>1
<1>2. s.money = k /\ s.item = None
  BY AuctionMailIs DEF SendAuctionSuccessfulMail
<1>3. w.money = 0 /\ w.item = i
  BY AuctionMailIs DEF SendAuctionWonMail
<1>4. AuctionDrafts(a, i) = {s, w}
  BY DEF AuctionDrafts
<1>5. s # w
  BY <1>2, <1>3, MailAssumption
<1> HIDE DEF s, w, k
<1>6. MoneyIn({s, w}) = s.money + w.money
  BY <1>1, <1>2, <1>3, <1>5, MoneyTwo
<1>7. MoneyIn({s, w}) = k + 0
  BY <1>2, <1>3, <1>6
<1>8. k + 0 = k
  BY <1>1
<1>9. MoneyIn(AuctionDrafts(a, i)) = k
  BY <1>4, <1>7, <1>8
<1> QED BY <1>1, <1>5, <1>9 DEF k, s, w

\* An auction holds its bid and its deposit.
LEMMA WorthIs ==
  ASSUME NEW a \in AuctionSet
  PROVE  /\ WorthOf(a) = a.bid + a.deposit /\ a.bid \in Nat /\ a.deposit \in Nat
         /\ a # NoAuction /\ WorthOf(NoAuction) = 0
<1>1. a.owner \in Player
  BY DEF AuctionSet
<1>2. a # NoAuction
  BY <1>1, MailAssumption DEF NoAuction
<1> QED BY <1>2 DEF WorthOf, Worth, AuctionSet

\* An auction expires.
LEMMA UpdateLedger ==
  ASSUME TypeInv, HouseInv, Ledger, NEW i \in Item, UpdateAuction(i)
  PROVE  Ledger'
<1> DEFINE a == house[i]
           none == {}
           x == SendAuctionExpiredMail(a, i)
           one == {x}
           both == AuctionDrafts(a, i)
<1>1. /\ a \in AuctionSet /\ a # NoAuction
      /\ IF a.bidder = None THEN Pay(one, none, a.deposit) ELSE Pay(both, none, GetAuctionCut(a))
      /\ house' = [house EXCEPT ![i] = NoAuction]
      /\ gold' = gold /\ bag' = bag /\ answer' = answer /\ rows' = rows
  BY UpdateDoes DEF holdVars, loginVars
<1>2. (a.bidder = None <=> a.bid = 0)
  BY <1>1 DEF HouseInv
<1>3. one \in SUBSET DraftSet /\ IsFiniteSet(one) /\ both \in SUBSET DraftSet /\ IsFiniteSet(both)
  BY <1>1, RefundsType
<1>4. none \in SUBSET DraftSet /\ IsFiniteSet(none) /\ MoneyIn(none) = 0 /\ one \cap none = {} /\ both \cap none = {}
  BY FS_EmptySet, MoneyEmpty
<1>5. x.item = i /\ x.money = 0
  BY AuctionMailIs DEF SendAuctionExpiredMail
<1>6. MoneyIn(both) = a.bid + a.deposit - GetAuctionCut(a)
  BY <1>1, SoldMoney
<1>7. WorthOf(a) = a.bid + a.deposit /\ a.bid \in Nat /\ a.deposit \in Nat /\ WorthOf(NoAuction) = 0
  BY <1>1, WorthIs
<1>8. GetAuctionCut(a) \in Nat
  BY <1>1, AuctionDraftsType
<1>9. Carrying(i, NoAuction, one \cup none)
  BY <1>5 DEF Carrying
<1>10. Carrying(i, NoAuction, both \cup none)
  <2> DEFINE s == SendAuctionSuccessfulMail(a)
             w == SendAuctionWonMail(a, i)
  <2>1. w.item = i /\ s.item = None
    BY AuctionMailIs DEF SendAuctionSuccessfulMail, SendAuctionWonMail
  <2>2. both \cup none = {s, w}
    BY DEF AuctionDrafts
  <2> HIDE DEF s, w, both, none
  <2> QED BY <2>1, <2>2 DEF Carrying
<1>11. SumFunction(gold') = SumFunction(gold) + 0
  BY <1>1, GoldStays
<1>12. MoneyIn(one) = 0
  <2> HIDE DEF x
  <2>1. MoneyIn({x}) = x.money
    BY <1>5, MoneyOne
  <2> QED BY <2>1, <1>5
<1> HIDE DEF a, x, none, one, both
<1>13. CASE a.bidder = None
  <2>1. a.deposit \in Int /\ 0 \in Int
        /\ 0 + (WorthOf(NoAuction) - WorthOf(a)) + a.deposit + MoneyIn(one) + MoneyIn(none) = 0
    BY <1>2, <1>4, <1>7, <1>12, <1>13
  <2>2. Pay(one, none, a.deposit)
    BY <1>1, <1>13
  <2>3. 0 + (WorthOf(NoAuction) - WorthOf(house[i])) + a.deposit + MoneyIn(one) + MoneyIn(none) = 0
        /\ house[i] # NoAuction
    BY <2>1, <1>1 DEF a
  <2> QED BY <2>1, <2>2, <2>3, <1>1, <1>3, <1>4, <1>9, <1>11, PayLedger
<1>14. CASE a.bidder # None
  <2>1. GetAuctionCut(a) \in Int /\ 0 \in Int
        /\ 0 + (WorthOf(NoAuction) - WorthOf(a)) + GetAuctionCut(a) + MoneyIn(both) + MoneyIn(none) = 0
    BY <1>4, <1>6, <1>7, <1>8
  <2>2. Pay(both, none, GetAuctionCut(a))
    BY <1>1, <1>14
  <2>3. 0 + (WorthOf(NoAuction) - WorthOf(house[i])) + GetAuctionCut(a) + MoneyIn(both) + MoneyIn(none) = 0
        /\ house[i] # NoAuction
    BY <2>1, <1>1 DEF a
  <2> QED BY <2>1, <2>2, <2>3, <1>1, <1>3, <1>4, <1>10, <1>11, PayLedger
<1> QED BY <1>13, <1>14

\* An owner takes an auction back.
LEMMA RemoveLedger ==
  ASSUME TypeInv, HouseInv, Ledger, NEW p \in Player, NEW i \in Item, HandleAuctionRemoveItem(p, i)
  PROVE  Ledger'
<1> DEFINE a == house[i]
           D == Refunds(a)
           x == AuctionMail(a.owner, i, 0)
           C == {x}
           cut == CutOf(a)
           taken == a.deposit + cut
           dg == -cut
<1>0. HoldType
  BY DEF TypeInv
<1>1. /\ a \in AuctionSet /\ a # NoAuction /\ cut \in 0..gold[p]
      /\ gold' = [gold EXCEPT ![p] = @ - cut]
      /\ Pay(D, C, taken)
      /\ house' = [house EXCEPT ![i] = NoAuction]
      /\ bag' = bag /\ answer' = answer /\ rows' = rows
  BY <1>0, RemoveDoes DEF loginVars
<1>2. (a.bidder = None <=> a.bid = 0)
  BY <1>1 DEF HouseInv
<1>3. D \in SUBSET DraftSet /\ IsFiniteSet(D) /\ C \in SUBSET DraftSet /\ IsFiniteSet(C)
  BY <1>1, RefundsType
<1>4. MoneyIn(D) = a.bid
  BY <1>1, <1>2, RefundsMoney
<1>5. x.item = i /\ x.money = 0
  BY AuctionMailIs
<1>6. MoneyIn(C) = 0
  <2> HIDE DEF x
  <2>1. MoneyIn({x}) = x.money
    BY <1>5, MoneyOne
  <2> QED BY <2>1, <1>5
<1>7. \A d \in D : d.item = None
  BY AuctionMailIs DEF Refunds
<1>8. WorthOf(a) = a.bid + a.deposit /\ a.bid \in Nat /\ a.deposit \in Nat /\ WorthOf(NoAuction) = 0
  BY <1>1, WorthIs
<1>9. gold \in [Player -> Nat]
  BY <1>0 DEF HoldType
<1> HIDE DEF x, D
<1>10. D \cap C = {}
  BY <1>5, <1>7, MailAssumption
<1>11. Carrying(i, NoAuction, D \cup C)
  BY <1>5, <1>7 DEF Carrying
<1> HIDE DEF C, cut
<1>12. dg \in Int /\ gold[p] + dg \in Nat /\ gold' = [gold EXCEPT ![p] = gold[p] + dg] /\ cut \in Int
  <2>1. gold[p] \in Nat /\ cut \in Int /\ cut >= 0 /\ cut <= gold[p]
    BY <1>1, <1>9
  <2>2. dg \in Int /\ gold[p] + dg \in Nat /\ gold[p] - cut = gold[p] + dg
    BY <2>1
  <2>3. gold' = [gold EXCEPT ![p] = gold[p] - cut]
    BY <1>1
  <2> HIDE DEF dg
  <2> QED BY <2>1, <2>2, <2>3
<1> HIDE DEF dg
<1>13. SumFunction(gold') = SumFunction(gold) + dg
  BY <1>12, GoldBy
<1>14. taken \in Int /\ dg + (WorthOf(NoAuction) - WorthOf(a)) + taken + MoneyIn(D) + MoneyIn(C) = 0
  BY <1>4, <1>6, <1>8, <1>12 DEF dg
<1>15. dg + (WorthOf(NoAuction) - WorthOf(house[i])) + taken + MoneyIn(D) + MoneyIn(C) = 0 /\ house[i] # NoAuction
  BY <1>1, <1>14
<1> HIDE DEF taken, a
<1> QED BY <1>1, <1>3, <1>10, <1>11, <1>12, <1>13, <1>14, <1>15, PayLedger

\* A bid, and a bid that buys.
LEMMA OnlyBidsLedger ==
  ASSUME TypeInv, HouseInv, Ledger, NEW p \in Player, NEW i \in Item, NEW a, a = house[i],
         NEW paid \in Nat, a \in AuctionSet, a # NoAuction, WithBid(a, p, paid) \in AuctionSet,
         NEW dg \in Int, dg = -Charge(a, p, paid), SumFunction(gold') = SumFunction(gold) + dg,
         OnlyBids(p, i, a, paid), rows' = rows, answer' = answer, bag' = bag
  PROVE  Ledger'
<1> DEFINE D == Overbid(a, p)
           C == {}
           b == WithBid(a, p, paid)
           z == 0
<1>1. Pay(D, C, z) /\ house' = [house EXCEPT ![i] = b]
  BY DEF OnlyBids
<1>2. a.bidder = None <=> a.bid = 0
  BY DEF HouseInv
<1>3. D \in SUBSET DraftSet /\ IsFiniteSet(D)
  BY RefundsType
<1>4. C \in SUBSET DraftSet /\ IsFiniteSet(C) /\ MoneyIn(C) = 0 /\ D \cap C = {}
  BY FS_EmptySet, MoneyEmpty
<1>5. p # None
  BY MailAssumption
<1>6. Charge(a, p, paid) = paid - a.bid + MoneyIn(D) /\ MoneyIn(D) \in Int
  BY <1>2, <1>5, OverbidMoney
<1>7. b.bid = paid /\ b.deposit = a.deposit
  BY DEF WithBid, AuctionSet
<1>8. WorthOf(b) = b.bid + b.deposit /\ b # NoAuction
  BY WorthIs
<1>9. WorthOf(a) = a.bid + a.deposit /\ a.bid \in Nat /\ a.deposit \in Nat
  BY WorthIs
<1>10. \A d \in D \cup C : d.item = None
  BY AuctionMailIs DEF Overbid, Refunds
<1>11. Carrying(i, b, D \cup C)
  BY <1>8, <1>10 DEF Carrying
<1>12. b \in {NoAuction} \cup AuctionSet
  OBVIOUS
<1> HIDE DEF D, C, b
<1>13. z \in Int /\ dg + (WorthOf(b) - WorthOf(a)) + z + MoneyIn(D) + MoneyIn(C) = 0
  BY <1>4, <1>6, <1>7, <1>8, <1>9
<1>14. dg + (WorthOf(b) - WorthOf(house[i])) + z + MoneyIn(D) + MoneyIn(C) = 0 /\ house[i] # NoAuction
  BY <1>13
<1> HIDE DEF z
<1> QED BY <1>1, <1>3, <1>4, <1>11, <1>12, <1>13, <1>14, PayLedger

\* HandleAuctionPlaceBid() with a buyout keeps the ledger.
LEMMA BuysLedger ==
  ASSUME TypeInv, HouseInv, Ledger, NEW p \in Player, NEW i \in Item, NEW a, a = house[i],
         NEW paid \in Nat, a \in AuctionSet, a # NoAuction, WithBid(a, p, paid) \in AuctionSet,
         NEW dg \in Int, dg = -Charge(a, p, paid), SumFunction(gold') = SumFunction(gold) + dg,
         Buys(p, i, a, paid), rows' = rows, answer' = answer, bag' = bag
  PROVE  Ledger'
<1> DEFINE R == Overbid(a, p)
           b == WithBid(a, p, paid)
           S == AuctionDrafts(b, i)
           D == R \cup S
           C == {}
           cut == GetAuctionCut(b)
           s == SendAuctionSuccessfulMail(b)
           w == SendAuctionWonMail(b, i)
<1>1. Pay(D, C, cut) /\ house' = [house EXCEPT ![i] = NoAuction]
  BY DEF Buys
<1>2. (a.bidder = None <=> a.bid = 0) /\ a.bidder # a.owner
  BY DEF HouseInv
<1>3. R \in SUBSET DraftSet /\ IsFiniteSet(R)
  BY RefundsType
<1>4. S \in SUBSET DraftSet /\ IsFiniteSet(S)
  BY RefundsType
<1>5. D \in SUBSET DraftSet /\ IsFiniteSet(D)
  <2> HIDE DEF R, S
  <2> QED BY <1>3, <1>4, FS_Union
<1>6. C \in SUBSET DraftSet /\ IsFiniteSet(C) /\ MoneyIn(C) = 0 /\ D \cap C = {}
  BY FS_EmptySet, MoneyEmpty
<1>7. p # None
  BY MailAssumption
<1>8. Charge(a, p, paid) = paid - a.bid + MoneyIn(R) /\ MoneyIn(R) \in Int
  BY <1>2, <1>7, OverbidMoney
<1>9. b.bid = paid /\ b.deposit = a.deposit /\ b.owner = a.owner /\ b.bidder = p
  BY DEF WithBid, AuctionSet
<1>10. WorthOf(a) = a.bid + a.deposit /\ a.bid \in Nat /\ a.deposit \in Nat /\ WorthOf(NoAuction) = 0
  BY WorthIs
<1>11. MoneyIn(S) = b.bid + b.deposit - cut /\ cut \in Nat
  <2>1. MoneyIn(S) = b.bid + b.deposit - cut
    BY SoldMoney
  <2>2. cut \in Nat
    BY AuctionDraftsType
  <2> QED BY <2>1, <2>2
<1>12. S = {s, w} /\ s.item = None /\ s.to = a.owner /\ w.item = i
  BY <1>9, AuctionMailIs DEF AuctionDrafts, SendAuctionSuccessfulMail, SendAuctionWonMail
<1>13. \A d \in R : d.item = None /\ d.to = a.bidder
  BY AuctionMailIs DEF Overbid, Refunds
<1> HIDE DEF R, S, s, w
<1>14. R \cap S = {}
  BY <1>2, <1>12, <1>13, MailAssumption
<1>15. MoneyIn(D) = MoneyIn(R) + MoneyIn(S)
  <2>1. \A d \in R \cup S : d.money \in Int
    BY <1>3, <1>4 DEF DraftSet
  <2>2. MoneyIn(R \cup S) = MoneyIn(R) + MoneyIn(S)
    BY <2>1, <1>3, <1>4, <1>14, MoneySplit
  <2> QED BY <2>2
<1>16. Carrying(i, NoAuction, D \cup C)
  <2>1. w \in D \cup C /\ w.item = i
    BY <1>12
  <2>2. \A d \in D \cup C : d = w \/ d.item = None
    BY <1>12, <1>13
  <2> HIDE DEF D, C
  <2> QED BY <2>1, <2>2 DEF Carrying
<1> HIDE DEF D, C, b, cut
<1>17. cut \in Int /\ dg + (WorthOf(NoAuction) - WorthOf(a)) + cut + MoneyIn(D) + MoneyIn(C) = 0
  BY <1>6, <1>8, <1>9, <1>10, <1>11, <1>15
<1>18. dg + (WorthOf(NoAuction) - WorthOf(house[i])) + cut + MoneyIn(D) + MoneyIn(C) = 0 /\ house[i] # NoAuction
  BY <1>17
<1> QED BY <1>1, <1>5, <1>6, <1>16, <1>17, <1>18, PayLedger

\* HandleAuctionPlaceBid() keeps the ledger.
LEMMA BidLedger ==
  ASSUME TypeInv, HouseInv, Ledger, NEW p \in Player, NEW i \in Item, HandleAuctionPlaceBid(p, i)
  PROVE  Ledger'
<1>0. HoldType /\ StoreType
  BY DEF TypeInv
<1>1. PICK paid \in Nat :
        /\ house[i] \in AuctionSet /\ house[i] # NoAuction /\ p # house[i].owner /\ Online(p)
        /\ paid > house[i].bid /\ paid <= gold[p] /\ Charge(house[i], p, paid) \in 0..gold[p]
        /\ WithBid(house[i], p, paid) \in AuctionSet
        /\ gold' = [gold EXCEPT ![p] = @ - Charge(house[i], p, paid)]
        /\ \/ OnlyBids(p, i, house[i], paid) /\ (house[i].buyout = 0 \/ paid < house[i].buyout)
           \/ Buys(p, i, house[i], paid)
        /\ UNCHANGED <<bag, loginVars, deleted, rows, job, overtaken>>
  BY <1>0, BidDoes
<1>2. PICK a : a = house[i]
  OBVIOUS
<1>3. /\ a \in AuctionSet /\ a # NoAuction /\ WithBid(a, p, paid) \in AuctionSet
      /\ rows' = rows /\ answer' = answer /\ bag' = bag
  BY <1>1, <1>2 DEF loginVars
<1>4. Charge(a, p, paid) \in 0..gold[p] /\ gold' = [gold EXCEPT ![p] = gold[p] - Charge(a, p, paid)]
  BY <1>1, <1>2
<1>5. PICK dg \in Int : dg = -Charge(a, p, paid) /\ SumFunction(gold') = SumFunction(gold) + dg
  BY <1>4, GoldLess
<1>6. CASE OnlyBids(p, i, a, paid)
  BY <1>2, <1>3, <1>5, <1>6, OnlyBidsLedger
<1>7. CASE Buys(p, i, a, paid)
  BY <1>2, <1>3, <1>5, <1>7, BuysLedger
<1> QED BY <1>1, <1>2, <1>6, <1>7

\* An item goes from a bag to the house.
LEMMA SellLedger ==
  ASSUME TypeInv, HouseInv, Ledger, NEW p \in Player, HandleAuctionSellItem(p)
  PROVE  Ledger'
<1> DEFINE none == {}
<1>1. HoldType /\ StoreInv /\ ItemInv /\ gold \in [Player -> Nat] /\ bag \in [Player -> SUBSET Item]
  BY DEF TypeInv, HoldType, Ledger
<1>2. PICK i \in bag[p], bid \in Nat, buyout \in Nat :
        LET a == [owner |-> p, startbid |-> bid, buyout |-> buyout, bidder |-> None, bid |-> 0,
                  deposit |-> Deposit]
        IN /\ i \in Item /\ house[i] = NoAuction /\ a \in AuctionSet /\ Deposit \in 0..gold[p]
           /\ gold' = [gold EXCEPT ![p] = @ - Deposit]
           /\ bag' = [bag EXCEPT ![p] = @ \ {i}]
           /\ house' = [house EXCEPT ![i] = a]
           /\ UNCHANGED <<loginVars, boxVars, storeVars, job, lossVars, overtaken>>
  BY <1>1, SellDoes
<1> DEFINE a == [owner |-> p, startbid |-> bid, buyout |-> buyout, bidder |-> None, bid |-> 0,
                 deposit |-> Deposit]
           dg == -Deposit
           dv == Deposit
<1>3. /\ i \in Item /\ house[i] = NoAuction /\ a \in AuctionSet /\ Deposit \in 0..gold[p]
      /\ gold' = [gold EXCEPT ![p] = @ - Deposit]
      /\ bag' = [bag EXCEPT ![p] = @ \ {i}]
      /\ house' = [house EXCEPT ![i] = a]
      /\ inbox' = inbox /\ answer' = answer /\ UNCHANGED storeVars /\ sunk' = sunk /\ lost' = lost
  BY <1>2 DEF loginVars, boxVars, lossVars
<1>4. a.bid = 0 /\ a.deposit = Deposit
  OBVIOUS
<1> HIDE DEF a
<1>5. Turns(none, none) /\ Follows(none)
  <2>1. Settled' = Settled
    BY <1>3, SettledSame
  <2>2. Turns(none, none)
    BY <2>1, TurnsNothing
  <2> HIDE DEF none
  <2>3. Follows(none)
    BY <1>1, <1>3, <2>1 DEF StoreInv, Follows
  <2> QED BY <2>2, <2>3
<1>6. MoneyIn(none) = 0 /\ \A k : Carriers(k, none) = {}
  BY MoneyEmpty DEF Carriers
<1> HIDE DEF none
<1>7. SumFunction(gold') = SumFunction(gold) + dg /\ dg \in Int /\ Deposit \in Int
  <2>1. Deposit \in Int /\ Deposit >= 0 /\ Deposit <= gold[p] /\ gold[p] \in Nat
    BY <1>1, <1>3
  <2>2. dg \in Int /\ gold[p] + dg \in Nat /\ gold[p] - Deposit = gold[p] + dg
    BY <2>1
  <2> HIDE DEF dg
  <2>3. gold' = [gold EXCEPT ![p] = gold[p] + dg]
    BY <1>3, <2>2
  <2>4. SumFunction(gold') = SumFunction(gold) + dg
    BY <2>2, <2>3, GoldBy
  <2> QED BY <2>1, <2>2, <2>4
<1>8. Value(house') = Value(house) + dv
  <2>1. WorthOf(a) = a.bid + a.deposit /\ WorthOf(NoAuction) = 0 /\ a # NoAuction
    BY <1>3, WorthIs
  <2>2. Value(house') = Value(house) + (WorthOf(a) - WorthOf(house[i]))
    BY <1>3, ValueSet
  <2>3. WorthOf(a) - WorthOf(house[i]) = dv
    BY <2>1, <1>3, <1>4, <1>7
  <2> QED BY <2>2, <2>3
<1>9. a # NoAuction
  BY <1>3, WorthIs
<1>10. house \in [Item -> {NoAuction} \cup AuctionSet]
  BY DEF HouseInv
<1>11. ASSUME NEW j \in Item PROVE Located(j)'
  <2>1. CASE j = i
    <3>1. Owners(j, bag) = {p} /\ Carriers(j, Settled) = {} /\ j \notin lost
      BY <2>1, <1>1, InBag
    <3>2. \A q \in Player : j \notin bag'[q]
      <4>1. \A q \in Player : j \in bag[q] => q = p
        BY <3>1 DEF Owners
      <4> QED BY <4>1, <2>1, <1>1, <1>3
    <3>3. Owners(j, bag') = {}
      BY <3>2 DEF Owners
    <3>4. Carriers(j, Settled') = {}
      <4>1. Carriers(j, Settled') = Carriers(j, none)
        BY <3>1, <1>1, <1>5, MailCame
      <4> QED BY <4>1, <1>6
    <3>5. house'[j] # NoAuction /\ j \notin lost'
      BY <2>1, <3>1, <1>3, <1>9, <1>10
    <3> QED BY <3>3, <3>4, <3>5, NowInHouse
  <2>2. CASE j # i
    <3>1. Owners(j, bag') = Owners(j, bag)
      BY <2>2, <1>1, <1>3 DEF Owners
    <3>2. house'[j] # NoAuction <=> house[j] # NoAuction
      BY <2>2, <1>3, <1>10
    <3>3. (j \in lost' <=> j \in lost) /\ Carriers(j, none) = Carriers(j, none)
      BY <1>3
    <3> QED BY <3>1, <3>2, <3>3, <1>1, <1>5, MailStays
  <2> QED BY <2>1, <2>2
<1>12. sunk' = sunk + 0 /\ 0 \in Int
  BY <1>3 DEF TypeInv, StoreType
<1>13. dv \in Int /\ dg + dv + 0 = MoneyIn(none) - MoneyIn(none)
  BY <1>6, <1>7
<1> HIDE DEF dg, dv
<1> QED BY <1>5, <1>7, <1>8, <1>11, <1>12, <1>13, LedgerKept

\* An exchange moves money and items from one to the other.
LEMMA ExchangeLedger ==
  ASSUME TypeInv, HouseInv, TradeInv, Ledger, NEW p \in Player, Trading(p), HasMoney(p), HasMoney(trade[p].with),
         Exchange(p, trade[p].with), house' = house
  PROVE  Ledger'
<1> DEFINE none == {}
<1>1. HoldType /\ StoreInv /\ ItemInv /\ gold \in [Player -> Nat] /\ bag \in [Player -> SUBSET Item]
  BY DEF TypeInv, HoldType, Ledger
<1>2. PICK q \in Player \ {p}, given \in Nat, taken \in Nat :
        /\ q = trade[p].with /\ given <= gold[p] /\ taken <= gold[q]
        /\ gold' = [gold EXCEPT ![p] = @ - given + taken, ![q] = @ - taken + given]
        /\ gold' \in [Player -> Nat]
        /\ bag' = [bag EXCEPT ![p] = (@ \ Given(p)) \cup Given(q), ![q] = (@ \ Given(q)) \cup Given(p)]
        /\ bag' \in [Player -> SUBSET Item]
        /\ UNCHANGED <<loginVars, boxVars, storeVars, job, lossVars, overtaken>>
  BY <1>1, ExchangeDoes
<1>3. inbox' = inbox /\ answer' = answer /\ UNCHANGED storeVars /\ sunk' = sunk /\ lost' = lost
  BY <1>2 DEF loginVars, boxVars, lossVars
<1>4. Turns(none, none) /\ Follows(none)
  <2>1. Settled' = Settled
    BY <1>3, SettledSame
  <2>2. Turns(none, none)
    BY <2>1, TurnsNothing
  <2> HIDE DEF none
  <2>3. Follows(none)
    BY <1>1, <1>3, <2>1 DEF StoreInv, Follows
  <2> QED BY <2>2, <2>3
<1>5. MoneyIn(none) = 0 /\ \A k : Carriers(k, none) = {}
  BY MoneyEmpty DEF Carriers
<1> HIDE DEF none
<1>6. SumFunction(gold') = SumFunction(gold) + 0
  <2> DEFINE v == gold[p] - given + taken
             w == gold[q] - taken + given
             half == [gold EXCEPT ![p] = v]
             s == SumFunction(gold)
  <2>1. p # q /\ gold[p] \in Nat /\ gold[q] \in Nat
    BY <1>1, <1>2
  <2>2. v \in Nat /\ w \in Nat /\ (v - gold[p]) + (w - gold[q]) = 0 /\ v - gold[p] \in Int /\ w - gold[q] \in Int
    BY <2>1, <1>2
  <2>3. gold' = [gold EXCEPT ![p] = v, ![q] = w]
    BY <1>2, <2>1
  <2> HIDE DEF v, w
  <2>4. half \in [Player -> Nat] /\ half[q] = gold[q] /\ gold' = [half EXCEPT ![q] = w]
    BY <1>1, <2>1, <2>2, <2>3
  <2>5. SumFunction(half) = SumFunction(gold) + (v - gold[p])
    BY <1>1, <2>2, GoldSet
  <2> HIDE DEF half
  <2>6. SumFunction([half EXCEPT ![q] = w]) = SumFunction(half) + (w - half[q])
    BY <2>2, <2>4, GoldSet
  <2>7. s \in Int
    BY <1>1, GoldInt
  <2>8. SumFunction(gold') = (s + (v - gold[p])) + (w - gold[q])
    BY <2>4, <2>5, <2>6
  <2> HIDE DEF s
  <2>9. (s + (v - gold[p])) + (w - gold[q]) = s + 0
    BY <2>2, <2>7
  <2> QED BY <2>8, <2>9 DEF s
<1>7. Given(p) \in SUBSET bag[p] /\ Given(q) \in SUBSET bag[q] /\ p # q /\ q \in Player
  BY <1>2 DEF Given
<1>8. ASSUME NEW j \in Item PROVE Located(j)'
  <2>1. \A r \in Player : j \in bag'[r] <=>
          \/ r = p /\ ((j \in bag[p] /\ j \notin Given(p)) \/ j \in Given(q))
          \/ r = q /\ ((j \in bag[q] /\ j \notin Given(q)) \/ j \in Given(p))
          \/ r # p /\ r # q /\ j \in bag[r]
    BY <1>1, <1>2, <1>7
  <2>2. CASE j \in Given(p)
    <3>1. j \in bag[p]
      BY <2>2, <1>7
    <3>2. Owners(j, bag) = {p} /\ Carriers(j, Settled) = {} /\ house[j] = NoAuction /\ j \notin lost
      BY <3>1, <1>1, InBag
    <3>3. \A r \in Player : j \in bag[r] <=> r = p
      BY <3>2 DEF Owners
    <3>4. \A r \in Player : j \in bag'[r] <=> r = q
      BY <2>1, <2>2, <3>3, <1>7
    <3>5. Owners(j, bag') = {q}
      BY <3>4, <1>7 DEF Owners
    <3>6. Carriers(j, Settled') = Carriers(j, none)
      BY <3>2, <1>1, <1>4, MailCame
    <3>7. Carriers(j, Settled') = {} /\ house'[j] = NoAuction /\ j \notin lost'
      BY <3>2, <3>6, <1>3, <1>5
    <3> QED BY <3>5, <3>7, NowInBag
  <2>3. CASE j \in Given(q)
    <3>1. j \in bag[q]
      BY <2>3, <1>7
    <3>2. Owners(j, bag) = {q} /\ Carriers(j, Settled) = {} /\ house[j] = NoAuction /\ j \notin lost
      BY <3>1, <1>1, <1>7, InBag
    <3>3. \A r \in Player : j \in bag[r] <=> r = q
      BY <3>2 DEF Owners
    <3>4. \A r \in Player : j \in bag'[r] <=> r = p
      BY <2>1, <2>3, <3>3, <1>7
    <3>5. Owners(j, bag') = {p}
      BY <3>4 DEF Owners
    <3>6. Carriers(j, Settled') = Carriers(j, none)
      BY <3>2, <1>1, <1>4, MailCame
    <3>7. Carriers(j, Settled') = {} /\ house'[j] = NoAuction /\ j \notin lost'
      BY <3>2, <3>6, <1>3, <1>5
    <3> QED BY <3>5, <3>7, NowInBag
  <2>4. CASE j \notin Given(p) /\ j \notin Given(q)
    <3>1. \A r \in Player : j \in bag'[r] <=> j \in bag[r]
      BY <2>1, <2>4, <1>7
    <3>2. Owners(j, bag') = Owners(j, bag)
      BY <3>1 DEF Owners
    <3>3. (j \in lost' <=> j \in lost) /\ (house'[j] # NoAuction <=> house[j] # NoAuction)
          /\ Carriers(j, none) = Carriers(j, none)
      BY <1>3
    <3> QED BY <3>2, <3>3, <1>1, <1>4, MailStays
  <2> QED BY <2>2, <2>3, <2>4
<1>9. Value(house') = Value(house) + 0
  BY ValueStays
<1>10. sunk' = sunk + 0 /\ 0 \in Int
  BY <1>3 DEF TypeInv, StoreType
<1>11. 0 + 0 + 0 = MoneyIn(none) - MoneyIn(none)
  BY <1>5
<1> QED BY <1>4, <1>6, <1>8, <1>9, <1>10, <1>11, LedgerKept

\* A step that moves neither money nor items.
LEMMA QuietLedger ==
  ASSUME Ledger, Settled' = Settled, StoreInv', gold' = gold, bag' = bag, house' = house,
         sunk' = sunk, lost' = lost
  PROVE  Ledger'
<1>1. ItemInv'
  BY DEF Ledger, ItemInv, Located
<1>2. MoneyInv'
  BY DEF Ledger, MoneyInv
<1> QED BY <1>1, <1>2 DEF Ledger

\* Table and memory agree after a step that changes neither.
LEMMA SameBoxes ==
  ASSUME StoreInv, Settled' = Settled, inbox' = inbox, answer' = answer
  PROVE  StoreInv'
BY DEF StoreInv

\* Who logs in finds the mails that were read for him.
LEMMA LoginStore ==
  ASSUME TypeInv, StoreInv, NEW p \in Player, FinishLogin(p)
  PROVE  StoreInv' /\ Settled' = Settled
<1>1. inbox' = [inbox EXCEPT ![p] = answer[p]] /\ answer' = [answer EXCEPT ![p] = {}] /\ UNCHANGED storeVars
  BY DEF FinishLogin
<1>2. Settled' = Settled
  BY <1>1, SettledSame
<1>3. inbox \in [Player -> SUBSET MailSet] /\ answer \in [Player -> SUBSET MailSet]
  BY DEF TypeInv, HoldType, BoxType
<1>4. \A q \in Player : \A m \in inbox'[q] \cup answer'[q] : m \in inbox[q] \cup answer[q]
  <2>1. \A q \in Player : inbox'[q] = (IF q = p THEN answer[q] ELSE inbox[q]) /\ answer'[q] = (IF q = p THEN {} ELSE answer[q])
    BY <1>1, <1>3
  <2> QED BY <2>1
<1> QED BY <1>2, <1>4 DEF StoreInv

\* What was overtaken stays so.
LEMMA OvertakenStays ==
  ASSUME [Next]_vars, overtaken, TypeInv, HouseInv, TradeInv
  PROVE  overtaken'
<1>1. CASE Execute
  BY <1>1 DEF Execute
<1>2. CASE ReturnOrDeleteOldMails
  BY <1>2 DEF ReturnOrDeleteOldMails
<1>3. CASE OldMailsCallback \/ SingleMailCallback
  BY <1>3 DEF OldMailsCallback, SingleMailCallback, JobWrite
<1>4. ASSUME NEW p \in Player, HandleSendMail(p) \/ SendMailAnswer(p) PROVE overtaken'
  BY <1>4 DEF HandleSendMail, SendMailAnswer
<1>5. ASSUME NEW p \in Player, NEW m \in inbox[p],
             HandleMailTakeItem(p, m) \/ HandleMailTakeMoney(p, m) \/ HandleMailDelete(p, m) \/ HandleMailReturnToSender(p, m)
      PROVE  overtaken'
  BY <1>5 DEF HandleMailTakeItem, HandleMailTakeMoney, HandleMailDelete, HandleMailReturnToSender
<1>6. ASSUME NEW p \in Player, ReadMails(p) \/ FinishLogin(p) \/ SaveMails(p) \/ Logout(p) PROVE overtaken'
  BY <1>6 DEF ReadMails, FinishLogin, SaveMails, Logout, LogoutMail
<1>7. ASSUME NEW p \in Player, HandleAuctionSellItem(p) PROVE overtaken'
  BY <1>7 DEF HandleAuctionSellItem
<1>8. ASSUME NEW p \in Player, NEW i \in Item, HandleAuctionPlaceBid(p, i) \/ HandleAuctionRemoveItem(p, i) PROVE overtaken'
  BY <1>8 DEF HandleAuctionPlaceBid, HandleAuctionRemoveItem
<1>9. ASSUME NEW i \in Item, UpdateAuction(i) PROVE overtaken'
  BY <1>9 DEF UpdateAuction
<1>10. ASSUME NEW p \in Player, TradeStep(p) PROVE overtaken'
  <2>1. UNCHANGED mailVars => overtaken'
    BY DEF mailVars
  <2>2. ASSUME Exchange(p, trade[p].with) PROVE overtaken'
    BY <2>2 DEF Exchange
  <2> QED BY <1>10, <2>1, <2>2, TradeDoes
<1>11. CASE UNCHANGED vars
  BY <1>11 DEF vars, mailVars
<1> QED BY <1>1, <1>2, <1>3, <1>4, <1>5, <1>6, <1>7, <1>8, <1>9, <1>10, <1>11, Steps

----------------------------------------------------------------------------
(* The invariant. *)

\* As long as nothing is overtaken, every step keeps the ledger.
LEMMA LedgerStep ==
  ASSUME TypeInv, HouseInv, BoxInv, TradeInv, Ledger, [Next]_vars, ~overtaken'
  PROVE  Ledger'
<1>0. HoldType /\ StoreType /\ StoreInv
  BY DEF TypeInv, Ledger
<1>1. ASSUME Execute, UNCHANGED <<house, trade>> PROVE Ledger'
  <2>1. UNCHANGED <<holdVars, loginVars, boxVars, lossVars>>
    BY <1>1 DEF Execute
  <2>2. gold' = gold /\ bag' = bag /\ inbox' = inbox /\ answer' = answer /\ sunk' = sunk /\ lost' = lost /\ house' = house
    BY <2>1, <1>1 DEF holdVars, loginVars, boxVars, lossVars
  <2>3. Settled' = Settled
    BY <1>1, ExecuteTurns
  <2>4. StoreInv'
    BY <1>0, <2>2, <2>3, SameBoxes
  <2> QED BY <2>2, <2>3, <2>4, QuietLedger
<1>2. ASSUME ReturnOrDeleteOldMails, UNCHANGED <<house, trade>> PROVE Ledger'
  <2>1. UNCHANGED <<holdVars, loginVars, boxVars, storeVars, lossVars>>
    BY <1>2 DEF ReturnOrDeleteOldMails
  <2>2. gold' = gold /\ bag' = bag /\ inbox' = inbox /\ answer' = answer /\ sunk' = sunk /\ lost' = lost /\ house' = house
        /\ UNCHANGED storeVars
    BY <2>1, <1>2 DEF holdVars, loginVars, boxVars, lossVars
  <2>3. Settled' = Settled
    BY <2>2, SettledSame
  <2>4. StoreInv'
    BY <1>0, <2>2, <2>3, SameBoxes
  <2> QED BY <2>2, <2>3, <2>4, QuietLedger
<1>3. ASSUME OldMailsCallback \/ SingleMailCallback, UNCHANGED <<house, trade>> PROVE Ledger'
  <2>1. /\ job.mail \in MailSet
        /\ \/ UNCHANGED <<pending, overtaken, sunk, lost>>
           \/ /\ ~Online(job.mail.to)
              /\ \E op \in {"delete", "return"} : JobWrite(Write(None, op, job.mail))
        /\ UNCHANGED <<holdVars, loginVars, boxVars, rows>>
    BY <1>0, <1>3, JobDoes
  <2>2. CASE UNCHANGED <<pending, overtaken, sunk, lost>>
    <3>1. gold' = gold /\ bag' = bag /\ inbox' = inbox /\ answer' = answer /\ sunk' = sunk /\ lost' = lost
          /\ house' = house /\ UNCHANGED storeVars
      BY <1>3, <2>1, <2>2 DEF holdVars, loginVars, boxVars, storeVars
    <3>2. Settled' = Settled
      BY <3>1, SettledSame
    <3>3. StoreInv'
      BY <1>0, <3>1, <3>2, SameBoxes
    <3> QED BY <3>1, <3>2, <3>3, QuietLedger
  <2>3. CASE ~Online(job.mail.to) /\ \E op \in {"delete", "return"} : JobWrite(Write(None, op, job.mail))
    <3>1. PICK op \in {"delete", "return"} : JobWrite(Write(None, op, job.mail))
      BY <2>3
    <3>2. PICK m \in MailSet : m = job.mail
      BY <2>1
    <3>3. JobWrite(Write(None, op, m)) /\ ~Online(m.to)
      BY <2>3, <3>1, <3>2
    <3>4. rows' = rows /\ UNCHANGED <<holdVars, loginVars, boxVars, house>>
      BY <1>3, <2>1
    <3> QED BY <3>3, <3>4, JobLedger
  <2> QED BY <2>1, <2>2, <2>3
<1>4. ASSUME NEW p \in Player, HandleSendMail(p) \/ SendMailAnswer(p), UNCHANGED <<house, trade>> PROVE Ledger'
  <2>1. /\ \/ \E r \in RequestSet : HandleSendMailCallback(r)
           \/ UNCHANGED <<gold, bag, sunk, inbox, pending>>
        /\ UNCHANGED <<login, answer, deleted, rows, job, lost, overtaken>>
    BY <1>0, <1>4, SendDoes
  <2>2. rows' = rows /\ answer' = answer /\ house' = house /\ lost' = lost
    BY <1>4, <2>1
  <2>3. ASSUME NEW r \in RequestSet, HandleSendMailCallback(r) PROVE Ledger'
    BY <2>2, <2>3, CallbackLedger
  <2>4. CASE UNCHANGED <<gold, bag, sunk, inbox, pending>>
    <3>1. UNCHANGED storeVars /\ inbox' = inbox /\ gold' = gold /\ bag' = bag /\ sunk' = sunk
      BY <2>2, <2>4 DEF storeVars
    <3>2. Settled' = Settled
      BY <3>1, SettledSame
    <3>3. StoreInv'
      BY <1>0, <2>2, <3>1, <3>2, SameBoxes
    <3> QED BY <2>2, <3>1, <3>2, <3>3, QuietLedger
  <2> QED BY <2>1, <2>3, <2>4
<1>5. ASSUME NEW p \in Player, NEW m \in inbox[p], HandleMailTakeItem(p, m), UNCHANGED <<house, trade>> PROVE Ledger'
  BY <1>5, TakeItemLedger
<1>6. ASSUME NEW p \in Player, NEW m \in inbox[p], HandleMailTakeMoney(p, m), UNCHANGED <<house, trade>> PROVE Ledger'
  BY <1>6, TakeMoneyLedger
<1>7. ASSUME NEW p \in Player, NEW m \in inbox[p], HandleMailDelete(p, m), UNCHANGED <<house, trade>> PROVE Ledger'
  <2>1. UNCHANGED <<holdVars, loginVars, inbox, storeVars, lossVars>>
    BY <1>7 DEF HandleMailDelete
  <2>2. gold' = gold /\ bag' = bag /\ inbox' = inbox /\ answer' = answer /\ sunk' = sunk /\ lost' = lost /\ house' = house
        /\ UNCHANGED storeVars
    BY <2>1, <1>7 DEF holdVars, loginVars, lossVars
  <2>3. Settled' = Settled
    BY <2>2, SettledSame
  <2>4. StoreInv'
    BY <1>0, <2>2, <2>3, SameBoxes
  <2> QED BY <2>2, <2>3, <2>4, QuietLedger
<1>8. ASSUME NEW p \in Player, NEW m \in inbox[p], HandleMailReturnToSender(p, m), UNCHANGED <<house, trade>> PROVE Ledger'
  BY <1>8, ReturnLedger
<1>9. ASSUME NEW p \in Player, ReadMails(p), UNCHANGED <<house, trade>> PROVE Ledger'
  <2>1. gold' = gold /\ bag' = bag /\ sunk' = sunk /\ lost' = lost /\ house' = house
    BY <1>9 DEF ReadMails, holdVars, lossVars
  <2>2. StoreInv' /\ Settled' = Settled
    BY <1>0, <1>9, ReadStore
  <2> QED BY <2>1, <2>2, QuietLedger
<1>10. ASSUME NEW p \in Player, FinishLogin(p), UNCHANGED <<house, trade>> PROVE Ledger'
  <2>1. gold' = gold /\ bag' = bag /\ sunk' = sunk /\ lost' = lost /\ house' = house
    BY <1>10 DEF FinishLogin, holdVars, lossVars
  <2>2. StoreInv' /\ Settled' = Settled
    BY <1>0, <1>10, LoginStore
  <2> QED BY <2>1, <2>2, QuietLedger
<1>11. ASSUME NEW p \in Player, SaveMails(p), UNCHANGED <<house, trade>> PROVE Ledger'
  <2>1. SaveMailbox(p, SavedBox(p, inbox[p])) /\ rows' = rows /\ UNCHANGED <<holdVars, answer, house>>
    BY <1>11 DEF SaveMails, loginVars
  <2>2. SavedBox(p, inbox[p]) \in SUBSET SavedBox(p, inbox[p])
    OBVIOUS
  <2> QED BY <2>1, <2>2, SaveLedger
<1>12. ASSUME NEW p \in Player, Logout(p) PROVE Ledger'
  <2>1. SaveMailbox(p, {}) /\ rows' = rows /\ UNCHANGED <<holdVars, answer, house>>
    BY <1>12 DEF Logout, LogoutMail
  <2> DEFINE none == {}
  <2>2. none \in SUBSET SavedBox(p, inbox[p]) /\ SaveMailbox(p, none)
    BY <2>1
  <2> HIDE DEF none
  <2> QED BY <2>1, <2>2, SaveLedger
<1>13. ASSUME NEW p \in Player, HandleAuctionSellItem(p), UNCHANGED trade PROVE Ledger'
  BY <1>13, SellLedger
<1>14. ASSUME NEW p \in Player, NEW i \in Item, HandleAuctionPlaceBid(p, i), UNCHANGED trade PROVE Ledger'
  BY <1>14, BidLedger
<1>15. ASSUME NEW p \in Player, NEW i \in Item, HandleAuctionRemoveItem(p, i), UNCHANGED trade PROVE Ledger'
  BY <1>15, RemoveLedger
<1>16. ASSUME NEW i \in Item, UpdateAuction(i), UNCHANGED trade PROVE Ledger'
  BY <1>16, UpdateLedger
<1>17. ASSUME UNCHANGED mailVars, UNCHANGED house PROVE Ledger'
  <2>1. UNCHANGED <<holdVars, loginVars, boxVars, storeVars, lossVars>>
    BY <1>17 DEF mailVars
  <2>2. gold' = gold /\ bag' = bag /\ inbox' = inbox /\ answer' = answer /\ sunk' = sunk /\ lost' = lost /\ house' = house
        /\ UNCHANGED storeVars
    BY <2>1, <1>17 DEF holdVars, loginVars, boxVars, lossVars
  <2>3. Settled' = Settled
    BY <2>2, SettledSame
  <2>4. StoreInv'
    BY <1>0, <2>2, <2>3, SameBoxes
  <2> QED BY <2>2, <2>3, <2>4, QuietLedger
<1>18. ASSUME NEW p \in Player, TradeStep(p), UNCHANGED house PROVE Ledger'
  <2>1. \/ UNCHANGED mailVars
        \/ Trading(p) /\ HasMoney(p) /\ HasMoney(trade[p].with) /\ Exchange(p, trade[p].with)
    BY <1>18, TradeDoes
  <2>2. CASE UNCHANGED mailVars
    BY <2>2, <1>17, <1>18
  <2>3. CASE Trading(p) /\ HasMoney(p) /\ HasMoney(trade[p].with) /\ Exchange(p, trade[p].with)
    BY <2>3, <1>18, ExchangeLedger
  <2> QED BY <2>1, <2>2, <2>3
<1>19. ASSUME UNCHANGED vars PROVE Ledger'
  BY <1>17, <1>19 DEF vars
<1> QED
  BY <1>1, <1>2, <1>3, <1>4, <1>5, <1>6, <1>7, <1>8, <1>9, <1>10, <1>11, <1>12, <1>13, <1>14, <1>15,
     <1>16, <1>18, <1>19, Steps

\* The ledger of the first state.
LEMMA LedgerInit ==
  ASSUME Init
  PROVE  Ledger
<1> DEFINE none == {}
<1>1. /\ bag \in [Player -> SUBSET Item] /\ \A i \in Item : Cardinality({p \in Player : i \in bag[p]}) = 1
      /\ rows = {} /\ pending = <<>> /\ sunk = 0 /\ lost = {}
      /\ \A p \in Player : inbox[p] = {} /\ answer[p] = {}
      /\ house = [i \in Item |-> NoAuction] /\ gold = [p \in Player |-> StartGold]
  BY DEF Init, MailInit, AuctionInit
<1>2. Settled = {}
  <2>1. Executed(none, <<>>) = none
    BY ExecutedNone
  <2> QED BY <2>1, <1>1 DEF Settled
<1>3. StoreInv
  BY <1>1, <1>2 DEF StoreInv
<1>4. ASSUME NEW i \in Item PROVE Located(i)
  <2> DEFINE o == Owners(i, bag)
  <2>1. o \in SUBSET Player /\ Cardinality(o) = 1
    BY <1>1 DEF Owners
  <2> HIDE DEF o
  <2>2. IsFiniteSet(o)
    BY <2>1, MailAssumption, FS_Subset
  <2>3. \E p : o = {p}
    BY <2>1, <2>2, FS_Singleton
  <2>4. Carriers(i, Settled) = {} /\ house[i] = NoAuction /\ i \notin lost
    BY <1>1, <1>2 DEF Carriers
  <2>5. OnePlace(o, Carriers(i, Settled), house[i] # NoAuction, i \in lost)
    BY <2>3, <2>4 DEF OnePlace
  <2> QED BY <2>5 DEF Located, o
<1>5. SumFunction(gold) = StartGold * Cardinality(Player)
  BY <1>1, SumConstant, MailAssumption, EconomyAssumption
<1>6. MoneyIn(Settled) = 0
  BY <1>2, MoneyEmpty
<1>7. Value(house) = 0
  <2> DEFINE f == [i \in {j \in Item : house[j] # NoAuction} |-> Worth(house[i])]
  <2>1. DOMAIN f = {}
    BY <1>1
  <2>2. Value(house) = SumFunctionOnSet(f, DOMAIN f)
    BY DEF Value, SumFunction
  <2> HIDE DEF f
  <2> QED BY <2>1, <2>2, SumEmpty
<1>8. StartGold * Cardinality(Player) \in Int
  BY MailAssumption, EconomyAssumption, FS_CardinalityType
<1>9. MoneyInv
  <2> DEFINE x == StartGold * Cardinality(Player)
  <2>1. x + 0 + 0 + 0 = x
    BY <1>8
  <2>2. SumFunction(gold) + MoneyIn(Settled) + Value(house) + sunk = x + 0 + 0 + 0
    BY <1>1, <1>5, <1>6, <1>7
  <2> QED BY <2>1, <2>2 DEF MoneyInv
<1> QED BY <1>3, <1>4, <1>9 DEF Ledger, ItemInv

\* What holds of every state.
EconInv ==
  /\ TypeInv /\ HouseInv /\ BoxInv /\ TradeInv /\ AcceptedIsCurrent
  /\ ~overtaken => Ledger

\* It holds at first.
LEMMA EconInvInit ==
  ASSUME Init
  PROVE  EconInv
<1>1. /\ bag \in [Player -> SUBSET Item] /\ gold = [p \in Player |-> StartGold]
      /\ login = [p \in Player |-> "in"]
      /\ answer = [p \in Player |-> {}] /\ inbox = [p \in Player |-> {}]
      /\ deleted = [p \in Player |-> {}] /\ request = [p \in Player |-> None]
      /\ rows = {} /\ pending = <<>> /\ job = NoJob /\ sunk = 0 /\ lost = {} /\ overtaken = FALSE
      /\ house = [i \in Item |-> NoAuction] /\ trade = [p \in Player |-> NoTrade]
  BY DEF Init, MailInit, AuctionInit, TradeInit
<1>2. TypeInv
  <2> DEFINE none == {}
             nothing == <<>>
  <2>1. IsFiniteSet(none) /\ none \in SUBSET MailSet /\ nothing \in Seq(WriteSet)
    BY FS_EmptySet
  <2>2. BoxType([p \in Player |-> none])
    BY <2>1 DEF BoxType
  <2>3. HoldType
    BY <1>1, <2>2, EconomyAssumption DEF HoldType
  <2>4. StoreType
    <3>1. rows \in SUBSET MailSet /\ IsFiniteSet(rows) /\ pending \in Seq(WriteSet)
      BY <1>1, <2>1
    <3>2. job = NoJob /\ sunk \in Int
      BY <1>1
    <3>3. lost \in SUBSET Item
      BY <1>1
    <3>4. overtaken \in BOOLEAN
      BY Zenon DEF Init, MailInit
    <3> QED BY <3>1, <3>2, <3>3, <3>4 DEF StoreType
  <2> QED BY <2>3, <2>4 DEF TypeInv
<1>3. HouseInv
  BY <1>1 DEF HouseInv
<1>4. BoxInv
  BY <1>1 DEF BoxInv
<1>5. \A p \in Player : ~Trading(p)
  BY <1>1 DEF Trading, NoTrade
<1>6. TradeInv
  <2>1. NoTrade \in TradeSet
    BY DEF NoTrade, TradeSet
  <2> QED BY <2>1, <1>1, <1>5 DEF TradeInv
<1>7. AcceptedIsCurrent
  BY <1>5 DEF AcceptedIsCurrent
<1> QED BY <1>2, <1>3, <1>4, <1>6, <1>7, LedgerInit DEF EconInv

\* Every step keeps it.
LEMMA EconInvStep ==
  ASSUME EconInv, [Next]_vars
  PROVE  EconInv'
<1>1. TypeInv /\ HouseInv /\ BoxInv /\ TradeInv /\ AcceptedIsCurrent /\ (~overtaken => Ledger)
  BY DEF EconInv
<1>2. TypeInv' /\ HouseInv' /\ BoxInv' /\ TradeInv' /\ AcceptedIsCurrent'
  BY <1>1, TypeKept, HouseKept, BoxKept, TradeKept
<1>3. ASSUME ~overtaken' PROVE Ledger'
  <2>1. ~overtaken
    BY <1>1, <1>3, OvertakenStays
  <2> QED BY <1>1, <1>3, <2>1, LedgerStep
<1> QED BY <1>2, <1>3 DEF EconInv

\* The invariant of the economy: types, auctions, mailboxes and trades are sound in every
\* state, and the ledger of items and money holds as long as no statement was overtaken.
THEOREM EconInvHolds == Spec => []EconInv
<1>1. Init => EconInv
  BY EconInvInit
<1>2. EconInv /\ [Next]_vars => EconInv'
  BY EconInvStep
<1> QED BY <1>1, <1>2, PTL DEF Spec

\* TradeHandler.cpp: a player's acceptance never outlives a change of what either offers.
THEOREM AcceptedIsCurrentHolds == Spec => []AcceptedIsCurrent
<1>1. EconInv => AcceptedIsCurrent
  BY DEF EconInv
<1> QED BY <1>1, EconInvHolds, PTL

\* The mails there are: those the table will hold.
LEMMA MailsAre ==
  ASSUME StoreInv
  PROVE  Mails = Settled
<1> DEFINE held == UNION {inbox[p] : p \in Player}
<1>1. held \in SUBSET Settled
  BY DEF StoreInv
<1>2. \A m \in Settled : m.id \in IdsOf(held) => m \in held
  BY <1>1 DEF StoreInv, IdsOf
<1>3. Mails = held \cup {m \in Settled : m.id \notin IdsOf(held)}
  BY DEF Mails
<1> HIDE DEF held
<1> QED BY <1>1, <1>2, <1>3

\* A located item is in one of the places that ItemOnce counts.
LEMMA PlaceIsOne ==
  ASSUME NEW i \in Item, Located(i)
  PROVE  \E x : Places(i, Settled) = {x}
<1> DEFINE o == Owners(i, bag)
           c == Carriers(i, Settled)
           bags == {<<"bag", p>> : p \in o}
           mails == {<<"mail", n>> : n \in c}
<1>1. OnePlace(o, c, house[i] # NoAuction, i \in lost)
  BY DEF Located
<1>2. {<<"bag", p>> : p \in {q \in Player : i \in bag[q]}} = bags
  BY DEF Owners
<1>3. {<<"mail", m.id>> : m \in {n \in Settled : n.item = i}} = mails
  BY DEF Carriers
<1>4. i \in Auctioned <=> house[i] # NoAuction
  BY DEF Auctioned
<1>5. Places(i, Settled) = bags \cup mails \cup (IF house[i] # NoAuction THEN {<<"house", 0>>} ELSE {})
                             \cup (IF i \in lost THEN {<<"lost", 0>>} ELSE {})
  BY <1>2, <1>3, <1>4 DEF Places
<1> HIDE DEF o, c
<1>6. \/ \E x : bags = {x} /\ mails = {} /\ house[i] = NoAuction /\ i \notin lost
      \/ \E x : bags = {} /\ mails = {x} /\ house[i] = NoAuction /\ i \notin lost
      \/ bags = {} /\ mails = {} /\ house[i] # NoAuction /\ i \notin lost
      \/ bags = {} /\ mails = {} /\ house[i] = NoAuction /\ i \in lost
  <2>1. CASE (\E p : o = {p}) /\ c = {} /\ house[i] = NoAuction /\ i \notin lost
    <3>1. PICK p : o = {p}
      BY <2>1
    <3>2. bags = {<<"bag", p>>} /\ mails = {}
      BY <2>1, <3>1
    <3> QED BY <2>1, <3>2
  <2>2. CASE o = {} /\ (\E n : c = {n}) /\ house[i] = NoAuction /\ i \notin lost
    <3>1. PICK n : c = {n}
      BY <2>2
    <3>2. bags = {} /\ mails = {<<"mail", n>>}
      BY <2>2, <3>1
    <3> QED BY <2>2, <3>2
  <2>3. CASE o = {} /\ c = {} /\ house[i] # NoAuction /\ i \notin lost
    BY <2>3
  <2>4. CASE o = {} /\ c = {} /\ house[i] = NoAuction /\ i \in lost
    <3>1. bags = {} /\ mails = {}
      BY <2>4
    <3> QED BY <2>4, <3>1
  <2>5. \/ (\E p : o = {p}) /\ c = {} /\ house[i] = NoAuction /\ i \notin lost
        \/ o = {} /\ (\E n : c = {n}) /\ house[i] = NoAuction /\ i \notin lost
        \/ o = {} /\ c = {} /\ house[i] # NoAuction /\ i \notin lost
        \/ o = {} /\ c = {} /\ house[i] = NoAuction /\ i \in lost
    <3>1. \/ (\E p : o = {p}) /\ c = {} /\ ~(house[i] # NoAuction) /\ ~(i \in lost)
          \/ o = {} /\ (\E n : c = {n}) /\ ~(house[i] # NoAuction) /\ ~(i \in lost)
          \/ o = {} /\ c = {} /\ house[i] # NoAuction /\ ~(i \in lost)
          \/ o = {} /\ c = {} /\ ~(house[i] # NoAuction) /\ i \in lost
      BY <1>1 DEF OnePlace
    <3> QED BY <3>1
  <2> HIDE DEF bags, mails
  <2> QED BY <2>1, <2>2, <2>3, <2>4, <2>5
<1> HIDE DEF bags, mails
<1> QED BY <1>5, <1>6

\* However handlers, callbacks, saves, logins and expiry interleave, an item is in exactly
\* one place as long as no statement overtook another.
THEOREM ItemOnceHolds == Spec => []ItemOnce
<1>1. ASSUME EconInv PROVE ItemOnce
  <2>1. TypeInv /\ BoxInv /\ TradeInv /\ (~overtaken => Ledger)
    BY <1>1 DEF EconInv
  <2>2. TypeOK
    <3>1. gold \in [Player -> Int] /\ bag \in [Player -> SUBSET Item] /\ login \in [Player -> {"out", "read", "in"}]
      BY <2>1 DEF TypeInv, HoldType
    <3> QED BY <3>1, <2>1 DEF TypeOK, BoxInv, TradeInv
  <2>3. ASSUME ~overtaken, NEW i \in Item PROVE Cardinality(Places(i, Mails)) = 1
    <3>1. Mails = Settled /\ Located(i)
      BY <2>1, <2>3, MailsAre DEF Ledger, ItemInv
    <3>2. PICK x : Places(i, Settled) = {x}
      BY <3>1, PlaceIsOne
    <3>3. Cardinality({x}) = 1
      BY FS_Singleton
    <3> QED BY <3>1, <3>2, <3>3
  <2> QED BY <2>2, <2>3 DEF ItemOnce
<1> QED BY <1>1, EconInvHolds, PTL

\* Money is neither made nor lost but as accounted for, as long as no statement overtook
\* another; nobody ever has debts.
THEOREM MoneyConservedHolds == Spec => []MoneyConserved
<1>1. ASSUME EconInv PROVE MoneyConserved
  <2>1. TypeInv /\ (~overtaken => Ledger)
    BY <1>1 DEF EconInv
  <2>2. \A p \in Player : gold[p] >= 0
    BY <2>1 DEF TypeInv, HoldType
  <2>3. ASSUME ~overtaken PROVE Money = StartGold * Cardinality(Player)
    <3>1. StoreInv /\ MoneyInv
      BY <2>1, <2>3 DEF Ledger
    <3>2. Mails = Settled
      BY <3>1, MailsAre
    <3>3. SumFunction([i \in Auctioned |-> house[i].bid + house[i].deposit]) = Value(house)
      BY DEF Value, Worth, Auctioned
    <3>4. Money = SumFunction(gold) + MoneyIn(Settled) + Value(house) + sunk
      BY <3>2, <3>3 DEF Money
    <3> QED BY <3>1, <3>4 DEF MoneyInv
  <2> QED BY <2>2, <2>3 DEF MoneyConserved
<1> QED BY <1>1, EconInvHolds, PTL

----------------------------------------------------------------------------
(* What auctions owe. *)

\* Each draft that is paid is a mail that was not there before.
LEMMA Mailed ==
  ASSUME TypeInv, NEW D \in SUBSET DraftSet, IsFiniteSet(D), NEW C \in SUBSET DraftSet, IsFiniteSet(C),
         NEW taken \in Int, Pay(D, C, taken), rows' = rows, NEW d \in Paid(D, C)
  PROVE  \E m \in Mails' : /\ m.id \notin IdsOf(Mails)
                           /\ m.to = d.to /\ m.money = d.money /\ m.item = d.item
<1> DEFINE E == Paid(D, C)
           N == Numbered(E)
<1>1. HoldType /\ StoreType
  BY DEF TypeInv
<1>2. E \in SUBSET DraftSet /\ IsFiniteSet(E) /\ MayPost(E) /\ inbox' = Received(inbox, N)
      /\ Settled' = Settled \cup N
  BY <1>1, PayDoes
<1>3. PICK f \in [E -> FreeIds] : IsInjective(f) /\ N = {WithId(e, f[e]) : e \in E}
  BY <1>2, NumberedIs
<1>4. \A x, y \in N : x.id = y.id => x = y
  BY <1>2, NumberedType
<1> DEFINE m == WithId(d, f[d])
<1>5. m \in N /\ m.id = f[d] /\ m.to = d.to /\ m.money = d.money /\ m.item = d.item
  BY <1>3 DEF WithId
<1> HIDE DEF N, m
<1>6. m.id \in FreeIds
  BY <1>3, <1>5
<1>7. /\ \A n \in Settled : n.id # m.id
      /\ \A p \in Player : \A n \in inbox[p] : n.id # m.id
  BY <1>1, <1>6, FreshId
<1>8. m.id \notin IdsOf(Mails)
  BY <1>7 DEF Mails, IdsOf
<1>9. m \in Mails'
  <2> DEFINE held == UNION {inbox'[p] : p \in Player}
  <2>1. \A n \in held : n.id = m.id => n = m
    <3>1. \A p \in Player : \A n \in inbox'[p] : n \in inbox[p] \/ n \in N
      BY <1>2, ReceivedAdds
    <3> QED BY <3>1, <1>4, <1>5, <1>7
  <2>2. m \in Settled'
    BY <1>2, <1>5
  <2>3. Mails' = held \cup {n \in Settled' : n.id \notin IdsOf(held)}
    BY DEF Mails, IdsOf
  <2> HIDE DEF held
  <2>4. m.id \in IdsOf(held) => m \in held
    BY <2>1 DEF IdsOf
  <2> QED BY <2>2, <2>3, <2>4
<1> QED BY <1>5, <1>8, <1>9

\* A draft that is paid reaches its receiver.
LEMMA Sent ==
  ASSUME TypeInv, NEW D \in SUBSET DraftSet, IsFiniteSet(D), NEW C \in SUBSET DraftSet, IsFiniteSet(C),
         NEW taken \in Int, Pay(D, C, taken), rows' = rows, NEW d, (d \in D /\ d.to \notin Hardcore) \/ d \in C,
         NEW money, NEW item, d.money >= money \/ d.item = item
  PROVE  Sends(d.to, money, item)
<1>1. d \in Paid(D, C)
  BY DEF Paid, Forfeited
<1>2. PICK m \in Mails' : m.id \notin IdsOf(Mails) /\ m.to = d.to /\ m.money = d.money /\ m.item = d.item
  BY <1>1, Mailed
<1>3. m.money >= money \/ m.item = item
  BY <1>2
<1> QED BY <1>2, <1>3 DEF Sends

\* What AuctionServes says of one auction.
Served(i) ==
  LET a == house[i]
  IN /\ a.bidder \notin {None} \cup Hardcore /\ Unbid(i) => Sends(a.bidder, a.bid, i)
     /\ house'[i] = NoAuction /\ a.owner \notin Hardcore =>
          Sends(a.owner, a.bid + a.deposit - GetAuctionCut(a), i)

\* An auction that a step leaves alone.
LEMMA ServedStays ==
  ASSUME NEW i \in Auctioned, house'[i] = house[i]
  PROVE  Served(i)
<1>1. house[i] # NoAuction
  BY DEF Auctioned
<1> QED BY <1>1 DEF Served, Unbid

\* AuctionHouseObject::Update() serves bidder and owner.
LEMMA UpdateServes ==
  ASSUME EconInv, NEW i \in Item, UpdateAuction(i)
  PROVE  Served(i)
<1> DEFINE a == house[i]
           none == {}
           x == SendAuctionExpiredMail(a, i)
           one == {x}
           both == AuctionDrafts(a, i)
           s == SendAuctionSuccessfulMail(a)
           w == SendAuctionWonMail(a, i)
           price == a.bid + a.deposit - GetAuctionCut(a)
<1>0. TypeInv /\ HouseInv
  BY DEF EconInv
<1>1. /\ a \in AuctionSet /\ a # NoAuction
      /\ IF a.bidder = None THEN Pay(one, none, a.deposit) ELSE Pay(both, none, GetAuctionCut(a))
      /\ rows' = rows
  BY <1>0, UpdateDoes
<1>2. one \in SUBSET DraftSet /\ IsFiniteSet(one) /\ both \in SUBSET DraftSet /\ IsFiniteSet(both)
  BY <1>1, RefundsType
<1>3. none \in SUBSET DraftSet /\ IsFiniteSet(none)
  BY FS_EmptySet
<1>4. x.item = i /\ x.to = a.owner /\ x \in one
  BY AuctionMailIs DEF SendAuctionExpiredMail
<1>5. s.money = price /\ s.to = a.owner /\ s \in both
  BY AuctionMailIs DEF SendAuctionSuccessfulMail, AuctionDrafts
<1>6. w.item = i /\ w.to = a.bidder /\ w \in both
  BY AuctionMailIs DEF SendAuctionWonMail, AuctionDrafts
<1>7. GetAuctionCut(a) \in Int /\ a.deposit \in Int /\ price \in Int
  <2>1. price \in Int
    BY <1>1, SoldMoney
  <2>2. GetAuctionCut(a) \in Nat
    BY <1>1, AuctionDraftsType
  <2> QED BY <2>1, <2>2, <1>1 DEF AuctionSet
<1> HIDE DEF x, one, both, none, s, w, price
<1>8. ASSUME a.bidder \notin {None} \cup Hardcore PROVE Sends(a.bidder, a.bid, i)
  <2>1. Pay(both, none, GetAuctionCut(a)) /\ w.to \notin Hardcore
    BY <1>1, <1>6, <1>8
  <2> HIDE DEF a
  <2>2. Sends(w.to, a.bid, i)
    BY <2>1, <1>0, <1>1, <1>2, <1>3, <1>6, <1>7, Sent
  <2> QED BY <2>2, <1>6
<1>9. ASSUME a.owner \notin Hardcore PROVE Sends(a.owner, price, i)
  <2> HIDE DEF a
  <2>1. CASE a.bidder = None
    <3>1. Pay(one, none, a.deposit) /\ x.to \notin Hardcore
      BY <1>1, <1>4, <1>9, <2>1
    <3>2. Sends(x.to, price, i)
      BY <3>1, <1>0, <1>1, <1>2, <1>3, <1>4, <1>7, Sent
    <3> QED BY <3>2, <1>4
  <2>2. CASE a.bidder # None
    <3>1. Pay(both, none, GetAuctionCut(a)) /\ s.to \notin Hardcore /\ s.money >= price
      BY <1>1, <1>5, <1>7, <1>9, <2>2
    <3>2. Sends(s.to, price, i)
      BY <3>1, <1>0, <1>1, <1>2, <1>3, <1>5, <1>7, Sent
    <3> QED BY <3>2, <1>5
  <2> QED BY <2>1, <2>2
<1> QED BY <1>8, <1>9 DEF Served, a, price

\* HandleAuctionRemoveItem() serves the bidder and the owner.
LEMMA RemoveServes ==
  ASSUME EconInv, NEW p \in Player, NEW i \in Item, HandleAuctionRemoveItem(p, i)
  PROVE  Served(i)
<1> DEFINE a == house[i]
           D == Refunds(a)
           r == AuctionMail(a.bidder, None, a.bid)
           x == AuctionMail(a.owner, i, 0)
           C == {x}
           taken == a.deposit + CutOf(a)
           price == a.bid + a.deposit - GetAuctionCut(a)
<1>0. TypeInv /\ HouseInv /\ HoldType
  BY DEF EconInv, TypeInv
<1>1. a \in AuctionSet /\ a # NoAuction /\ CutOf(a) \in 0..gold[p] /\ Pay(D, C, taken) /\ rows' = rows
  BY <1>0, RemoveDoes
<1>2. D \in SUBSET DraftSet /\ IsFiniteSet(D) /\ C \in SUBSET DraftSet /\ IsFiniteSet(C)
  BY <1>1, RefundsType
<1>3. a.bidder # None => r \in D
  BY DEF Refunds
<1>4. r.to = a.bidder /\ r.money = a.bid
  BY AuctionMailIs
<1>5. x.item = i /\ x.to = a.owner /\ x \in C
  BY AuctionMailIs
<1>6. taken \in Int /\ a.bid \in Int
  <2>1. a.deposit \in Int /\ a.bid \in Int /\ gold[p] \in Int /\ CutOf(a) \in Int
    BY <1>0, <1>1 DEF AuctionSet, HoldType
  <2> QED BY <2>1
<1> HIDE DEF D, r, x, C, taken, price
<1>7. ASSUME a.bidder \notin {None} \cup Hardcore PROVE Sends(a.bidder, a.bid, i)
  <2>1. r \in D /\ r.to \notin Hardcore /\ r.money >= a.bid
    BY <1>3, <1>4, <1>6, <1>7
  <2> HIDE DEF a
  <2>2. Sends(r.to, a.bid, i)
    BY <2>1, <1>0, <1>1, <1>2, <1>6, Sent
  <2> QED BY <2>2, <1>4
<1>8. Sends(a.owner, price, i)
  <2> HIDE DEF a
  <2>1. Sends(x.to, price, i)
    BY <1>0, <1>1, <1>2, <1>5, <1>6, Sent
  <2> QED BY <2>1, <1>5
<1> QED BY <1>7, <1>8 DEF Served, a, price

\* HandleAuctionPlaceBid() serves the bidder that is overbid, and both if it buys.
LEMMA BidServes ==
  ASSUME EconInv, NEW p \in Player, NEW i \in Item, HandleAuctionPlaceBid(p, i)
  PROVE  Served(i)
<1> DEFINE a == house[i]
           none == {}
           R == Overbid(a, p)
           r == AuctionMail(a.bidder, None, a.bid)
           price == a.bid + a.deposit - GetAuctionCut(a)
           z == 0
<1>0. TypeInv /\ HouseInv /\ HoldType /\ StoreType
  BY DEF EconInv, TypeInv
<1>1. PICK paid \in Nat :
        /\ a \in AuctionSet /\ a # NoAuction /\ paid > a.bid /\ WithBid(a, p, paid) \in AuctionSet
        /\ OnlyBids(p, i, a, paid) \/ Buys(p, i, a, paid)
        /\ rows' = rows
  BY <1>0, BidDoes
<1> DEFINE b == WithBid(a, p, paid)
           S == AuctionDrafts(b, i)
           D == R \cup S
           s == SendAuctionSuccessfulMail(b)
           w == SendAuctionWonMail(b, i)
           cut == GetAuctionCut(b)
<1>2. R \in SUBSET DraftSet /\ IsFiniteSet(R)
  BY <1>1, RefundsType
<1>3. S \in SUBSET DraftSet /\ IsFiniteSet(S)
  BY <1>1, RefundsType
<1>4. none \in SUBSET DraftSet /\ IsFiniteSet(none)
  BY FS_EmptySet
<1>5. a.bidder # None /\ a.bidder # p => r \in R
  BY DEF Overbid, Refunds
<1>6. r.to = a.bidder /\ r.money = a.bid
  BY AuctionMailIs
<1>7. b.bid = paid /\ b.deposit = a.deposit /\ b.owner = a.owner /\ b.bidder = p
  BY <1>1 DEF WithBid, AuctionSet
<1>8. s.money = b.bid + b.deposit - GetAuctionCut(b) /\ s.to = b.owner /\ s \in S
  BY AuctionMailIs DEF SendAuctionSuccessfulMail, AuctionDrafts
<1>9. w.item = i /\ w.to = b.bidder /\ w \in S
  BY AuctionMailIs DEF SendAuctionWonMail, AuctionDrafts
<1>10. a.bid \in Nat /\ a.deposit \in Nat /\ b.bid \in Nat
  BY <1>1, <1>7 DEF AuctionSet
<1>11. cut \in Int /\ GetAuctionCut(a) \in Int
  <2>1. cut \in Nat
    BY <1>1, AuctionDraftsType
  <2>2. GetAuctionCut(a) \in Nat
    BY <1>1, AuctionDraftsType
  <2> QED BY <2>1, <2>2
<1>12. a.bid - GetAuctionCut(a) <= b.bid - cut
  <2>1. a.bid <= b.bid
    BY <1>1, <1>7, <1>10
  <2> QED BY <2>1, <1>10, CutGrows
<1>13. house \in [Item -> {NoAuction} \cup AuctionSet]
  BY <1>0 DEF HouseInv
<1>14. OnlyBids(p, i, a, paid) => Pay(R, none, z) /\ house'[i] = b
  BY <1>13 DEF OnlyBids
<1>15. Buys(p, i, a, paid) => Pay(D, none, cut)
  BY DEF Buys
<1>16. b # NoAuction
  BY <1>1, WorthIs
<1> HIDE DEF R, S, none, r, s, w, b, cut
<1>17. D \in SUBSET DraftSet /\ IsFiniteSet(D)
  BY <1>2, <1>3, FS_Union
<1>18. s.money >= price
  BY <1>7, <1>8, <1>10, <1>11, <1>12 DEF cut
<1>19. z \in Int
  OBVIOUS
<1>20. \A d \in R \cup S : d \in D
  OBVIOUS
<1> HIDE DEF D, price, z
<1>21. CASE OnlyBids(p, i, a, paid)
  <2>1. Pay(R, none, z) /\ house'[i] = b
    BY <1>14, <1>21
  <2>2. ASSUME a.bidder \notin {None} \cup Hardcore, a.bidder # p PROVE Sends(a.bidder, a.bid, i)
    <3>1. r \in R /\ r.to \notin Hardcore /\ r.money >= a.bid
      BY <1>5, <1>6, <1>10, <2>2
    <3> HIDE DEF a
    <3>2. Sends(r.to, a.bid, i)
      BY <3>1, <2>1, <1>0, <1>1, <1>2, <1>4, <1>19, Sent
    <3> QED BY <3>2, <1>6
  <2>3. house'[i] # NoAuction /\ house'[i].bidder = p
    BY <2>1, <1>7, <1>16
  <2> QED BY <2>2, <2>3 DEF Served, Unbid
<1>22. CASE Buys(p, i, a, paid)
  <2>1. Pay(D, none, cut)
    BY <1>15, <1>22
  <2>2. ASSUME a.bidder \notin {None} \cup Hardcore PROVE Sends(a.bidder, a.bid, i)
    <3> HIDE DEF a
    <3>1. CASE a.bidder = p
      <4>1. w \in D /\ w.to \notin Hardcore
        BY <1>7, <1>9, <1>20, <2>2, <3>1
      <4>2. Sends(w.to, a.bid, i)
        BY <4>1, <2>1, <1>0, <1>1, <1>4, <1>9, <1>11, <1>17, Sent
      <4> QED BY <4>2, <3>1, <1>7, <1>9
    <3>2. CASE a.bidder # p
      <4>1. r \in D /\ r.to \notin Hardcore /\ r.money >= a.bid
        BY <1>5, <1>6, <1>10, <1>20, <2>2, <3>2
      <4>2. Sends(r.to, a.bid, i)
        BY <4>1, <2>1, <1>0, <1>1, <1>4, <1>11, <1>17, Sent
      <4> QED BY <4>2, <1>6
    <3> QED BY <3>1, <3>2
  <2>3. ASSUME a.owner \notin Hardcore PROVE Sends(a.owner, price, i)
    <3> HIDE DEF a
    <3>1. s \in D /\ s.to \notin Hardcore
      BY <1>7, <1>8, <1>20, <2>3
    <3>2. Sends(s.to, price, i)
      BY <3>1, <2>1, <1>0, <1>1, <1>4, <1>11, <1>17, <1>18, Sent
    <3> QED BY <3>2, <1>7, <1>8
  <2> QED BY <2>2, <2>3 DEF Served, a, price
<1> QED BY <1>1, <1>21, <1>22

\* AuctionHouse: whoever bids gets the bid back or the item, whoever auctions gets the
\* price less the cut or the item, unless hardcore. No statement need be in order for it.
THEOREM AuctionServesHolds == Spec => AuctionServes
<1>1. ASSUME EconInv, [Next]_vars, NEW j \in Auctioned PROVE Served(j)
  <2>0. HoldType /\ StoreType /\ HouseInv /\ house \in [Item -> {NoAuction} \cup AuctionSet]
        /\ j \in Item /\ house[j] # NoAuction
    BY <1>1 DEF EconInv, TypeInv, HouseInv, Auctioned
  <2>1. ASSUME house' = house PROVE Served(j)
    BY <2>1, ServedStays
  <2>2. ASSUME NEW p \in Player, HandleAuctionSellItem(p) PROVE Served(j)
    <3>1. PICK i \in Item, a \in AuctionSet : house[i] = NoAuction /\ house' = [house EXCEPT ![i] = a]
      BY <2>0, <2>2, SellDoes
    <3>2. house'[j] = house[j]
      BY <2>0, <3>1
    <3> QED BY <3>2, ServedStays
  <2>3. ASSUME NEW p \in Player, NEW i \in Item, HandleAuctionPlaceBid(p, i) PROVE Served(j)
    <3>1. \E a \in AuctionSet \cup {NoAuction} : house' = [house EXCEPT ![i] = a]
      <4>1. PICK paid \in Nat : /\ WithBid(house[i], p, paid) \in AuctionSet
                                /\ OnlyBids(p, i, house[i], paid) \/ Buys(p, i, house[i], paid)
        BY <2>0, <2>3, BidDoes
      <4>2. CASE OnlyBids(p, i, house[i], paid)
        BY <4>1, <4>2 DEF OnlyBids
      <4>3. CASE Buys(p, i, house[i], paid)
        BY <4>1, <4>3 DEF Buys
      <4> QED BY <4>1, <4>2, <4>3
    <3>2. i # j => house'[j] = house[j]
      BY <2>0, <3>1
    <3> QED BY <3>2, <1>1, <2>3, BidServes, ServedStays
  <2>4. ASSUME NEW p \in Player, NEW i \in Item, HandleAuctionRemoveItem(p, i) PROVE Served(j)
    <3>1. i # j => house'[j] = house[j]
      BY <2>0, <2>4, RemoveDoes
    <3> QED BY <3>1, <1>1, <2>4, RemoveServes, ServedStays
  <2>5. ASSUME NEW i \in Item, UpdateAuction(i) PROVE Served(j)
    <3>1. i # j => house'[j] = house[j]
      BY <2>0, <2>5, UpdateDoes
    <3> QED BY <3>1, <1>1, <2>5, UpdateServes, ServedStays
  <2>6. ASSUME NEW p \in Player, Logout(p) PROVE Served(j)
    BY <2>1, <2>6 DEF Logout
  <2> QED BY <1>1, <2>1, <2>2, <2>3, <2>4, <2>5, <2>6, Steps DEF vars
<1>2. EconInv /\ [Next]_vars => [\A i \in Auctioned : Served(i)]_vars
  BY <1>1
<1>3. AuctionServes <=> [][\A i \in Auctioned : Served(i)]_vars
  BY DEF AuctionServes, Served
<1> QED BY <1>2, <1>3, EconInvHolds, PTL DEF Spec
=============================================================================
