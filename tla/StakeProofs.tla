----------------------------- MODULE StakeProofs -----------------------------
(***************************************************************************)
(* The stake histories of ForgerStakesV2 for any forgers, delegators,      *)
(* funds and epochs: their checkpoints stay in order, the stake of an      *)
(* epoch that is over never changes, the stake of a forger is the sum of   *)
(* what its delegators staked, the contract holds what it would have to    *)
(* pay back, and the binary search finds what the checkpoints say.         *)
(***************************************************************************)
EXTENDS ForgerStakesV2, FiniteSetTheorems, NaturalsInduction, WellFoundedInduction, TLAPS

----------------------------------------------------------------------------
(* Sums over finite sets, by the recursion that SumFunction is defined with. *)

Pick(s) == CHOOSE x \in s : TRUE

Sums(v) == CHOOSE it : it = [s \in SUBSET DOMAIN v |-> IF s = {} THEN 0 ELSE v[Pick(s)] + it[s \ {Pick(s)}]]

\* The sum of a function is the last of its partial sums.
LEMMA SumIsLastOfSums ==
    ASSUME NEW v
    PROVE  SumFunction(v) = Sums(v)[DOMAIN v]
BY Zenon DEF SumFunction, SumFunctionOnSet, FoldFunctionOnSet, MapThenFoldSet, Sums, Pick

\* A non-empty set of natural numbers has a smallest one.
LEMMA SmallestNumber ==
    ASSUME NEW B \in SUBSET Nat, B # {}
    PROVE  \E n \in B : \A m \in B : n <= m
<1>1. PICK n \in B : \A y \in B : ~ (<<y, n>> \in OpToRel(<, Nat))
  BY NatLessThanWellFounded, WFMin, ZenonT(30)
<1>2. ASSUME NEW m \in B PROVE n <= m
  <2>1. ~ (m < n)
    BY <1>1, Zenon DEF OpToRel
  <2> QED
    BY <2>1
<1> QED
  BY <1>2

\* So do sets of subsets of a finite set.
LEMMA SmallestSet ==
    ASSUME NEW S, IsFiniteSet(S), NEW B \in SUBSET SUBSET S, B # {}
    PROVE  \E s \in B : \A t \in B : Cardinality(s) <= Cardinality(t)
<1> DEFINE N == {Cardinality(s) : s \in B}
<1>1. N \subseteq Nat /\ N # {}
  BY FS_Subset, FS_CardinalityType
<1>2. PICK n \in N : \A m \in N : n <= m
  BY <1>1, SmallestNumber, Zenon
<1> QED
  BY <1>2

\* What is picked of a set is in it.
LEMMA PickIn ==
    ASSUME NEW s, s # {}
    PROVE  Pick(s) \in s
BY DEF Pick

\* A finite set without one of its elements is smaller by one.
LEMMA SmallerSet ==
    ASSUME NEW S, IsFiniteSet(S), NEW s \in SUBSET S, NEW x \in s
    PROVE  /\ Cardinality(s) \in Nat /\ Cardinality(s \ {x}) = Cardinality(s) - 1
           /\ s \ {x} \in SUBSET S
BY FS_Subset, FS_RemoveElement, FS_CardinalityType

\* The recursion that a sum is defined by has a solution.
LEMMA SumsExist ==
    ASSUME NEW v, IsFiniteSet(DOMAIN v)
    PROVE  Sums(v) = [s \in SUBSET DOMAIN v |->
                        IF s = {} THEN 0 ELSE v[Pick(s)] + Sums(v)[s \ {Pick(s)}]]
<1> DEFINE S == DOMAIN v
           Level(n) == {s \in SUBSET S : Cardinality(s) <= n}
           Solves(g, n) == g = [s \in Level(n) |-> IF s = {} THEN 0 ELSE v[Pick(s)] + g[s \ {Pick(s)}]]
           Bad == {n \in Nat : ~ \E g : Solves(g, n)}
<1>1. \E g : Solves(g, 0)
  <2> DEFINE g == [s \in Level(0) |-> 0]
  <2>1. \A s \in Level(0) : s = {}
    BY FS_EmptySet, FS_Subset, FS_CardinalityType
  <2>2. Solves(g, 0)
    BY <2>1
  <2> QED
    BY <2>2, Zenon
<1>2. ASSUME NEW n \in Nat, NEW g, Solves(g, n) PROVE \E h : Solves(h, n + 1)
  <2> DEFINE h == [s \in Level(n + 1) |-> IF s = {} THEN 0 ELSE v[Pick(s)] + g[s \ {Pick(s)}]]
  <2>1. ASSUME NEW s \in Level(n + 1), s # {} PROVE s \ {Pick(s)} \in Level(n)
    <3>1. Pick(s) \in s /\ s \in SUBSET S
      BY <2>1, PickIn
    <3>2. Cardinality(s) \in Nat /\ Cardinality(s \ {Pick(s)}) = Cardinality(s) - 1 /\ s \ {Pick(s)} \in SUBSET S
      BY <3>1, SmallerSet
    <3> QED
      BY <2>1, <3>2
  <2>2. Level(n) \subseteq Level(n + 1)
    BY FS_Subset, FS_CardinalityType
  <2>3. \A s \in Level(n) : h[s] = g[s]
    BY <1>2, <2>2, Zenon
  <2> HIDE DEF Level
  <2>4. \A s \in Level(n + 1) : h[s] = IF s = {} THEN 0 ELSE v[Pick(s)] + h[s \ {Pick(s)}]
    BY <2>1, <2>3, Zenon
  <2>5. h = [s \in Level(n + 1) |-> h[s]]
    BY Zenon
  <2> HIDE DEF h
  <2>6. h = [s \in Level(n + 1) |-> IF s = {} THEN 0 ELSE v[Pick(s)] + h[s \ {Pick(s)}]]
    BY <2>4, <2>5, Zenon
  <2> QED
    BY <2>6, Zenon
<1> HIDE DEF Solves
<1>3. Bad = {}
  <2> SUFFICES ASSUME Bad # {} PROVE FALSE
    OBVIOUS
  <2>1. PICK n \in Bad : \A m \in Bad : n <= m
    BY SmallestNumber, Zenon
  <2>2. n \in Nat /\ n # 0
    BY <1>1
  <2>3. n - 1 \in Nat /\ n - 1 \notin Bad /\ (n - 1) + 1 = n
    <3> HIDE DEF Bad
    <3> QED
      BY <2>1, <2>2
  <2>4. PICK g : Solves(g, n - 1)
    BY <2>3, Zenon
  <2>5. \E h : Solves(h, (n - 1) + 1)
    BY <1>2, <2>3, <2>4, Zenon
  <2> QED
    BY <2>1, <2>3, <2>5, Zenon
<1>4. Cardinality(S) \in Nat /\ Level(Cardinality(S)) = SUBSET S
  BY FS_Subset, FS_CardinalityType
<1>5. PICK g : Solves(g, Cardinality(S))
  BY <1>3, <1>4, Zenon
<1> USE DEF Solves
<1>6. g = [s \in SUBSET DOMAIN v |-> IF s = {} THEN 0 ELSE v[Pick(s)] + g[s \ {Pick(s)}]]
  BY <1>4, <1>5, Zenon
<1> QED
  BY <1>6, Zenon DEF Sums

\* The two equations of the recursion.
LEMMA SumsRecursion ==
    ASSUME NEW v, IsFiniteSet(DOMAIN v)
    PROVE  /\ Sums(v)[{}] = 0
           /\ \A s \in SUBSET DOMAIN v : s # {} => Sums(v)[s] = v[Pick(s)] + Sums(v)[s \ {Pick(s)}]
<1>1. ASSUME NEW s \in SUBSET DOMAIN v
      PROVE Sums(v)[s] = IF s = {} THEN 0 ELSE v[Pick(s)] + Sums(v)[s \ {Pick(s)}]
  <2> DEFINE k == [s1 \in SUBSET DOMAIN v |->
                        IF s1 = {} THEN 0 ELSE v[Pick(s1)] + Sums(v)[s1 \ {Pick(s1)}]]
  <2>1. Sums(v) = k
    BY SumsExist, Zenon
  <2>2. k[s] = IF s = {} THEN 0 ELSE v[Pick(s)] + Sums(v)[s \ {Pick(s)}]
    BY Zenon
  <2> QED
    BY <2>1, <2>2, Zenon
<1>2. {} \in SUBSET DOMAIN v
  OBVIOUS
<1> QED
  BY <1>1, <1>2, Zenon

\* A sum is an integer.
LEMMA SumsType ==
    ASSUME NEW S, IsFiniteSet(S), NEW v \in [S -> Int], NEW s \in SUBSET S
    PROVE  Sums(v)[s] \in Int
<1> DEFINE Bad == {t \in SUBSET S : Sums(v)[t] \notin Int}
<1>1. DOMAIN v = S
  OBVIOUS
<1> SUFFICES ASSUME Bad # {} PROVE FALSE
  OBVIOUS
<1>2. PICK t \in Bad : \A u \in Bad : Cardinality(t) <= Cardinality(u)
  BY SmallestSet, Zenon
<1>3. t # {}
  <2>1. Sums(v)[{}] = 0
    BY <1>1, SumsRecursion
  <2> QED
    BY <2>1
<1>4. Pick(t) \in t /\ t \in SUBSET S
  BY <1>3, PickIn
<1>5. /\ Cardinality(t) \in Nat /\ Cardinality(t \ {Pick(t)}) = Cardinality(t) - 1
      /\ t \ {Pick(t)} \in SUBSET S
  BY <1>4, SmallerSet
<1>6. t \ {Pick(t)} \notin Bad
  <2> HIDE DEF Bad
  <2> QED
    BY <1>2, <1>5
<1>7. Sums(v)[t] = v[Pick(t)] + Sums(v)[t \ {Pick(t)}]
  BY <1>1, <1>3, <1>4, SumsRecursion, Zenon
<1>8. v[Pick(t)] \in Int /\ Sums(v)[t \ {Pick(t)}] \in Int
  BY <1>4, <1>5, <1>6
<1> QED
  BY <1>7, <1>8

\* Any point of a set may be taken out first.
LEMMA SumsAnyOrder ==
    ASSUME NEW S, IsFiniteSet(S), NEW v \in [S -> Int], NEW s \in SUBSET S, NEW x \in s
    PROVE  Sums(v)[s] = v[x] + Sums(v)[s \ {x}]
<1> DEFINE Good(t) == \A y \in t : Sums(v)[t] = v[y] + Sums(v)[t \ {y}]
           Bad == {t \in SUBSET S : ~ Good(t)}
<1>1. DOMAIN v = S
  OBVIOUS
<1> SUFFICES ASSUME Bad # {} PROVE FALSE
  OBVIOUS
<1>2. PICK t \in Bad : \A u \in Bad : Cardinality(t) <= Cardinality(u)
  BY SmallestSet, Zenon
<1>3. t \in SUBSET S /\ ~ Good(t)
  OBVIOUS
<1>4. PICK y \in t : Sums(v)[t] # v[y] + Sums(v)[t \ {y}]
  BY <1>3, Zenon
<1>5. t # {}
  BY <1>4
<1> DEFINE p == Pick(t)
<1>6. p \in t
  BY <1>5, PickIn
<1>7. Sums(v)[t] = v[p] + Sums(v)[t \ {p}]
  BY <1>1, <1>3, <1>5, SumsRecursion
<1>8. p # y
  BY <1>4, <1>7, Zenon
<1>9. ASSUME NEW z \in t PROVE t \ {z} \in SUBSET S /\ Good(t \ {z})
  <2>1. /\ Cardinality(t) \in Nat /\ Cardinality(t \ {z}) = Cardinality(t) - 1
        /\ t \ {z} \in SUBSET S
    BY <1>3, SmallerSet
  <2>2. t \ {z} \notin Bad
    <3> HIDE DEF Bad
    <3> QED
      BY <1>2, <2>1
  <2> QED
    BY <2>1, <2>2, Zenon
<1>10. (t \ {p}) \ {y} = (t \ {y}) \ {p}
  OBVIOUS
<1>11. Sums(v)[t \ {p}] = v[y] + Sums(v)[(t \ {p}) \ {y}]
  BY <1>6, <1>8, <1>9, Zenon
<1>12. Sums(v)[t \ {y}] = v[p] + Sums(v)[(t \ {p}) \ {y}]
  <2>1. p \in t \ {y}
    BY <1>6, <1>8
  <2>2. Sums(v)[t \ {y}] = v[p] + Sums(v)[(t \ {y}) \ {p}]
    BY <1>9, <2>1, Zenon
  <2> QED
    BY <1>10, <2>2, Zenon
<1>13. v[p] \in Int /\ v[y] \in Int /\ Sums(v)[(t \ {p}) \ {y}] \in Int
  BY <1>3, <1>6, SumsType
<1> HIDE DEF p
<1> QED
  BY <1>4, <1>7, <1>11, <1>12, <1>13

\* A sum depends only on the values at the points summed over.
LEMMA SumsAgree ==
    ASSUME NEW S, IsFiniteSet(S), NEW v \in [S -> Int], NEW w \in [S -> Int], NEW s \in SUBSET S,
           \A x \in s : v[x] = w[x]
    PROVE  Sums(v)[s] = Sums(w)[s]
<1> DEFINE Bad == {t \in SUBSET s : Sums(v)[t] # Sums(w)[t]}
<1>1. DOMAIN v = S /\ DOMAIN w = S
  OBVIOUS
<1> SUFFICES ASSUME Bad # {} PROVE FALSE
  OBVIOUS
<1>2. PICK t \in Bad : \A u \in Bad : Cardinality(t) <= Cardinality(u)
  <2>1. Bad \in SUBSET SUBSET S
    OBVIOUS
  <2> HIDE DEF Bad
  <2> QED
    BY <2>1, SmallestSet
<1>3. t # {} /\ t \in SUBSET S /\ t \in SUBSET s
  BY <1>1, SumsRecursion, Zenon
<1>4. Pick(t) \in t
  BY <1>3, PickIn
<1>5. /\ Cardinality(t) \in Nat /\ Cardinality(t \ {Pick(t)}) = Cardinality(t) - 1
  BY <1>3, <1>4, SmallerSet, Zenon
<1>6. t \ {Pick(t)} \notin Bad
  <2> HIDE DEF Bad
  <2> QED
    BY <1>2, <1>5
<1>7. /\ Sums(v)[t] = v[Pick(t)] + Sums(v)[t \ {Pick(t)}]
      /\ Sums(w)[t] = w[Pick(t)] + Sums(w)[t \ {Pick(t)}]
  BY <1>1, <1>3, SumsRecursion, Zenon
<1>8. v[Pick(t)] = w[Pick(t)] /\ Sums(v)[t \ {Pick(t)}] = Sums(w)[t \ {Pick(t)}]
  BY <1>3, <1>4, <1>6
<1> QED
  BY <1>7, <1>8

\* The sum of the same value at every point.
LEMMA SumsConstant ==
    ASSUME NEW S, IsFiniteSet(S), NEW c \in Int, NEW v \in [S -> Int], \A x \in S : v[x] = c
    PROVE  Sums(v)[S] = Cardinality(S) * c
<1> DEFINE Bad == {t \in SUBSET S : Sums(v)[t] # Cardinality(t) * c}
<1>1. DOMAIN v = S
  OBVIOUS
<1> SUFFICES ASSUME Bad # {} PROVE FALSE
  OBVIOUS
<1>2. PICK t \in Bad : \A u \in Bad : Cardinality(t) <= Cardinality(u)
  BY SmallestSet, Zenon
<1>3. t # {} /\ t \in SUBSET S
  <2>1. Sums(v)[{}] = 0 /\ Cardinality({}) = 0
    BY <1>1, SumsRecursion, FS_EmptySet
  <2>2. 0 * c = 0
    OBVIOUS
  <2>3. t \in SUBSET S /\ Sums(v)[t] # Cardinality(t) * c
    OBVIOUS
  <2>4. t # {}
    BY <2>1, <2>2, <2>3, Zenon
  <2> QED
    BY <2>3, <2>4
<1>4. Pick(t) \in t
  BY <1>3, PickIn
<1>5. /\ Cardinality(t) \in Nat /\ Cardinality(t \ {Pick(t)}) = Cardinality(t) - 1
      /\ t \ {Pick(t)} \in SUBSET S
  BY <1>3, <1>4, SmallerSet, SMTT(30)
<1>6. t \ {Pick(t)} \notin Bad
  <2> HIDE DEF Bad
  <2> QED
    BY <1>2, <1>5
<1>7. Sums(v)[t] = v[Pick(t)] + Sums(v)[t \ {Pick(t)}]
  BY <1>1, <1>3, SumsRecursion
<1>8. v[Pick(t)] = c /\ Sums(v)[t \ {Pick(t)}] = (Cardinality(t) - 1) * c
  BY <1>3, <1>4, <1>5, <1>6
<1>9. \A k \in Nat : c + (k - 1) * c = k * c
  OBVIOUS
<1>10. Sums(v)[t] = Cardinality(t) * c
  BY <1>5, <1>7, <1>8, <1>9
<1> QED
  BY <1>10

\* What SumFunction gives: an integer, changed by a change at one point by the
\* difference, and as many times a constant as there are points.
LEMMA SumType ==
    ASSUME NEW S, IsFiniteSet(S), NEW v \in [S -> Int]
    PROVE  SumFunction(v) \in Int
BY SumIsLastOfSums, SumsType

SumChanges(v, w, x) == SumFunction(w) = SumFunction(v) + w[x] - v[x]

\* A function that differs at one place differs there by what its sum does.
LEMMA SumUpdate ==
    ASSUME NEW S, IsFiniteSet(S), NEW v \in [S -> Int], NEW w \in [S -> Int], NEW x \in S,
           \A y \in S : y # x => w[y] = v[y]
    PROVE  SumChanges(v, w, x)
<1>1. SumFunction(v) = Sums(v)[S] /\ SumFunction(w) = Sums(w)[S]
  BY SumIsLastOfSums
<1>2. Sums(v)[S] = v[x] + Sums(v)[S \ {x}] /\ Sums(w)[S] = w[x] + Sums(w)[S \ {x}]
  <2>1. S \in SUBSET S
    OBVIOUS
  <2>2. Sums(v)[S] = v[x] + Sums(v)[S \ {x}]
    BY <2>1, SumsAnyOrder
  <2>3. Sums(w)[S] = w[x] + Sums(w)[S \ {x}]
    BY <2>1, SumsAnyOrder
  <2> QED
    BY <2>2, <2>3
<1>3. Sums(v)[S \ {x}] = Sums(w)[S \ {x}]
  BY SumsAgree
<1>4. v[x] \in Int /\ w[x] \in Int /\ Sums(v)[S \ {x}] \in Int
  BY SumsType
<1> QED
  BY <1>1, <1>2, <1>3, <1>4 DEF SumChanges

\* The sum of a constant function.
LEMMA SumConstant ==
    ASSUME NEW S, IsFiniteSet(S), NEW c \in Int, NEW v \in [S -> Int], \A x \in S : v[x] = c
    PROVE  SumFunction(v) = Cardinality(S) * c
BY SumIsLastOfSums, SumsConstant

----------------------------------------------------------------------------
(* Histories of checkpoints *)

\* A sequence of checkpoints in the order of their epochs, none after e.
OrderedUpTo(h, e) ==
    /\ \E S : h \in Seq(S)
    /\ \A i \in DOMAIN h : /\ h[i].from \in Int
                           /\ h[i].from <= e
                           /\ \A j \in DOMAIN h : j < i => h[j].from < h[i].from

\* Adding a checkpoint for an epoch later than all keeps the order.
LEMMA AppendOrdered ==
    ASSUME NEW h, NEW e \in Int, NEW amount, OrderedUpTo(h, e),
           \A i \in DOMAIN h : h[i].from < e
    PROVE  OrderedUpTo(Append(h, Checkpoint(e, amount)), e)
<1>1. PICK S : h \in Seq(S)
  BY DEF OrderedUpTo
<1> DEFINE c == Checkpoint(e, amount)
           T == S \cup {c}
           g == Append(h, c)
<1>2. h \in Seq(T) /\ c \in T
  BY <1>1
<1>3. c.from = e
  BY DEF Checkpoint
<1> HIDE DEF c, T
<1>4. g \in Seq(T) /\ Len(g) = Len(h) + 1 /\ DOMAIN g = 1 .. Len(h) + 1
  BY <1>2
<1>5. g[Len(h) + 1] = c /\ \A i \in 1 .. Len(h) : g[i] = h[i]
  BY <1>2
<1>6. DOMAIN h = 1 .. Len(h) /\ Len(h) \in Nat
  BY <1>2
<1> HIDE DEF g
<1>7. \A i \in DOMAIN g : /\ g[i].from \in Int
                          /\ g[i].from <= e
                          /\ \A j \in DOMAIN g : j < i => g[j].from < g[i].from
  <2>1. c.from \in Int /\ c.from <= e
    BY <1>3
  <2>2. \A i \in 1 .. Len(h) : g[i].from \in Int /\ g[i].from < e
    BY <1>5, <1>6 DEF OrderedUpTo
  <2>3. \A i, j \in 1 .. Len(h) : j < i => g[j].from < g[i].from
    BY <1>5, <1>6, SMTT(30) DEF OrderedUpTo
  <2> QED
    BY <1>3, <1>4, <1>5, <1>6, <2>1, <2>2, <2>3
<1>8. \E X : g \in Seq(X)
  BY <1>4
<1>9. OrderedUpTo(g, e)
  BY <1>7, <1>8 DEF OrderedUpTo
<1> QED
  BY <1>9 DEF g, c

\* Changing the amount of the last checkpoint keeps the order.
LEMMA ReplaceOrdered ==
    ASSUME NEW h, NEW e \in Int, NEW amount, OrderedUpTo(h, e), h # <<>>,
           h[Len(h)].from = e
    PROVE  OrderedUpTo([h EXCEPT ![Len(h)] = Checkpoint(e, amount)], e)
<1>1. PICK S : h \in Seq(S)
  BY DEF OrderedUpTo
<1> DEFINE n == Len(h)
           c == Checkpoint(e, amount)
           T == S \cup {c}
           g == [h EXCEPT ![n] = c]
<1>2. h \in Seq(T) /\ c \in T /\ n \in Nat /\ DOMAIN h = 1 .. n
  BY <1>1
<1>3. c.from = e
  BY DEF Checkpoint
<1>4. n \in 1 .. n
  BY <1>2
<1> HIDE DEF c, T
<1>5. g \in [1 .. n -> T] /\ g[n] = c /\ \A i \in 1 .. n : i # n => g[i] = h[i]
  BY <1>2, <1>4
<1>6. g \in Seq(T)
  BY <1>2, <1>5
<1> HIDE DEF g
<1>7. DOMAIN g = 1 .. n /\ \A i \in 1 .. n : g[i].from = h[i].from
  BY <1>3, <1>5 DEF n
<1>8. \A i \in DOMAIN g : /\ g[i].from \in Int
                          /\ g[i].from <= e
                          /\ \A j \in DOMAIN g : j < i => g[j].from < g[i].from
  BY <1>2, <1>7 DEF OrderedUpTo
<1>9. OrderedUpTo(g, e)
  BY <1>6, <1>8 DEF OrderedUpTo
<1> QED
  BY <1>9 DEF g, c, n

\* Dropping the last checkpoint keeps the order.
LEMMA DropOrdered ==
    ASSUME NEW h, NEW e \in Int, OrderedUpTo(h, e), Len(h) > 1
    PROVE  OrderedUpTo(SubSeq(h, 1, Len(h) - 1), e)
<1>1. PICK S : h \in Seq(S)
  BY DEF OrderedUpTo
<1> DEFINE n == Len(h)
           g == SubSeq(h, 1, n - 1)
<1>2. n \in Nat /\ DOMAIN h = 1 .. n
  BY <1>1
<1>3. g \in Seq(S) /\ DOMAIN g = 1 .. n - 1 /\ \A i \in 1 .. n - 1 : g[i] = h[i]
  BY <1>1, <1>2
<1> HIDE DEF g, n
<1>4. \A i \in DOMAIN g : /\ g[i].from \in Int
                          /\ g[i].from <= e
                          /\ \A j \in DOMAIN g : j < i => g[j].from < g[i].from
  BY <1>2, <1>3 DEF OrderedUpTo
<1>5. OrderedUpTo(g, e)
  BY <1>3, <1>4 DEF OrderedUpTo
<1> QED
  BY <1>5 DEF g, n

\* A non-empty set of positions has a last one.
LEMMA LastPosition ==
    ASSUME NEW n \in Nat, NEW P \in SUBSET (1 .. n), P # {}
    PROVE  \E i \in P : \A j \in P : j <= i
<1> DEFINE D == {n - j : j \in P}
<1>1. \A j \in P : j \in Nat /\ j <= n /\ n - j \in Nat
  OBVIOUS
<1>2. D \subseteq Nat /\ D # {}
  BY <1>1, Zenon
<1>3. PICK x \in D : \A y \in D : ~ (<<y, x>> \in OpToRel(<, Nat))
  BY <1>2, NatLessThanWellFounded, WFMin, ZenonT(30)
<1>4. PICK i \in P : x = n - i
  OBVIOUS
<1>5. ASSUME NEW j \in P PROVE j <= i
  <2>1. n - j \in D /\ n - j \in Nat /\ x \in Nat
    BY <1>2
  <2>2. ~ (n - j < x)
    BY <1>3, <2>1, Zenon DEF OpToRel
  <2> QED
    BY <1>1, <1>4, <2>1, <2>2
<1> QED
  BY <1>5

\* What a history says of an epoch depends only on its checkpoints before a
\* later one.
LEMMA StakeAtDependsOnPast ==
    ASSUME NEW g, NEW h, NEW e \in Int, OrderedUpTo(g, e), OrderedUpTo(h, e),
           \A i \in DOMAIN g : g[i].from < e => i \in DOMAIN h /\ h[i] = g[i],
           \A i \in DOMAIN h : h[i].from < e => i \in DOMAIN g /\ g[i] = h[i],
           NEW p \in Int, p < e
    PROVE  StakeAt(g, p) = StakeAt(h, p)
<1> DEFINE Last(s, i) == s[i].from <= p /\ \A j \in DOMAIN s : s[j].from <= p => j <= i
<1>1. DOMAIN g \subseteq Int /\ DOMAIN h \subseteq Int
  BY DEF OrderedUpTo
<1>2. \A i \in DOMAIN g : g[i].from <= p => i \in DOMAIN h /\ h[i] = g[i]
  BY DEF OrderedUpTo
<1>3. \A i \in DOMAIN h : h[i].from <= p => i \in DOMAIN g /\ g[i] = h[i]
  BY DEF OrderedUpTo
<1>4. (\E i \in DOMAIN g : g[i].from <= p) <=> (\E i \in DOMAIN h : h[i].from <= p)
  BY <1>2, <1>3
<1>5. \A i : (i \in DOMAIN g /\ Last(g, i)) <=> (i \in DOMAIN h /\ Last(h, i))
  BY <1>2, <1>3
<1>6. CASE ~ \E i \in DOMAIN g : g[i].from <= p
  BY <1>4, <1>6 DEF StakeAt
<1>7. CASE \E i \in DOMAIN g : g[i].from <= p
  <2> DEFINE a == CHOOSE i \in DOMAIN g : Last(g, i)
             b == CHOOSE i \in DOMAIN h : Last(h, i)
  <2>1. a = b
    BY <1>5
  <2>2. StakeAt(g, p) = g[a].amount /\ StakeAt(h, p) = h[b].amount
    BY <1>4, <1>7 DEF StakeAt
  <2>3. PICK S : g \in Seq(S)
    BY DEF OrderedUpTo
  <2>4. Len(g) \in Nat /\ DOMAIN g = 1 .. Len(g)
    BY <2>3
  <2>5. PICK i \in {k \in DOMAIN g : g[k].from <= p} :
          \A j \in {k \in DOMAIN g : g[k].from <= p} : j <= i
    BY <1>7, <2>4, LastPosition, Zenon
  <2>6. a \in DOMAIN g /\ Last(g, a)
    BY <2>5
  <2>7. g[a] = h[a]
    BY <1>2, <2>6
  <2> QED
    BY <2>1, <2>2, <2>7, Zenon
<1> QED
  BY <1>6, <1>7

\* One update of a history keeps the order, leaves a checkpoint, and changes
\* nothing before its epoch.
LEMMA UpdateOrAdd ==
    ASSUME NEW h, NEW e \in Int, NEW amount, OrderedUpTo(h, e)
    PROVE  /\ OrderedUpTo(UpdateOrAddCheckpoint(h, e, amount), e)
           /\ UpdateOrAddCheckpoint(h, e, amount) # <<>>
           /\ \A p \in Int : p < e =>
                StakeAt(UpdateOrAddCheckpoint(h, e, amount), p) = StakeAt(h, p)
<1>1. PICK S : h \in Seq(S)
  BY DEF OrderedUpTo
<1> DEFINE n == Len(h)
           c == Checkpoint(e, amount)
           g == UpdateOrAddCheckpoint(h, e, amount)
<1>2. n \in Nat /\ DOMAIN h = 1 .. n /\ c.from = e
  BY <1>1 DEF Checkpoint
<1>3. ASSUME OrderedUpTo(g, e), g # <<>>,
             \A i \in DOMAIN g : g[i].from < e => i \in DOMAIN h /\ h[i] = g[i],
             \A i \in DOMAIN h : h[i].from < e => i \in DOMAIN g /\ g[i] = h[i]
      PROVE  /\ OrderedUpTo(g, e)
             /\ g # <<>>
             /\ \A p \in Int : p < e => StakeAt(g, p) = StakeAt(h, p)
  BY <1>3, StakeAtDependsOnPast
<1>4. CASE n > 1 /\ h[n].from = e /\ h[n - 1].amount = amount
  <2>1. g = SubSeq(h, 1, n - 1)
    BY <1>2, <1>4 DEF UpdateOrAddCheckpoint
  <2>2. DOMAIN g = 1 .. n - 1 /\ \A i \in 1 .. n - 1 : g[i] = h[i]
    BY <1>1, <1>2, <1>4, <2>1
  <2>3. OrderedUpTo(g, e) /\ g # <<>>
    <3>1. Len(h) > 1 /\ h[Len(h)].from = e
      BY <1>4
    <3>2. OrderedUpTo(SubSeq(h, 1, Len(h) - 1), e)
      BY <3>1, DropOrdered
    <3>3. 1 \in DOMAIN g
      BY <1>2, <1>4, <2>2
    <3>4. OrderedUpTo(g, e)
      BY <2>1, <3>2
    <3>5. g # <<>>
      <4> HIDE DEF g
      <4> QED
        BY <3>3
    <3> QED
      BY <3>4, <3>5
  <2>4. \A i \in DOMAIN h : h[i].from < e => i \in 1 .. n - 1
    BY <1>2, <1>4
  <2> QED
    BY <1>2, <1>3, <2>2, <2>3, <2>4
<1>5. CASE n > 0 /\ h[n].from = e /\ ~ (n > 1 /\ h[n - 1].amount = amount)
  <2>1. g = [h EXCEPT ![n] = c]
    BY <1>2, <1>5, Zenon DEF UpdateOrAddCheckpoint
  <2>2. DOMAIN g = 1 .. n /\ g[n] = c /\ \A i \in 1 .. n - 1 : g[i] = h[i]
    BY <1>2, <1>5, <2>1
  <2>3. h # <<>>
    BY <1>2, <1>5
  <2>6. OrderedUpTo(g, e)
    <3>1. h[Len(h)].from = e
      BY <1>5
    <3>2. OrderedUpTo([h EXCEPT ![Len(h)] = Checkpoint(e, amount)], e)
      BY <2>3, <3>1, ReplaceOrdered, Zenon
    <3> QED
      BY <2>1, <3>2
  <2>7. g # <<>>
    BY <1>2, <1>5, <2>2
  <2>4. OrderedUpTo(g, e) /\ g # <<>>
    BY <2>6, <2>7
  <2>5. \A i \in 1 .. n : h[i].from < e \/ g[i].from < e => i \in 1 .. n - 1
    BY <1>2, <1>5, <2>2
  <2> QED
    BY <1>2, <1>3, <2>2, <2>4, <2>5, SMTT(30)
<1>6. CASE ~ (n > 0 /\ h[n].from = e)
  <2>1. g = Append(h, c)
    BY <1>2, <1>6, Zenon DEF UpdateOrAddCheckpoint
  <2>2. DOMAIN g = 1 .. n + 1 /\ g[n + 1] = c /\ \A i \in 1 .. n : g[i] = h[i]
    BY <1>1, <1>2, <2>1
  <2>3. \A i \in DOMAIN h : h[i].from < e
    BY <1>2, <1>6 DEF OrderedUpTo
  <2>4. OrderedUpTo(g, e) /\ g # <<>>
    BY <2>1, <2>2, <2>3, <1>2, AppendOrdered
  <2>5. \A i \in 1 .. n + 1 : g[i].from < e => i \in 1 .. n
    BY <1>2, <2>2
  <2> QED
    BY <1>2, <1>3, <2>2, <2>4, <2>5, SMTT(30)
<1> QED
  BY <1>2, <1>4, <1>5, <1>6

\* A history that is in order stays so when time passes.
LEMMA OrderedLater ==
    ASSUME NEW h, NEW e \in Int, OrderedUpTo(h, e)
    PROVE  OrderedUpTo(h, e + 1)
BY DEF OrderedUpTo

\* A history with at most one checkpoint is in order.
LEMMA ShortOrdered ==
    ASSUME NEW e \in Int, NEW amount
    PROVE  OrderedUpTo(<<>>, e) /\ OrderedUpTo(<<Checkpoint(e, amount)>>, e)
<1>1. OrderedUpTo(<<>>, e)
  <2>1. <<>> \in Seq({})
    OBVIOUS
  <2> QED
    BY <2>1 DEF OrderedUpTo
<1>2. Append(<<>>, Checkpoint(e, amount)) = <<Checkpoint(e, amount)>>
  OBVIOUS
<1>3. OrderedUpTo(Append(<<>>, Checkpoint(e, amount)), e)
  <2>1. \A i \in DOMAIN <<>> : <<>>[i].from < e
    OBVIOUS
  <2> QED
    BY <1>1, <2>1, AppendOrdered, Zenon
<1> QED
  BY <1>1, <1>2, <1>3

----------------------------------------------------------------------------
(* The queries: getForgerStakesPerEpoch finds its first checkpoint by binary *)
(* search and walks backwards from there.                                 *)

Mid(range) == (range[2] + range[1]) \div 2

\* One step of the search: where it ends or which half it goes on with.
Found(range) == IF range[2] = 0 THEN 0 ELSE range[2] - 1
SearchStep(h, e, s, range) ==
    IF range[1] >= range[2] THEN Found(range)
    ELSE IF h[Mid(range) + 1].from = e THEN Mid(range)
    ELSE IF h[Mid(range) + 1].from > e THEN s[<<range[1], Mid(range)>>]
    ELSE s[<<Mid(range) + 1, range[2]>>]

Ranges(h) == (0 .. Len(h)) \X (0 .. Len(h))

Search(h, e) == CHOOSE s : s = [range \in Ranges(h) |-> SearchStep(h, e, s, range)]

\* SearchBetween is the solution of that recursion.
LEMMA SearchBetweenIs ==
    ASSUME NEW h, NEW e, NEW lo, NEW hi
    PROVE  SearchBetween(h, e, lo, hi) = Search(h, e)[<<lo, hi>>]
BY Zenon DEF SearchBetween, Search, Ranges, SearchStep, Found, Mid

\* Both halves are shorter.
LEMMA Halves ==
    ASSUME NEW n \in Nat, NEW range \in (0 .. n) \X (0 .. n), range[1] < range[2]
    PROVE  /\ Mid(range) \in 0 .. n /\ Mid(range) + 1 \in 0 .. n
           /\ range[1] <= Mid(range) /\ Mid(range) < range[2]
BY DEF Mid

\* The recursion of the search has a solution.
LEMMA SearchExists ==
    ASSUME NEW h, NEW e, Len(h) \in Nat
    PROVE  Search(h, e) = [range \in Ranges(h) |-> SearchStep(h, e, Search(h, e), range)]
<1> DEFINE R == (0 .. Len(h)) \X (0 .. Len(h))
           Level(k) == {range \in R : range[2] - range[1] <= k}
           Solves(g, k) == g = [range \in Level(k) |-> SearchStep(h, e, g, range)]
           Bad == {k \in Nat : ~ \E g : Solves(g, k)}
<1>1. \E g : Solves(g, 0)
  <2> DEFINE g == [range \in Level(0) |-> Found(range)]
  <2>1. \A range \in Level(0) : range[1] >= range[2]
    OBVIOUS
  <2>2. \A range \in Level(0) : SearchStep(h, e, g, range) = Found(range)
    BY <2>1, Zenon DEF SearchStep
  <2>3. Solves(g, 0)
    BY <2>2, Zenon
  <2> QED
    BY <2>3, Zenon
<1>2. ASSUME NEW k \in Nat, NEW g, Solves(g, k) PROVE \E f : Solves(f, k + 1)
  <2> DEFINE f == [range \in Level(k + 1) |-> SearchStep(h, e, g, range)]
  <2>1. ASSUME NEW range \in Level(k + 1), ~ (range[1] >= range[2])
        PROVE  <<range[1], Mid(range)>> \in Level(k) /\ <<Mid(range) + 1, range[2]>> \in Level(k)
    <3>1. range \in R /\ range[1] < range[2] /\ range[2] - range[1] <= k + 1
      BY <2>1
    <3>2. /\ Mid(range) \in 0 .. Len(h) /\ Mid(range) + 1 \in 0 .. Len(h)
          /\ range[1] <= Mid(range) /\ Mid(range) < range[2]
      BY <3>1, Halves
    <3> QED
      BY <3>1, <3>2
  <2>2. Level(k) \subseteq Level(k + 1)
    OBVIOUS
  <2>3. \A range \in Level(k) : f[range] = g[range]
    BY <1>2, <2>2, Zenon
  <2> HIDE DEF Level
  <2>4. \A range \in Level(k + 1) : SearchStep(h, e, f, range) = SearchStep(h, e, g, range)
    BY <2>1, <2>3, Zenon DEF SearchStep
  <2>5. f = [range \in Level(k + 1) |-> SearchStep(h, e, f, range)]
    <3>1. \A range \in Level(k + 1) : f[range] = SearchStep(h, e, f, range)
      BY <2>4, Zenon
    <3>2. f = [range \in Level(k + 1) |-> f[range]]
      BY Zenon
    <3> HIDE DEF f
    <3> QED
      BY <3>1, <3>2
  <2> QED
    BY <2>5, Zenon
<1> HIDE DEF Solves
<1>3. Bad = {}
  <2> SUFFICES ASSUME Bad # {} PROVE FALSE
    OBVIOUS
  <2>1. PICK n \in Bad : \A m \in Bad : n <= m
    BY SmallestNumber, Zenon
  <2>2. n \in Nat /\ n # 0
    BY <1>1
  <2>3. n - 1 \in Nat /\ n - 1 \notin Bad /\ (n - 1) + 1 = n
    <3> HIDE DEF Bad
    <3> QED
      BY <2>1, <2>2
  <2>4. PICK g : Solves(g, n - 1)
    BY <2>3, Zenon
  <2>5. \E f : Solves(f, (n - 1) + 1)
    BY <1>2, <2>3, <2>4, Zenon
  <2> QED
    BY <2>1, <2>3, <2>5, Zenon
<1>4. Level(Len(h)) = R
  OBVIOUS
<1>5. PICK g : Solves(g, Len(h))
  BY <1>3, Zenon
<1>6. g = [range \in Ranges(h) |-> SearchStep(h, e, g, range)]
  BY <1>4, <1>5, Zenon DEF Solves, Ranges
<1> QED
  BY <1>6, Zenon DEF Search

\* A step of the binary search.
LEMMA SearchRecursion ==
    ASSUME NEW h, NEW e, Len(h) \in Nat, NEW range \in Ranges(h)
    PROVE  Search(h, e)[range] = SearchStep(h, e, Search(h, e), range)
<1> DEFINE s == Search(h, e)
           t == [r \in Ranges(h) |-> SearchStep(h, e, s, r)]
<1>1. s = t
  BY SearchExists, Zenon
<1>2. t[range] = SearchStep(h, e, s, range)
  BY Zenon
<1> QED
  BY <1>1, <1>2, Zenon

\* The checkpoint at index i is the last one that is not after epoch e.
InForce(h, e, i) ==
    /\ i \in -1 .. Len(h) - 1
    /\ \A j \in 1 .. Len(h) : /\ j <= i + 1 => h[j].from <= e
                              /\ j > i + 1 => h[j].from > e

\* All checkpoints before the range are before epoch e, all after it are after.
Narrowed(h, e, range) ==
    /\ range[1] <= range[2]
    /\ \A j \in 1 .. Len(h) : /\ j <= range[1] => h[j].from < e
                              /\ j > range[2] => h[j].from > e

\* The order of a history in terms of its length.
LEMMA OrderedByIndex ==
    ASSUME NEW h, NEW top \in Int, OrderedUpTo(h, top)
    PROVE  /\ Len(h) \in Nat /\ DOMAIN h = 1 .. Len(h)
           /\ h # <<>> => Len(h) > 0
           /\ \A i \in 1 .. Len(h) : h[i].from \in Int
           /\ \A i, j \in 1 .. Len(h) : j < i => h[j].from < h[i].from
<1>1. PICK S : h \in Seq(S)
  BY DEF OrderedUpTo
<1>2. Len(h) \in Nat /\ DOMAIN h = 1 .. Len(h) /\ (h # <<>> => Len(h) > 0)
  BY <1>1
<1>3. \A i \in 1 .. Len(h) : h[i].from \in Int /\ \A j \in 1 .. Len(h) : j < i => h[j].from < h[i].from
  BY <1>2, Zenon DEF OrderedUpTo
<1> QED
  BY <1>2, <1>3

\* One step of the search from a range that is narrowed.
LEMMA SearchNarrows ==
    ASSUME NEW h, NEW n \in Nat, Len(h) = n, NEW e \in Int, n > 0, h[1].from <= e,
           \A i \in 1 .. n : h[i].from \in Int,
           \A i, j \in 1 .. n : j < i => h[j].from < h[i].from,
           NEW range \in (0 .. n) \X (0 .. n), Narrowed(h, e, range)
    PROVE  /\ range[1] >= range[2] => InForce(h, e, Found(range))
           /\ range[1] < range[2] =>
                /\ h[Mid(range) + 1].from = e => InForce(h, e, Mid(range))
                /\ h[Mid(range) + 1].from > e => Narrowed(h, e, <<range[1], Mid(range)>>)
                /\ h[Mid(range) + 1].from < e => Narrowed(h, e, <<Mid(range) + 1, range[2]>>)
<1> DEFINE lo == range[1]
           hi == range[2]
           m == Mid(range)
<1>1. lo \in 0 .. n /\ hi \in 0 .. n /\ lo <= hi
  BY DEF Narrowed
<1>2. \A j \in 1 .. n : (j <= lo => h[j].from < e) /\ (j > hi => h[j].from > e)
  BY DEF Narrowed
<1>3. ASSUME lo >= hi PROVE InForce(h, e, Found(range))
  <2>1. lo = hi
    BY <1>1, <1>3
  <2>2. hi # 0
    <3>1. 1 \in 1 .. n /\ h[1].from \in Int
      OBVIOUS
    <3> QED
      BY <1>2, <3>1
  <2>3. Found(range) = hi - 1
    BY <2>2 DEF Found
  <2> HIDE DEF lo, hi
  <2>4. hi - 1 \in -1 .. n - 1 /\ (hi - 1) + 1 = hi
    BY <1>1, <2>2
  <2>5. \A j \in 1 .. n : (j <= hi => h[j].from <= e) /\ (j > hi => h[j].from > e)
    BY <1>1, <1>2, <2>1
  <2> QED
    BY <2>3, <2>4, <2>5 DEF InForce
<1>4. ASSUME lo < hi
      PROVE  /\ h[m + 1].from = e => InForce(h, e, m)
             /\ h[m + 1].from > e => Narrowed(h, e, <<lo, m>>)
             /\ h[m + 1].from < e => Narrowed(h, e, <<m + 1, hi>>)
  <2>1. m \in 0 .. n /\ m + 1 \in 1 .. n /\ lo <= m /\ m < hi
    BY <1>1, <1>4, Halves
  <2>2. \A j \in 1 .. n : /\ j < m + 1 => h[j].from < h[m + 1].from
                          /\ j > m + 1 => h[j].from > h[m + 1].from
    BY <2>1
  <2>3. h[m + 1].from \in Int /\ \A j \in 1 .. n : h[j].from \in Int
    BY <2>1
  <2> HIDE DEF lo, hi, m
  <2>4. h[m + 1].from = e => InForce(h, e, m)
    <3>1. m \in -1 .. n - 1
      BY <2>1
    <3>2. ASSUME h[m + 1].from = e, NEW j \in 1 .. n
          PROVE  (j <= m + 1 => h[j].from <= e) /\ (j > m + 1 => h[j].from > e)
      BY <2>1, <2>2, <2>3, <3>2, SMTT(30)
    <3> QED
      BY <3>1, <3>2 DEF InForce
  <2>5. h[m + 1].from > e => Narrowed(h, e, <<lo, m>>)
    <3>1. ASSUME h[m + 1].from > e, NEW j \in 1 .. n
          PROVE  (j <= lo => h[j].from < e) /\ (j > m => h[j].from > e)
      BY <1>2, <2>1, <2>2, <2>3, <3>1, SMTT(30)
    <3> QED
      BY <2>1, <3>1 DEF Narrowed
  <2>6. h[m + 1].from < e => Narrowed(h, e, <<m + 1, hi>>)
    <3>1. ASSUME h[m + 1].from < e, NEW j \in 1 .. n
          PROVE  (j <= m + 1 => h[j].from < e) /\ (j > hi => h[j].from > e)
      <4>1. h[j].from \in Int /\ (j < m + 1 => h[j].from < h[m + 1].from) /\ (j > hi => h[j].from > e)
        BY <1>2, <2>2, <2>3
      <4>2. j <= m + 1 => j < m + 1 \/ j = m + 1
        BY <2>1
      <4> QED
        BY <2>3, <3>1, <4>1, <4>2
    <3>2. m + 1 <= hi
      BY <1>1, <2>1
    <3> QED
      BY <3>1, <3>2 DEF Narrowed
  <2> QED
    BY <2>4, <2>5, <2>6
<1> QED
  BY <1>3, <1>4

\* The search of a narrowed range finds the checkpoint in force.
LEMMA SearchFinds ==
    ASSUME NEW h, NEW n \in Nat, Len(h) = n, NEW e \in Int, n > 0, h[1].from <= e,
           \A i \in 1 .. n : h[i].from \in Int,
           \A i, j \in 1 .. n : j < i => h[j].from < h[i].from,
           NEW start \in (0 .. n) \X (0 .. n), Narrowed(h, e, start)
    PROVE  InForce(h, e, Search(h, e)[start])
<1> DEFINE R == (0 .. n) \X (0 .. n)
           s == Search(h, e)
           Fails(range) == Narrowed(h, e, range) /\ ~ InForce(h, e, s[range])
           Bad == {range[2] - range[1] : range \in {r \in R : Fails(r)}}
<1>1. \A range \in R : s[range] = SearchStep(h, e, s, range)
  BY SearchRecursion DEF Ranges
<1> HIDE DEF s
<1> SUFFICES ASSUME Fails(start) PROVE FALSE
  BY DEF s
<1>2. Bad \subseteq Nat /\ Bad # {}
  <2>1. ASSUME NEW r \in R, Fails(r) PROVE r[2] - r[1] \in Nat
    BY <2>1 DEF Narrowed
  <2> HIDE DEF Fails
  <2> QED
    BY <2>1
<1>3. PICK k \in Bad : \A m \in Bad : k <= m
  BY <1>2, SmallestNumber, Zenon
<1>4. PICK range \in R : Fails(range) /\ k = range[2] - range[1]
  OBVIOUS
<1>5. ASSUME NEW r \in R, r[2] - r[1] < range[2] - range[1], Narrowed(h, e, r) PROVE InForce(h, e, s[r])
  <2> SUFFICES ASSUME ~ InForce(h, e, s[r]) PROVE FALSE
    OBVIOUS
  <2>1. r[2] - r[1] \in Bad
    BY <1>5
  <2>2. k <= r[2] - r[1] /\ r[2] - r[1] \in Int /\ k \in Int
    <3> HIDE DEF Bad
    <3> QED
      BY <1>2, <1>3, <2>1, SMTT(30)
  <2> QED
    BY <1>4, <1>5, <2>2, SMTT(20)
<1>6. /\ range[1] >= range[2] => InForce(h, e, Found(range))
      /\ range[1] < range[2] =>
           /\ h[Mid(range) + 1].from = e => InForce(h, e, Mid(range))
           /\ h[Mid(range) + 1].from > e => Narrowed(h, e, <<range[1], Mid(range)>>)
           /\ h[Mid(range) + 1].from < e => Narrowed(h, e, <<Mid(range) + 1, range[2]>>)
  BY <1>4, SearchNarrows, Zenon
<1>7. s[range] = SearchStep(h, e, s, range) /\ ~ InForce(h, e, s[range])
  BY <1>1, <1>4
<1>8. range[1] < range[2] /\ range[1] \in 0 .. n /\ range[2] \in 0 .. n
  <2>1. range[1] \in 0 .. n /\ range[2] \in 0 .. n
    BY <1>4
  <2>2. ~ (range[1] >= range[2])
    BY <1>6, <1>7, Zenon DEF SearchStep
  <2> QED
    BY <2>1, <2>2
<1>9. /\ Mid(range) \in 0 .. n /\ Mid(range) + 1 \in 1 .. n
      /\ range[1] <= Mid(range) /\ Mid(range) < range[2]
  BY <1>4, <1>8, Halves, SMTT(30)
<1> DEFINE left == <<range[1], Mid(range)>>
           right == <<Mid(range) + 1, range[2]>>
<1>10. left \in R /\ right \in R
  BY <1>8, <1>9
<1>11. left[2] - left[1] < range[2] - range[1] /\ right[2] - right[1] < range[2] - range[1]
  BY <1>8, <1>9
<1>12. h[Mid(range) + 1].from \in Int
  BY <1>9, SMTT(30)
<1> HIDE DEF left, right
<1>13. s[range] = IF h[Mid(range) + 1].from = e THEN Mid(range)
                  ELSE IF h[Mid(range) + 1].from > e THEN s[left] ELSE s[right]
  <2>1. ~ (range[1] >= range[2])
    BY <1>8
  <2> QED
    BY <1>7, <2>1, Zenon DEF SearchStep, left, right
<1>14. CASE h[Mid(range) + 1].from = e
  BY <1>6, <1>7, <1>8, <1>13, <1>14
<1>15. CASE h[Mid(range) + 1].from > e
  <2>1. s[range] = s[left] /\ Narrowed(h, e, left)
    BY <1>6, <1>8, <1>12, <1>13, <1>15 DEF left
  <2> QED
    BY <1>5, <1>7, <1>10, <1>11, <2>1, ZenonT(30)
<1>16. CASE h[Mid(range) + 1].from < e
  <2>1. s[range] = s[right] /\ Narrowed(h, e, right)
    BY <1>6, <1>8, <1>12, <1>13, <1>16, SMTT(30) DEF right
  <2> QED
    BY <1>5, <1>7, <1>10, <1>11, <2>1, ZenonT(30)
<1> QED
  BY <1>12, <1>14, <1>15, <1>16, SMTT(30)

\* The rounded square root of a positive number is positive.
LEMMA RoundSqrtInside ==
    ASSUME NEW n \in Nat, n > 0
    PROVE  RoundSqrt(n) \in 1 .. n
<1> DEFINE Odd(r) == (2 * r + 1) * (2 * r + 1)
           Above == {r \in Nat : 4 * n < Odd(r)}
           Fits(r) == (2 * r - 1) * (2 * r - 1) <= 4 * n /\ 4 * n < (2 * r + 1) * (2 * r + 1)
<1>1. n \in Above
  <2>1. Odd(n) = 4 * (n * n) + 4 * n + 1
    OBVIOUS
  <2>2. n * n \in Nat
    OBVIOUS
  <2> QED
    BY <2>1, <2>2
<1>2. PICK r \in Above : \A m \in Above : r <= m
  BY <1>1, SmallestNumber, Zenon
<1>3. r \in Nat /\ 4 * n < Odd(r) /\ r <= n
  BY <1>1, <1>2
<1>4. r # 0
  <2>1. Odd(0) = 1
    OBVIOUS
  <2> QED
    BY <1>3, <2>1
<1>5. Odd(r - 1) <= 4 * n
  <2>1. r - 1 \in Nat /\ r - 1 \notin Above
    <3>1. r - 1 \in Nat /\ ~ (r <= r - 1)
      BY <1>3, <1>4
    <3> HIDE DEF Above
    <3> QED
      BY <1>2, <3>1
  <2>2. Odd(r - 1) \in Int
    BY <1>3
  <2> HIDE DEF Odd
  <2> QED
    BY <2>1, <2>2
<1>6. Odd(r - 1) = (2 * r - 1) * (2 * r - 1)
  BY <1>3
<1>7. r \in 0 .. n /\ Fits(r)
  BY <1>3, <1>5, <1>6
<1>8. RoundSqrt(n) \in 0 .. n /\ Fits(RoundSqrt(n))
  <2> HIDE DEF Fits
  <2> DEFINE c == CHOOSE x \in 0 .. n : Fits(x)
  <2>1. c \in 0 .. n /\ Fits(c)
    BY <1>7, Zenon
  <2>2. RoundSqrt(n) = c
    BY Zenon DEF RoundSqrt, Fits
  <2> QED
    BY <2>1, <2>2, Zenon
<1>9. RoundSqrt(n) # 0
  <2>1. (2 * 0 + 1) * (2 * 0 + 1) = 1
    OBVIOUS
  <2> SUFFICES ASSUME RoundSqrt(n) = 0 PROVE FALSE
    OBVIOUS
  <2>2. 4 * n < 1
    BY <1>8, <2>1
  <2> QED
    BY <2>2
<1> QED
  BY <1>8, <1>9

\* checkpointBSearch finds the checkpoint in force, whichever part of the
\* history it looks at.
LEMMA BSearchFinds ==
    ASSUME NEW h, NEW top \in Int, OrderedUpTo(h, top), h # <<>>, NEW e \in Int, h[1].from <= e
    PROVE  InForce(h, e, CheckpointBSearch(h, e))
<1> DEFINE n == Len(h)
           m == n - RoundSqrt(n)
<1>1. n \in Nat /\ n > 0 /\ \A i \in 1 .. n : h[i].from \in Int
  BY OrderedByIndex
<1>2. \A i, j \in 1 .. n : j < i => h[j].from < h[i].from
  BY OrderedByIndex
<1>3. ASSUME NEW r \in (0 .. n) \X (0 .. n), Narrowed(h, e, r) PROVE InForce(h, e, Search(h, e)[r])
  BY <1>1, <1>2, <1>3, SearchFinds, Zenon
<1>4. ASSUME NEW lo \in 0 .. n, NEW hi \in 0 .. n, Narrowed(h, e, <<lo, hi>>)
      PROVE  InForce(h, e, SearchBetween(h, e, lo, hi))
  <2>1. <<lo, hi>> \in (0 .. n) \X (0 .. n)
    OBVIOUS
  <2> QED
    BY <1>3, <1>4, <2>1, SearchBetweenIs, Zenon
<1>5. CASE n <= 5
  <2>1. 0 \in 0 .. n /\ n \in 0 .. n /\ Narrowed(h, e, <<0, n>>)
    BY <1>1 DEF Narrowed
  <2>2. CheckpointBSearch(h, e) = SearchBetween(h, e, 0, n)
    BY <1>5 DEF CheckpointBSearch
  <2> QED
    BY <1>4, <2>1, <2>2, Zenon
<1>6. CASE ~ (n <= 5)
  <2>1. CheckpointBSearch(h, e) = IF h[m + 1].from = e THEN m
                                  ELSE IF h[m + 1].from > e THEN SearchBetween(h, e, 0, m)
                                  ELSE SearchBetween(h, e, m + 1, n)
    BY <1>6, Zenon DEF CheckpointBSearch
  <2>2. RoundSqrt(n) \in 1 .. n
    BY <1>1, RoundSqrtInside
  <2>3. m \in 0 .. n - 1 /\ m + 1 \in 1 .. n
    BY <1>1, <2>2
  <2> HIDE DEF m, n
  <2>4. h[m + 1].from \in Int
    BY <1>1, <2>3
  <2>5. \A j \in 1 .. n : /\ h[j].from \in Int
                          /\ j < m + 1 => h[j].from < h[m + 1].from
                          /\ j > m + 1 => h[j].from > h[m + 1].from
    BY <1>1, <1>2, <2>3
  <2>6. CASE h[m + 1].from = e
    <3>1. \A j \in 1 .. n : (j <= m + 1 => h[j].from <= e) /\ (j > m + 1 => h[j].from > e)
      BY <2>3, <2>4, <2>5, <2>6
    <3>2. m \in -1 .. n - 1
      BY <1>1, <2>3
    <3>3. InForce(h, e, m)
      BY <3>1, <3>2, Zenon DEF InForce, n
    <3> QED
      BY <2>1, <2>6, <3>3, Zenon
  <2>7. CASE h[m + 1].from > e
    <3>1. \A j \in 1 .. n : (j <= 0 => h[j].from < e) /\ (j > m => h[j].from > e)
      BY <1>1, <2>3, <2>4, <2>5, <2>7, SMTT(20)
    <3>2. 0 \in 0 .. n /\ m \in 0 .. n /\ Narrowed(h, e, <<0, m>>)
      BY <1>1, <2>3, <3>1 DEF Narrowed, n
    <3>3. CheckpointBSearch(h, e) = SearchBetween(h, e, 0, m)
      BY <2>1, <2>4, <2>7
    <3> QED
      BY <1>4, <3>2, <3>3, Zenon
  <2>8. CASE h[m + 1].from < e
    <3>1. ASSUME NEW j \in 1 .. n PROVE (j <= m + 1 => h[j].from < e) /\ (j > n => h[j].from > e)
      <4>1. (j <= m + 1 => j < m + 1 \/ j = m + 1) /\ ~ (j > n)
        BY <1>1, <2>3
      <4>2. h[j].from \in Int /\ (j < m + 1 => h[j].from < h[m + 1].from)
        BY <2>5
      <4> QED
        BY <2>4, <2>8, <4>1, <4>2
    <3>2. m + 1 \in 0 .. n /\ n \in 0 .. n /\ Narrowed(h, e, <<m + 1, n>>)
      BY <1>1, <2>3, <3>1 DEF Narrowed, n
    <3>3. CheckpointBSearch(h, e) = SearchBetween(h, e, m + 1, n)
      BY <2>1, <2>4, <2>8
    <3> QED
      BY <1>4, <3>2, <3>3, Zenon
  <2> QED
    BY <2>4, <2>6, <2>7, <2>8
<1> QED
  BY <1>5, <1>6

\* The amount of the checkpoint in force is the stake.
LEMMA InForceIsStake ==
    ASSUME NEW h, NEW top \in Int, OrderedUpTo(h, top), NEW e \in Int, NEW i, InForce(h, e, i)
    PROVE  StakeAt(h, e) = IF i < 0 THEN 0 ELSE h[i + 1].amount
<1> DEFINE n == Len(h)
<1>1. n \in Nat /\ DOMAIN h = 1 .. n /\ \A j \in 1 .. n : h[j].from \in Int
  BY OrderedByIndex
<1>2. i \in -1 .. n - 1
  BY DEF InForce
<1>3. \A j \in 1 .. n : (j <= i + 1 => h[j].from <= e) /\ (j > i + 1 => h[j].from > e)
  BY DEF InForce
<1> HIDE DEF n
<1>4. \A j \in DOMAIN h : h[j].from <= e <=> j <= i + 1
  BY <1>1, <1>2, <1>3
<1>5. CASE i < 0
  <2>1. ~ \E j \in DOMAIN h : h[j].from <= e
    BY <1>1, <1>2, <1>4, <1>5
  <2> QED
    BY <1>5, <2>1 DEF StakeAt
<1>6. CASE ~ (i < 0)
  <2>1. i + 1 \in DOMAIN h
    BY <1>1, <1>2, <1>6
  <2> DEFINE Last(k) == h[k].from <= e /\ \A j \in DOMAIN h : h[j].from <= e => j <= k
             a == CHOOSE k \in DOMAIN h : Last(k)
  <2>2. h[i + 1].from <= e
    BY <1>1, <1>2, <1>4, <2>1
  <2>3. Last(i + 1)
    BY <1>4, <2>2
  <2>4. a \in DOMAIN h /\ Last(a)
    BY <2>1, <2>3
  <2>5. a = i + 1
    BY <1>1, <1>2, <1>4, <2>1, <2>2, <2>4
  <2>6. StakeAt(h, e) = h[a].amount
    BY <2>1, <2>2 DEF StakeAt
  <2> QED
    BY <1>6, <2>5, <2>6, Zenon
<1> QED
  BY <1>5, <1>6

\* The walk backwards over the epochs of a query.
At(h, i) == IF h = <<>> THEN Checkpoint(0, 0) ELSE h[i + 1]
Back(h, e, i) == IF i >= 0 /\ At(h, i).from = e THEN i - 1 ELSE i
WalkStep(h, last, w, e) == IF e = last THEN CheckpointBSearch(h, last) ELSE Back(h, e + 1, w[e + 1])
Asked(first, last) == first .. last
Walk(h, first, last) == CHOOSE w : w = [e \in Asked(first, last) |-> WalkStep(h, last, w, e)]

\* StakesPerEpoch reads the stakes off the walk.
LEMMA StakesPerEpochIs ==
    ASSUME NEW h, NEW first, NEW last
    PROVE  StakesPerEpoch(h, first, last) =
             IF At(h, 0).from > last THEN [e \in Asked(first, last) |-> 0]
             ELSE [e \in Asked(first, last) |-> IF Walk(h, first, last)[e] < 0 THEN 0
                                                ELSE At(h, Walk(h, first, last)[e]).amount]
BY Zenon DEF StakesPerEpoch, Walk, WalkStep, Back, At, Asked

\* The recursion of the walk has a solution.
LEMMA WalkExists ==
    ASSUME NEW h, NEW first \in Int, NEW last \in Int, first <= last
    PROVE  Walk(h, first, last) = [e \in Asked(first, last) |-> WalkStep(h, last, Walk(h, first, last), e)]
<1> DEFINE R == first .. last
           Level(k) == {e \in R : last - e <= k}
           Solves(g, k) == g = [e \in Level(k) |-> WalkStep(h, last, g, e)]
           Bad == {k \in Nat : ~ \E g : Solves(g, k)}
<1>1. \E g : Solves(g, 0)
  <2> DEFINE g == [e \in Level(0) |-> CheckpointBSearch(h, last)]
  <2>1. \A e \in Level(0) : e = last
    OBVIOUS
  <2>2. \A e \in Level(0) : WalkStep(h, last, g, e) = CheckpointBSearch(h, last)
    BY <2>1, Zenon DEF WalkStep
  <2>3. Solves(g, 0)
    BY <2>2, Zenon
  <2> QED
    BY <2>3, Zenon
<1>2. ASSUME NEW k \in Nat, NEW g, Solves(g, k) PROVE \E f : Solves(f, k + 1)
  <2> DEFINE f == [e \in Level(k + 1) |-> WalkStep(h, last, g, e)]
  <2>1. ASSUME NEW e \in Level(k + 1), e # last
        PROVE  e + 1 \in Level(k)
    BY <2>1
  <2>2. Level(k) \subseteq Level(k + 1)
    OBVIOUS
  <2>3. \A e \in Level(k) : f[e] = g[e]
    BY <1>2, <2>2, Zenon
  <2> HIDE DEF Level
  <2>4. \A e \in Level(k + 1) : WalkStep(h, last, f, e) = WalkStep(h, last, g, e)
    <3>1. ASSUME NEW e \in Level(k + 1), e # last PROVE f[e + 1] = g[e + 1]
      BY <2>1, <2>3, <3>1, Zenon
    <3> HIDE DEF f
    <3> QED
      BY <3>1, Zenon DEF WalkStep
  <2>5. f = [e \in Level(k + 1) |-> WalkStep(h, last, f, e)]
    <3>1. \A e \in Level(k + 1) : f[e] = WalkStep(h, last, f, e)
      BY <2>4, Zenon
    <3>2. f = [e \in Level(k + 1) |-> f[e]]
      BY Zenon
    <3> HIDE DEF f
    <3> QED
      BY <3>1, <3>2
  <2> QED
    BY <2>5, Zenon
<1> HIDE DEF Solves
<1>3. Bad = {}
  <2> SUFFICES ASSUME Bad # {} PROVE FALSE
    OBVIOUS
  <2>1. PICK n \in Bad : \A m \in Bad : n <= m
    BY SmallestNumber, Zenon
  <2>2. n \in Nat /\ n # 0
    BY <1>1
  <2>3. n - 1 \in Nat /\ n - 1 \notin Bad /\ (n - 1) + 1 = n
    <3> HIDE DEF Bad
    <3> QED
      BY <2>1, <2>2
  <2>4. PICK g : Solves(g, n - 1)
    BY <2>3, Zenon
  <2>5. \E f : Solves(f, (n - 1) + 1)
    BY <1>2, <2>3, <2>4, Zenon
  <2> QED
    BY <2>1, <2>3, <2>5, Zenon
<1>4. last - first \in Nat /\ Level(last - first) = R
  OBVIOUS
<1>5. PICK g : Solves(g, last - first)
  BY <1>3, <1>4, Zenon
<1>6. g = [e \in Asked(first, last) |-> WalkStep(h, last, g, e)]
  BY <1>4, <1>5, Zenon DEF Solves, Asked
<1> QED
  BY <1>6, Zenon DEF Walk

\* A step of the walk.
LEMMA WalkRecursion ==
    ASSUME NEW h, NEW first \in Int, NEW last \in Int, first <= last, NEW e \in Asked(first, last)
    PROVE  Walk(h, first, last)[e] = WalkStep(h, last, Walk(h, first, last), e)
<1> DEFINE w == Walk(h, first, last)
           t == [p \in Asked(first, last) |-> WalkStep(h, last, w, p)]
<1>1. w = t
  BY WalkExists
<1>2. t[e] = WalkStep(h, last, w, e)
  BY Zenon
<1> QED
  BY <1>1, <1>2, Zenon

\* Going back one epoch from the checkpoint in force.
LEMMA BackInForce ==
    ASSUME NEW h, NEW top \in Int, OrderedUpTo(h, top), h # <<>>, NEW e \in Int, NEW i,
           InForce(h, e, i)
    PROVE  InForce(h, e - 1, Back(h, e, i))
<1> DEFINE n == Len(h)
<1>1. n \in Nat /\ \A j \in 1 .. n : h[j].from \in Int
  BY OrderedByIndex
<1>2. \A k, j \in 1 .. n : j < k => h[j].from < h[k].from
  BY OrderedByIndex
<1>3. i \in -1 .. n - 1
  BY DEF InForce
<1>4. \A j \in 1 .. n : (j <= i + 1 => h[j].from <= e) /\ (j > i + 1 => h[j].from > e)
  BY DEF InForce
<1>5. At(h, i) = h[i + 1]
  BY DEF At
<1> HIDE DEF n
<1>6. CASE i >= 0 /\ h[i + 1].from = e
  <2>1. i + 1 \in 1 .. n /\ i - 1 \in -1 .. n - 1 /\ (i - 1) + 1 = i
    BY <1>1, <1>3, <1>6
  <2>2. ASSUME NEW j \in 1 .. n
        PROVE  (j <= i => h[j].from <= e - 1) /\ (j > i => h[j].from > e - 1)
    <3>1. j < i + 1 \/ j = i + 1 \/ j > i + 1
      BY <2>1
    <3>2. h[j].from \in Int /\ (j < i + 1 => h[j].from < h[i + 1].from)
      BY <1>1, <1>2, <2>1
    <3> QED
      BY <1>3, <1>4, <1>6, <2>1, <3>1, <3>2
  <2>3. Back(h, e, i) = i - 1
    BY <1>5, <1>6, Zenon DEF Back
  <2>4. InForce(h, e - 1, i - 1)
    BY <2>1, <2>2 DEF InForce, n
  <2> QED
    BY <2>3, <2>4, Zenon
<1>7. CASE ~ (i >= 0 /\ h[i + 1].from = e)
  <2>1. ASSUME NEW j \in 1 .. n, j <= i + 1 PROVE h[j].from < e
    <3>1. i >= 0 /\ i + 1 \in 1 .. n
      BY <1>1, <1>3, <2>1
    <3>2. h[j].from <= e /\ h[i + 1].from <= e /\ h[j].from \in Int /\ h[i + 1].from \in Int
      BY <1>1, <1>3, <1>4, <2>1, <3>1
    <3>3. h[i + 1].from < e
      BY <1>7, <3>1, <3>2
    <3>4. j = i + 1 \/ h[j].from < h[i + 1].from
      BY <1>2, <1>3, <2>1, <3>1
    <3> QED
      BY <3>2, <3>3, <3>4
  <2>2. ASSUME NEW j \in 1 .. n
        PROVE  (j <= i + 1 => h[j].from <= e - 1) /\ (j > i + 1 => h[j].from > e - 1)
    <3>1. h[j].from \in Int /\ (j <= i + 1 => h[j].from < e) /\ (j > i + 1 => h[j].from > e)
      BY <1>1, <1>4, <2>1
    <3> QED
      BY <3>1
  <2>3. Back(h, e, i) = i
    BY <1>5, <1>7, Zenon DEF Back
  <2>4. InForce(h, e - 1, i)
    BY <1>3, <2>2 DEF InForce, n
  <2> QED
    BY <2>3, <2>4, Zenon
<1> QED
  BY <1>6, <1>7

\* At every epoch of the query the walk is at the checkpoint in force.
LEMMA WalkFinds ==
    ASSUME NEW h, NEW top \in Int, OrderedUpTo(h, top), h # <<>>,
           NEW first \in Int, NEW last \in Int, first <= last, h[1].from <= last,
           NEW e \in first .. last
    PROVE  InForce(h, e, Walk(h, first, last)[e])
<1> DEFINE w == Walk(h, first, last)
           Bad == {k \in Nat : last - k \in first .. last /\ ~ InForce(h, last - k, w[last - k])}
<1>1. \A p \in first .. last : w[p] = WalkStep(h, last, w, p)
  BY WalkRecursion DEF Asked
<1> HIDE DEF w
<1>2. Bad = {}
  <2> SUFFICES ASSUME Bad # {} PROVE FALSE
    OBVIOUS
  <2>1. PICK k \in Bad : \A m \in Bad : k <= m
    BY SmallestNumber, Zenon
  <2>2. k \in Nat /\ last - k \in first .. last /\ ~ InForce(h, last - k, w[last - k])
    OBVIOUS
  <2>3. w[last - k] = WalkStep(h, last, w, last - k)
    BY <1>1, <2>2
  <2>4. CASE k = 0
    <3>1. last - k = last
      BY <2>4
    <3>2. InForce(h, last, CheckpointBSearch(h, last))
      BY BSearchFinds, SMTT(30)
    <3> QED
      BY <2>2, <2>3, <3>1, <3>2, Zenon DEF WalkStep
  <2>5. CASE k # 0
    <3> DEFINE p == last - k
    <3>1. k - 1 \in Nat /\ last - (k - 1) = p + 1 /\ p + 1 \in first .. last /\ p # last /\ p + 1 \in Int
      BY <2>2, <2>5
    <3>2. k - 1 \notin Bad
      <4>1. ~ (k <= k - 1)
        BY <2>2
      <4> HIDE DEF Bad
      <4> QED
        BY <2>1, <4>1
    <3>3. InForce(h, p + 1, w[p + 1])
      BY <3>1, <3>2
    <3>4. InForce(h, (p + 1) - 1, Back(h, p + 1, w[p + 1]))
      BY <3>1, <3>3, BackInForce
    <3>5. (p + 1) - 1 = p
      BY <2>2
    <3>6. w[p] = Back(h, p + 1, w[p + 1])
      BY <2>3, <3>1, Zenon DEF WalkStep
    <3> HIDE DEF p
    <3>7. InForce(h, p, w[p])
      BY <3>4, <3>5, <3>6
    <3> QED
      BY <2>2, <3>7 DEF p
  <2> QED
    BY <2>4, <2>5
<1>3. last - e \in Nat /\ last - (last - e) = e
  OBVIOUS
<1>4. InForce(h, e, w[e])
  BY <1>2, <1>3, Zenon
<1> QED
  BY <1>4 DEF w

\* A query answers for each of its epochs what the checkpoints say.
LEMMA QueryAnswers ==
    ASSUME NEW h, NEW top \in Int, OrderedUpTo(h, top),
           NEW first \in Nat, NEW last \in Nat, first <= last, NEW e \in first .. last
    PROVE  StakesPerEpoch(h, first, last)[e] = StakeAt(h, e)
<1> DEFINE w == Walk(h, first, last)
           answer == IF w[e] < 0 THEN 0 ELSE At(h, w[e]).amount
<1>1. StakesPerEpoch(h, first, last)[e] = IF At(h, 0).from > last THEN 0 ELSE answer
  <2> DEFINE zeros == [p \in Asked(first, last) |-> 0]
             found == [p \in Asked(first, last) |-> IF w[p] < 0 THEN 0 ELSE At(h, w[p]).amount]
  <2>1. StakesPerEpoch(h, first, last) = IF At(h, 0).from > last THEN zeros ELSE found
    BY StakesPerEpochIs, Zenon
  <2>2. e \in Asked(first, last)
    BY DEF Asked
  <2>3. zeros[e] = 0 /\ found[e] = answer
    BY <2>2, Zenon
  <2> HIDE DEF zeros, found, answer
  <2> QED
    BY <2>1, <2>3
<1>2. CASE h = <<>>
  <2>1. \A i : At(h, i) = Checkpoint(0, 0)
    BY <1>2 DEF At
  <2>2. At(h, 0).from = 0 /\ At(h, w[e]).amount = 0
    BY <2>1 DEF Checkpoint
  <2>3. StakesPerEpoch(h, first, last)[e] = 0
    BY <1>1, <2>2
  <2>4. StakeAt(h, e) = 0
    BY <1>2 DEF StakeAt
  <2> QED
    BY <2>3, <2>4
<1>3. CASE h # <<>>
  <2> DEFINE n == Len(h)
  <2>1. n \in Nat /\ n > 0 /\ 1 \in 1 .. n /\ \A j \in 1 .. n : h[j].from \in Int
    BY <1>3, OrderedByIndex
  <2>2. \A k, j \in 1 .. n : j < k => h[j].from < h[k].from
    BY OrderedByIndex
  <2>3. 0 + 1 = 1
    OBVIOUS
  <2>4. At(h, 0) = h[1] /\ \A i : At(h, i) = h[i + 1]
    BY <1>3, <2>3, Zenon DEF At
  <2>5. CASE h[1].from > last
    <3>1. ASSUME NEW j \in 1 .. n PROVE h[j].from > e
      <4>1. h[1].from > e /\ h[1].from \in Int /\ h[j].from \in Int
        BY <2>1, <2>5
      <4>2. j = 1 \/ h[1].from < h[j].from
        BY <2>1, <2>2
      <4> QED
        BY <4>1, <4>2
    <3>2. InForce(h, e, -1)
      BY <2>1, <3>1 DEF InForce
    <3>3. StakeAt(h, e) = 0
      BY <3>2, InForceIsStake
    <3> QED
      BY <1>1, <2>4, <2>5, <3>3
  <2>6. CASE ~ (h[1].from > last)
    <3>1. h[1].from <= last
      BY <2>1, <2>6
    <3>2. InForce(h, e, w[e])
      BY <1>3, <3>1, WalkFinds
    <3>3. StakeAt(h, e) = IF w[e] < 0 THEN 0 ELSE h[w[e] + 1].amount
      BY <3>2, InForceIsStake
    <3>4. StakesPerEpoch(h, first, last)[e] = answer
      BY <1>1, <2>4, <2>6
    <3> QED
      BY <2>4, <3>3, <3>4
  <2> QED
    BY <2>5, <2>6
<1> QED
  BY <1>2, <1>3

----------------------------------------------------------------------------
(* The inductive invariant: besides the order of the histories, only listed *)
(* forgers have any, so a registration starts them afresh.                  *)

StakeInv ==
    /\ epoch \in Nat
    /\ forgers \in Seq(Forger)
    /\ DOMAIN forgerHistory = Forger
    /\ DOMAIN stakeHistory = Forger
    /\ \A f \in Forger :
          /\ DOMAIN stakeHistory[f] = Delegator
          /\ OrderedUpTo(forgerHistory[f], epoch)
          /\ \A d \in Delegator : OrderedUpTo(stakeHistory[f][d], epoch)
          /\ f \notin Elems(forgers) =>
                forgerHistory[f] = <<>> /\ \A d \in Delegator : stakeHistory[f][d] = <<>>

PastKept ==
    \A f \in Forger : \A e \in 0 .. epoch - 1 :
        /\ StakeAt(forgerHistory'[f], e) = StakeAt(forgerHistory[f], e)
        /\ \A d \in Delegator : StakeAt(stakeHistory'[f][d], e) = StakeAt(stakeHistory[f][d], e)

\* The two updates of a registration, a delegation or a withdrawal.
LEMMA UpdateStep ==
    ASSUME StakeInv, NEW f \in Forger, NEW d \in Delegator, NEW x, NEW y,
           epoch' = epoch, forgers' \in Seq(Forger),
           Elems(forgers) \subseteq Elems(forgers'), f \in Elems(forgers'),
           forgerHistory' = [forgerHistory EXCEPT ![f] = UpdateOrAddCheckpoint(forgerHistory[f], epoch, x)],
           stakeHistory' = [stakeHistory EXCEPT ![f][d] = UpdateOrAddCheckpoint(stakeHistory[f][d], epoch, y)]
    PROVE  StakeInv' /\ PastKept
<1> DEFINE F == UpdateOrAddCheckpoint(forgerHistory[f], epoch, x)
           D == UpdateOrAddCheckpoint(stakeHistory[f][d], epoch, y)
<1>1. epoch \in Int /\ OrderedUpTo(forgerHistory[f], epoch) /\ OrderedUpTo(stakeHistory[f][d], epoch)
  BY DEF StakeInv
<1>2. OrderedUpTo(F, epoch) /\ \A p \in Int : p < epoch => StakeAt(F, p) = StakeAt(forgerHistory[f], p)
  BY <1>1, UpdateOrAdd
<1>3. OrderedUpTo(D, epoch) /\ \A p \in Int : p < epoch => StakeAt(D, p) = StakeAt(stakeHistory[f][d], p)
  BY <1>1, UpdateOrAdd
<1> HIDE DEF F, D
<1>4. DOMAIN forgerHistory' = Forger /\ DOMAIN stakeHistory' = Forger
  BY DEF StakeInv
<1>5. \A g \in Forger : forgerHistory'[g] = IF g = f THEN F ELSE forgerHistory[g]
  BY DEF StakeInv, F
<1>6. \A g \in Forger : /\ DOMAIN stakeHistory'[g] = Delegator
                        /\ \A c \in Delegator : stakeHistory'[g][c] =
                              IF g = f /\ c = d THEN D ELSE stakeHistory[g][c]
  BY DEF StakeInv, D
<1>7. \A g \in Forger : /\ OrderedUpTo(forgerHistory'[g], epoch)
                        /\ \A c \in Delegator : OrderedUpTo(stakeHistory'[g][c], epoch)
  BY <1>2, <1>3, <1>5, <1>6 DEF StakeInv
<1>8. \A g \in Forger : g \notin Elems(forgers') =>
          forgerHistory'[g] = <<>> /\ \A c \in Delegator : stakeHistory'[g][c] = <<>>
  BY <1>5, <1>6 DEF StakeInv
<1>9. StakeInv'
  BY <1>1, <1>4, <1>6, <1>7, <1>8, SMTT(30) DEF StakeInv
<1>10. PastKept
  BY <1>1, <1>2, <1>3, <1>5, <1>6 DEF PastKept
<1> QED
  BY <1>9, <1>10

\* The first call of the contract: all histories start at the current epoch.
LEMMA ActivateStep ==
    ASSUME StakeInv, activate
    PROVE  StakeInv'
<1> DEFINE migrated == {f \in Forger : OldStakers(f) # {}}
<1>1. epoch' = epoch /\ epoch \in Int /\ epoch \in Nat
  BY DEF activate, StakeInv
<1>2. forgers' \in [1 .. Cardinality(migrated) -> migrated] /\ migrated \subseteq Elems(forgers')
  BY Zenon DEF activate, Listings
<1>3. Cardinality(migrated) \in Nat
  <2>1. migrated \subseteq Forger /\ IsFiniteSet(Forger)
    BY StakesAssumption
  <2> QED
    BY <2>1, FS_Subset, FS_CardinalityType
<1>4. forgers' \in Seq(Forger)
  <2>1. PICK n \in Nat : forgers' \in [1 .. n -> migrated]
    BY <1>2, <1>3, Zenon
  <2>2. forgers' \in [1 .. n -> Forger]
    BY <2>1
  <2> QED
    BY <2>2
<1>5. forgerHistory' = [f \in Forger |->
          IF f \in migrated THEN <<Checkpoint(epoch, OldTotal(f))>> ELSE <<>>]
  BY DEF activate
<1>6. stakeHistory' = [f \in Forger |-> [d \in Delegator |->
          IF d \in OldStakers(f) THEN <<Checkpoint(epoch, OldStakes[f][d])>> ELSE <<>>]]
  BY DEF activate
<1>7. \A f \in Forger : f \notin migrated => \A d \in Delegator : d \notin OldStakers(f)
  OBVIOUS
<1> HIDE DEF migrated
<1>8. DOMAIN forgerHistory' = Forger /\ DOMAIN stakeHistory' = Forger
  BY <1>5, <1>6
<1>9. ASSUME NEW f \in Forger
      PROVE  /\ DOMAIN stakeHistory'[f] = Delegator
             /\ OrderedUpTo(forgerHistory'[f], epoch)
             /\ \A d \in Delegator : OrderedUpTo(stakeHistory'[f][d], epoch)
             /\ f \notin Elems(forgers') =>
                   forgerHistory'[f] = <<>> /\ \A d \in Delegator : stakeHistory'[f][d] = <<>>
  <2>1. DOMAIN stakeHistory'[f] = Delegator
    BY <1>6
  <2>2. OrderedUpTo(forgerHistory'[f], epoch)
    BY <1>1, <1>5, ShortOrdered, Zenon
  <2>3. ASSUME NEW d \in Delegator PROVE OrderedUpTo(stakeHistory'[f][d], epoch)
    BY <1>1, <1>6, ShortOrdered, Zenon
  <2>4. f \notin Elems(forgers') =>
           forgerHistory'[f] = <<>> /\ \A d \in Delegator : stakeHistory'[f][d] = <<>>
    BY <1>2, <1>5, <1>6, <1>7
  <2> QED
    BY <2>1, <2>2, <2>3, <2>4
<1> QED
  BY <1>1, <1>4, <1>8, <1>9 DEF StakeInv

\* Every step keeps the invariant, and once the contract is active the past.
LEMMA StakeStep ==
    ASSUME StakeInv, [Next]_vars
    PROVE  StakeInv' /\ (active => PastKept)
<1>1. CASE activate
  BY <1>1, ActivateStep DEF activate
<1>2. CASE NextEpoch
  <2>1. epoch \in Int /\ epoch' = epoch + 1 /\ UNCHANGED <<forgers, forgerHistory, stakeHistory>>
    BY <1>2 DEF NextEpoch, StakeInv
  <2>2. StakeInv'
    BY <2>1, OrderedLater DEF StakeInv
  <2>3. PastKept
    BY <2>1, SMTT(30) DEF PastKept
  <2> QED
    BY <2>2, <2>3
<1>3. ASSUME NEW f \in Forger, updateForger(f)
      PROVE  StakeInv' /\ PastKept
  BY <1>3 DEF updateForger, StakeInv, PastKept
<1>4. ASSUME NEW f \in Forger, NEW d \in Delegator, NEW amount, NEW withReward,
             registerForger(f, d, amount, withReward)
      PROVE  StakeInv' /\ PastKept
  <2>1. forgerHistory[f] = <<>> /\ stakeHistory[f][d] = <<>>
    BY <1>4 DEF registerForger, Exists, StakeInv
  <2>2. Append(<<>>, Checkpoint(epoch, amount)) = UpdateOrAddCheckpoint(<<>>, epoch, amount)
    BY DEF UpdateOrAddCheckpoint
  <2>3. forgerHistory' = [forgerHistory EXCEPT ![f] =
            UpdateOrAddCheckpoint(forgerHistory[f], epoch, amount)]
    BY <1>4, <2>1, <2>2, Zenon DEF registerForger
  <2>4. stakeHistory' = [stakeHistory EXCEPT ![f][d] =
            UpdateOrAddCheckpoint(stakeHistory[f][d], epoch, amount)]
    BY <1>4, <2>1, <2>2, Zenon DEF registerForger
  <2>5. forgers' = Append(forgers, f) /\ epoch' = epoch
    BY <1>4 DEF registerForger
  <2>6. /\ forgers' \in Seq(Forger)
        /\ Elems(forgers) \subseteq Elems(forgers')
        /\ f \in Elems(forgers')
    BY <2>5 DEF Elems, StakeInv
  <2> QED
    BY <2>3, <2>4, <2>5, <2>6, UpdateStep, ZenonT(30)
<1>5. ASSUME NEW f \in Forger, NEW d \in Delegator, NEW x, NEW y,
             UpdateHistories(f, d, x, y), forgerHistory[f] # <<>>, UNCHANGED <<epoch, forgers>>
      PROVE  StakeInv' /\ PastKept
  <2>1. f \in Elems(forgers)
    BY <1>5 DEF StakeInv
  <2>2. /\ forgerHistory' = [forgerHistory EXCEPT ![f] =
              UpdateOrAddCheckpoint(forgerHistory[f], epoch, x)]
        /\ stakeHistory' = [stakeHistory EXCEPT ![f][d] =
              UpdateOrAddCheckpoint(stakeHistory[f][d], epoch, y)]
    BY <1>5 DEF UpdateHistories
  <2>3. forgers' \in Seq(Forger) /\ epoch' = epoch /\ forgers' = forgers
    BY <1>5 DEF StakeInv
  <2> QED
    BY <2>1, <2>2, <2>3, UpdateStep, ZenonT(30)
<1>6. ASSUME NEW f \in Forger, NEW d \in Delegator, NEW amount, delegate(f, d, amount)
      PROVE  StakeInv' /\ PastKept
  BY <1>5, <1>6, SMTT(30) DEF delegate
<1>7. ASSUME NEW f \in Forger, NEW d \in Delegator, NEW amount, withdraw(f, d, amount)
      PROVE  StakeInv' /\ PastKept
  BY <1>5, <1>7 DEF withdraw
<1>8. CASE UNCHANGED vars
  BY <1>8, Zenon DEF vars, StakeInv, PastKept
<1> QED
  BY <1>1, <1>2, <1>3, <1>4, <1>6, <1>7, <1>8, SMTT(30) DEF Next

\* The contract starts with empty histories.
LEMMA StakeInit == Init => StakeInv
<1> SUFFICES ASSUME Init PROVE StakeInv
  OBVIOUS
<1>1. epoch \in Nat /\ epoch \in Int /\ forgers \in Seq(Forger)
  BY StakesAssumption DEF Init
<1> QED
  BY <1>1, ShortOrdered, Zenon DEF Init, StakeInv

\* The histories stay in the order that checkpointBSearch relies on: a
\* registration, delegation or withdrawal (updateOrAddCheckpoint) never leaves
\* two checkpoints of an epoch or one that is out of order.
THEOREM StakeHistoriesOrdered == Spec => []HistoriesAreOrdered
<1>1. Init => StakeInv
  BY StakeInit
<1>2. StakeInv /\ [Next]_vars => StakeInv'
  BY StakeStep, SMTT(30)
<1>3. StakeInv => HistoriesAreOrdered
  BY DEF StakeInv, HistoriesAreOrdered, OrderedUpTo, Ordered
<1> QED
  BY <1>1, <1>2, <1>3, PTL DEF Spec

\* No later call changes the stake of an epoch that is over, although
\* updateOrAddCheckpoint rewrites and drops checkpoints.
THEOREM StakesOfPastEpochsFrozen == Spec => PastStakesAreFrozen
<1>1. Init => StakeInv
  BY StakeInit
<1>2. StakeInv /\ [Next]_vars => StakeInv'
  BY StakeStep
<1>3. StakeInv /\ [Next]_vars =>
        [active => \A f \in Forger : \A e \in 0 .. epoch - 1 :
            /\ StakeAt(forgerHistory'[f], e) = StakeAt(forgerHistory[f], e)
            /\ \A d \in Delegator :
                  StakeAt(stakeHistory'[f][d], e) = StakeAt(stakeHistory[f][d], e)]_vars
  BY StakeStep DEF PastKept
<1> QED
  BY <1>1, <1>2, <1>3, PTL DEF Spec, PastStakesAreFrozen

----------------------------------------------------------------------------
(* What the delegators have with a forger, and what the contract holds *)

Amounts(h) == \A i \in DOMAIN h : h[i].amount \in Int

\* At its last epoch a history says what its last checkpoint says.
LEMMA StakeNow ==
    ASSUME NEW h, NEW e \in Int, OrderedUpTo(h, e)
    PROVE  StakeAt(h, e) = LatestAmount(h)
<1>1. PICK S : h \in Seq(S)
  BY DEF OrderedUpTo
<1> DEFINE n == Len(h)
<1>2. n \in Nat /\ DOMAIN h = 1 .. n
  BY <1>1
<1>3. CASE h = <<>>
  BY <1>3 DEF StakeAt, LatestAmount
<1>4. CASE h # <<>>
  <2>1. n \in DOMAIN h
    BY <1>1, <1>2, <1>4
  <2>2. \A i \in DOMAIN h : h[i].from <= e /\ i \in Int /\ i <= n
    BY <1>2 DEF OrderedUpTo
  <2> DEFINE Last(i) == h[i].from <= e /\ \A j \in DOMAIN h : h[j].from <= e => j <= i
             a == CHOOSE i \in DOMAIN h : Last(i)
  <2>3. Last(n)
    BY <2>1, <2>2
  <2>4. a \in DOMAIN h /\ Last(a)
    BY <2>1, <2>3
  <2>5. a = n
    BY <1>2, <2>1, <2>2, <2>4
  <2>6. StakeAt(h, e) = h[a].amount
    BY <2>1, <2>2 DEF StakeAt
  <2> QED
    BY <1>4, <2>5, <2>6, Zenon DEF LatestAmount
<1> QED
  BY <1>3, <1>4

\* The latest amount of a history that is not empty.
LEMMA LatestOf ==
    ASSUME NEW g, NEW m \in Nat, m > 0, Len(g) = m, DOMAIN g = 1 .. m,
           \A i \in 1 .. m : g[i].amount \in Int
    PROVE  LatestAmount(g) = g[m].amount /\ Amounts(g)
<1>1. 1 \in DOMAIN g
  OBVIOUS
<1>2. g # <<>>
  BY <1>1
<1>3. LatestAmount(g) = g[m].amount
  BY <1>2, Zenon DEF LatestAmount
<1>4. Amounts(g)
  BY Zenon DEF Amounts
<1> QED
  BY <1>3, <1>4

\* An update makes the amount the latest one.
LEMMA UpdatedAmount ==
    ASSUME NEW h, NEW e \in Int, NEW amount \in Int, OrderedUpTo(h, e), Amounts(h)
    PROVE  /\ LatestAmount(UpdateOrAddCheckpoint(h, e, amount)) = amount
           /\ Amounts(UpdateOrAddCheckpoint(h, e, amount))
<1>1. PICK S : h \in Seq(S)
  BY DEF OrderedUpTo
<1> DEFINE n == Len(h)
           c == Checkpoint(e, amount)
           g == UpdateOrAddCheckpoint(h, e, amount)
<1>2. n \in Nat /\ DOMAIN h = 1 .. n
  BY <1>1
<1>3. c.amount = amount
  BY DEF Checkpoint
<1>4. \A i \in 1 .. n : h[i].amount \in Int
  BY <1>2 DEF Amounts
<1>5. CASE n > 1 /\ h[n].from = e /\ h[n - 1].amount = amount
  <2>1. g = SubSeq(h, 1, n - 1)
    BY <1>2, <1>5 DEF UpdateOrAddCheckpoint
  <2>2. Len(g) = n - 1 /\ DOMAIN g = 1 .. n - 1 /\ \A i \in 1 .. n - 1 : g[i] = h[i]
    BY <1>1, <1>2, <1>5, <2>1, SMTT(30)
  <2> HIDE DEF g, n
  <2>3. n - 1 \in Nat /\ n - 1 > 0 /\ n - 1 \in 1 .. n - 1 /\ \A i \in 1 .. n - 1 : i \in 1 .. n
    BY <1>2, <1>5
  <2>4. LatestAmount(g) = g[n - 1].amount /\ Amounts(g)
    BY <1>4, <2>2, <2>3, LatestOf
  <2> QED
    BY <1>5, <2>2, <2>3, <2>4 DEF g
<1>6. CASE n > 0 /\ h[n].from = e /\ ~ (n > 1 /\ h[n - 1].amount = amount)
  <2>1. g = [h EXCEPT ![n] = c]
    BY <1>2, <1>6, Zenon DEF UpdateOrAddCheckpoint
  <2>2. DOMAIN g = 1 .. n /\ g[n] = c /\ \A i \in 1 .. n : i # n => g[i] = h[i]
    BY <1>2, <1>6, <2>1
  <2>3. Len(g) = n
    <3> DEFINE T == S \cup {c}
    <3>1. h \in Seq(T) /\ c \in T /\ n \in 1 .. n
      BY <1>1, <1>2, <1>6
    <3> HIDE DEF c, T, g
    <3>2. g \in [1 .. n -> T]
      BY <1>2, <2>1, <3>1
    <3>3. g \in Seq(T)
      BY <1>2, <3>2
    <3> HIDE DEF n
    <3> QED
      BY <1>2, <2>2, <3>3
  <2> HIDE DEF g, n, c
  <2>4. \A i \in 1 .. n : g[i].amount \in Int
    BY <1>3, <1>4, <2>2
  <2>5. LatestAmount(g) = g[n].amount /\ Amounts(g)
    BY <1>2, <1>6, <2>2, <2>3, <2>4, LatestOf, SMTT(30)
  <2> QED
    BY <1>3, <2>2, <2>5 DEF g
<1>7. CASE ~ (n > 0 /\ h[n].from = e)
  <2>1. g = Append(h, c)
    BY <1>2, <1>7, Zenon DEF UpdateOrAddCheckpoint
  <2>2. Len(g) = n + 1 /\ DOMAIN g = 1 .. n + 1 /\ g[n + 1] = c /\ \A i \in 1 .. n : g[i] = h[i]
    BY <1>1, <1>2, <2>1
  <2> HIDE DEF g, n, c
  <2>3. n + 1 \in Nat /\ n + 1 > 0 /\ \A i \in 1 .. n + 1 : i = n + 1 \/ i \in 1 .. n
    BY <1>2
  <2>4. \A i \in 1 .. n + 1 : g[i].amount \in Int
    BY <1>3, <1>4, <2>2, <2>3
  <2>5. LatestAmount(g) = g[n + 1].amount /\ Amounts(g)
    BY <2>2, <2>3, <2>4, LatestOf
  <2> QED
    BY <1>3, <2>2, <2>5 DEF g
<1> QED
  BY <1>5, <1>6, <1>7

\* The stake of any epoch is an integer.
LEMMA StakeAtType ==
    ASSUME NEW h, NEW e \in Int, NEW p \in Int, OrderedUpTo(h, e), Amounts(h)
    PROVE  StakeAt(h, p) \in Int
<1>1. CASE ~ \E i \in DOMAIN h : h[i].from <= p
  BY <1>1 DEF StakeAt
<1>2. CASE \E i \in DOMAIN h : h[i].from <= p
  <2>1. PICK S : h \in Seq(S)
    BY DEF OrderedUpTo
  <2>2. Len(h) \in Nat /\ DOMAIN h = 1 .. Len(h)
    BY <2>1
  <2>3. PICK i \in {k \in DOMAIN h : h[k].from <= p} :
          \A j \in {k \in DOMAIN h : h[k].from <= p} : j <= i
    BY <1>2, <2>2, LastPosition, Zenon
  <2> DEFINE a == CHOOSE k \in DOMAIN h :
                     h[k].from <= p /\ \A j \in DOMAIN h : h[j].from <= p => j <= k
  <2>4. a \in DOMAIN h
    BY <2>3
  <2>5. StakeAt(h, p) = h[a].amount
    BY <1>2 DEF StakeAt
  <2> QED
    BY <2>4, <2>5 DEF Amounts
<1> QED
  BY <1>1, <1>2

\* Besides the order of the histories: amounts and balances are integers, and a
\* contract that is not active has neither forgers nor coins.
SumInv ==
    /\ StakeInv
    /\ active \in BOOLEAN
    /\ \A f \in Forger : /\ Amounts(forgerHistory[f])
                         /\ \A d \in Delegator : Amounts(stakeHistory[f][d])
    /\ balance \in [Delegator -> Int] /\ contract \in Int /\ oldContract \in Int
    /\ ~active => forgers = <<>> /\ contract = 0 /\ oldContract = OldSupply
    /\ ForgerStakeIsSumOfDelegators
    /\ ContractCoversStakes

\* The stakes that the delegators of f have with it at epoch e, and the latest
\* stakes of the forgers.
StakesWith(sh, f, e) == [d \in Delegator |-> StakeAt(sh[f][d], e)]
LatestStakes(fh) == [f \in Forger |-> LatestAmount(fh[f])]

\* Ordered histories of integers give functions to integers.
LEMMA StakesTyped ==
    ASSUME NEW e \in Int, NEW fh, NEW sh,
           \A f \in Forger : /\ OrderedUpTo(fh[f], e) /\ Amounts(fh[f])
                             /\ \A d \in Delegator : OrderedUpTo(sh[f][d], e) /\ Amounts(sh[f][d])
    PROVE  /\ LatestStakes(fh) \in [Forger -> Int]
           /\ \A f \in Forger, p \in Int : StakesWith(sh, f, p) \in [Delegator -> Int]
<1>1. ASSUME NEW f \in Forger PROVE LatestAmount(fh[f]) \in Int
  BY StakeNow, StakeAtType
<1>2. ASSUME NEW f \in Forger, NEW p \in Int, NEW d \in Delegator PROVE StakeAt(sh[f][d], p) \in Int
  BY StakeAtType
<1>3. LatestStakes(fh) \in [Forger -> Int]
  BY <1>1 DEF LatestStakes
<1>4. ASSUME NEW f \in Forger, NEW p \in Int PROVE StakesWith(sh, f, p) \in [Delegator -> Int]
  BY <1>2, <1>4 DEF StakesWith
<1> QED
  BY <1>3, <1>4

\* Moving amount from a delegator to the contract, or back when it is negative,
\* in the histories of the forger and of the delegator.
LEMMA MoveStep ==
    ASSUME SumInv, active, active' = active, NEW f \in Forger, NEW d \in Delegator, NEW amount \in Int,
           epoch' = epoch, forgers' \in Seq(Forger),
           Elems(forgers) \subseteq Elems(forgers'), f \in Elems(forgers'),
           forgerHistory' = [forgerHistory EXCEPT ![f] =
               UpdateOrAddCheckpoint(forgerHistory[f], epoch, LatestAmount(forgerHistory[f]) + amount)],
           stakeHistory' = [stakeHistory EXCEPT ![f][d] =
               UpdateOrAddCheckpoint(stakeHistory[f][d], epoch, LatestAmount(stakeHistory[f][d]) + amount)],
           balance' = [balance EXCEPT ![d] = @ - amount],
           contract' = contract + amount, oldContract' = oldContract
    PROVE  SumInv'
<1>0. IsFiniteSet(Forger) /\ IsFiniteSet(Delegator)
  BY StakesAssumption
<1> DEFINE x == LatestAmount(forgerHistory[f]) + amount
           y == LatestAmount(stakeHistory[f][d]) + amount
           F == UpdateOrAddCheckpoint(forgerHistory[f], epoch, x)
           D == UpdateOrAddCheckpoint(stakeHistory[f][d], epoch, y)
<1>1. StakeInv' /\ PastKept
  BY UpdateStep, Zenon DEF SumInv
<1>2. /\ epoch \in Int /\ epoch \in Nat
      /\ OrderedUpTo(forgerHistory[f], epoch) /\ OrderedUpTo(stakeHistory[f][d], epoch)
      /\ Amounts(forgerHistory[f]) /\ Amounts(stakeHistory[f][d])
  BY DEF SumInv, StakeInv
<1>3. /\ LatestAmount(forgerHistory[f]) \in Int /\ LatestAmount(stakeHistory[f][d]) \in Int
      /\ LatestAmount(stakeHistory[f][d]) = StakeAt(stakeHistory[f][d], epoch)
      /\ LatestAmount(forgerHistory[f]) = StakeAt(forgerHistory[f], epoch)
  BY <1>2, StakeNow, StakeAtType
<1>4. x \in Int /\ y \in Int
  BY <1>3
<1> HIDE DEF x, y
<1>5. LatestAmount(F) = x /\ Amounts(F) /\ LatestAmount(D) = y /\ Amounts(D)
  BY <1>2, <1>4, UpdatedAmount
<1>6. OrderedUpTo(F, epoch) /\ OrderedUpTo(D, epoch)
  BY <1>2, UpdateOrAdd, SMTT(30)
<1>7. StakeAt(F, epoch) = x /\ StakeAt(D, epoch) = y
  BY <1>2, <1>5, <1>6, StakeNow, SMTT(30)
<1> HIDE DEF F, D
<1>8. \A g \in Forger : forgerHistory'[g] = IF g = f THEN F ELSE forgerHistory[g]
  BY DEF SumInv, StakeInv, F, x
<1>9. \A g \in Forger : \A c \in Delegator : stakeHistory'[g][c] =
                              IF g = f /\ c = d THEN D ELSE stakeHistory[g][c]
  BY DEF SumInv, StakeInv, D, y
<1>10. \A g \in Forger : /\ Amounts(forgerHistory'[g])
                         /\ \A c \in Delegator : Amounts(stakeHistory'[g][c])
  BY <1>5, <1>8, <1>9 DEF SumInv
<1>11. /\ LatestStakes(forgerHistory) \in [Forger -> Int] /\ LatestStakes(forgerHistory') \in [Forger -> Int]
       /\ \A g \in Forger, e \in Int : /\ StakesWith(stakeHistory, g, e) \in [Delegator -> Int]
                                       /\ StakesWith(stakeHistory', g, e) \in [Delegator -> Int]
  <2>1. /\ LatestStakes(forgerHistory) \in [Forger -> Int]
        /\ \A g \in Forger, e \in Int : StakesWith(stakeHistory, g, e) \in [Delegator -> Int]
    <3>1. \A g \in Forger : /\ OrderedUpTo(forgerHistory[g], epoch) /\ Amounts(forgerHistory[g])
                             /\ \A c \in Delegator : /\ OrderedUpTo(stakeHistory[g][c], epoch)
                                                      /\ Amounts(stakeHistory[g][c])
      BY Zenon DEF SumInv, StakeInv
    <3> QED
      BY <1>2, <3>1, StakesTyped, Zenon
  <2>2. /\ LatestStakes(forgerHistory') \in [Forger -> Int]
        /\ \A g \in Forger, e \in Int : StakesWith(stakeHistory', g, e) \in [Delegator -> Int]
    <3>1. \A g \in Forger : /\ OrderedUpTo(forgerHistory'[g], epoch) /\ Amounts(forgerHistory'[g])
                             /\ \A c \in Delegator : /\ OrderedUpTo(stakeHistory'[g][c], epoch)
                                                      /\ Amounts(stakeHistory'[g][c])
      BY <1>1, <1>10, ZenonT(30) DEF StakeInv
    <3> DEFINE fh == forgerHistory'
               sh == stakeHistory'
    <3>2. \A g \in Forger : /\ OrderedUpTo(fh[g], epoch) /\ Amounts(fh[g])
                             /\ \A c \in Delegator : OrderedUpTo(sh[g][c], epoch) /\ Amounts(sh[g][c])
      BY <3>1, Zenon
    <3> HIDE DEF fh, sh
    <3>3. /\ LatestStakes(fh) \in [Forger -> Int]
          /\ \A g \in Forger, e \in Int : StakesWith(sh, g, e) \in [Delegator -> Int]
      BY <1>2, <3>2, StakesTyped, Zenon
    <3> QED
      BY <3>3, Zenon DEF fh, sh
  <2> QED
    BY <2>1, <2>2, Zenon
<1>12. ASSUME NEW g \in Forger, NEW e \in 0 .. epoch
       PROVE  StakeAt(forgerHistory'[g], e) = SumFunction(StakesWith(stakeHistory', g, e))
  <2>1. e \in Int /\ StakeAt(forgerHistory[g], e) = SumFunction(StakesWith(stakeHistory, g, e))
    BY <1>2 DEF SumInv, ForgerStakeIsSumOfDelegators, StakesWith
  <2>2. CASE g # f \/ e < epoch
    <3>0. e < epoch => e \in 0 .. epoch - 1
      BY <1>2
    <3>1. StakeAt(forgerHistory'[g], e) = StakeAt(forgerHistory[g], e)
      BY <1>1, <1>8, <2>2, <3>0, ZenonT(30) DEF PastKept
    <3>2. \A c \in Delegator : StakeAt(stakeHistory'[g][c], e) = StakeAt(stakeHistory[g][c], e)
      BY <1>1, <1>9, <2>2, <3>0, ZenonT(30) DEF PastKept
    <3>3. StakesWith(stakeHistory', g, e) = StakesWith(stakeHistory, g, e)
      BY <3>2, SMTT(30) DEF StakesWith
    <3> QED
      BY <2>1, <3>1, <3>3, SMTT(30)
  <2>3. CASE g = f /\ e = epoch
    <3>1. StakeAt(forgerHistory'[g], e) = StakeAt(forgerHistory[g], e) + amount
      BY <1>3, <1>7, <1>8, <2>3, SMTT(30) DEF x
    <3>2. \A c \in Delegator : c # d => StakesWith(stakeHistory', g, e)[c] = StakesWith(stakeHistory, g, e)[c]
      BY <1>9, SMTT(30) DEF StakesWith
    <3>3. StakesWith(stakeHistory', g, e)[d] = StakesWith(stakeHistory, g, e)[d] + amount /\ StakesWith(stakeHistory, g, e)[d] \in Int
      BY <1>3, <1>7, <1>9, <2>3, SMTT(20) DEF StakesWith, y
    <3>4. SumFunction(StakesWith(stakeHistory', g, e)) =
            SumFunction(StakesWith(stakeHistory, g, e)) + StakesWith(stakeHistory', g, e)[d] - StakesWith(stakeHistory, g, e)[d]
      <4> DEFINE v == StakesWith(stakeHistory, g, e)
                 w == StakesWith(stakeHistory', g, e)
      <4>1. v \in [Delegator -> Int] /\ w \in [Delegator -> Int]
        BY <1>11, <2>1, Zenon
      <4>2. \A c \in Delegator : c # d => w[c] = v[c]
        BY <3>2, Zenon
      <4> HIDE DEF v, w
      <4>3. SumChanges(v, w, d)
        BY <1>0, <4>1, <4>2, SumUpdate, ZenonT(30)
      <4> QED
        BY <4>3 DEF v, w, SumChanges
    <3>5. SumFunction(StakesWith(stakeHistory, g, e)) \in Int
      BY <1>0, <1>11, <2>1, SumType, SMTT(30)
    <3> QED
      BY <2>1, <3>1, <3>3, <3>4, <3>5, SMTT(20)
  <2> QED
    BY <1>2, <2>1, <2>2, <2>3, SMTT(30)
<1>13. ForgerStakeIsSumOfDelegators'
  BY <1>12 DEF ForgerStakeIsSumOfDelegators, StakesWith
<1>14. contract' = SumFunction(LatestStakes(forgerHistory'))
  <2> DEFINE v == LatestStakes(forgerHistory)
             w == LatestStakes(forgerHistory')
  <2>1. v \in [Forger -> Int] /\ w \in [Forger -> Int]
    BY <1>11, Zenon
  <2>2. \A g \in Forger : g # f => w[g] = v[g]
    BY <1>8 DEF LatestStakes
  <2>3. w[f] = v[f] + amount /\ v[f] \in Int
    BY <1>3, <1>5, <1>8 DEF LatestStakes, x
  <2>4. contract = SumFunction(v)
    BY DEF SumInv, ContractCoversStakes, LatestStakes
  <2> HIDE DEF v, w
  <2>5. SumChanges(v, w, f) /\ SumFunction(v) \in Int
    BY <1>0, <2>1, <2>2, SumUpdate, SumType, ZenonT(30)
  <2>6. contract' = SumFunction(w)
    BY <2>3, <2>4, <2>5 DEF SumChanges
  <2> QED
    BY <2>6 DEF w
<1>15. balance' \in [Delegator -> Int] /\ contract' \in Int /\ oldContract' \in Int
  BY DEF SumInv
<1>16. contract' + oldContract' + SumFunction(balance') = Supply
  <2>1. balance \in [Delegator -> Int] /\ \A c \in Delegator : c # d => balance'[c] = balance[c]
    BY DEF SumInv
  <2>2. SumChanges(balance, balance', d) /\ SumFunction(balance) \in Int
    BY <1>0, <1>15, <2>1, SumUpdate, SumType, ZenonT(30)
  <2>3. balance'[d] = balance[d] - amount /\ balance[d] \in Int
    BY <2>1
  <2>4. contract + oldContract + SumFunction(balance) = Supply /\ contract \in Int /\ oldContract \in Int
    BY DEF SumInv, ContractCoversStakes
  <2> QED
    BY <2>2, <2>3, <2>4, SMTT(20) DEF SumChanges
<1>17. ContractCoversStakes'
  <2>1. Supply' = Supply
    BY DEF Supply, OldSupply, OldTotal
  <2> QED
    BY <1>14, <1>16, <2>1 DEF ContractCoversStakes, LatestStakes
<1> QED
  BY <1>1, <1>10, <1>13, <1>15, <1>17, SMTT(30) DEF SumInv

\* What histories with at most one checkpoint say.
LEMMA ShortStakes ==
    ASSUME NEW e \in Int, NEW amount \in Int
    PROVE  /\ LatestAmount(<<>>) = 0 /\ LatestAmount(<<Checkpoint(e, amount)>>) = amount
           /\ Amounts(<<>>) /\ Amounts(<<Checkpoint(e, amount)>>)
           /\ \A p \in Int : StakeAt(<<>>, p) = 0
           /\ \A p \in Int : StakeAt(<<Checkpoint(e, amount)>>, p) = IF e <= p THEN amount ELSE 0
<1> DEFINE c == Checkpoint(e, amount)
           h == <<c>>
<1>1. c.from = e /\ c.amount = amount
  BY DEF Checkpoint
<1> HIDE DEF c
<1>2. DOMAIN h = {1} /\ h[1] = c /\ Len(h) = 1 /\ h # <<>>
  OBVIOUS
<1>3. DOMAIN <<>> = {}
  OBVIOUS
<1> HIDE DEF h
<1>4. LatestAmount(<<>>) = 0 /\ Amounts(<<>>) /\ \A p \in Int : StakeAt(<<>>, p) = 0
  BY <1>3 DEF LatestAmount, Amounts, StakeAt
<1>5. LatestAmount(h) = amount /\ Amounts(h)
  BY <1>1, <1>2 DEF LatestAmount, Amounts
<1>6. ASSUME NEW p \in Int PROVE StakeAt(h, p) = IF e <= p THEN amount ELSE 0
  <2>1. CASE ~ (e <= p)
    BY <1>1, <1>2, <2>1 DEF StakeAt
  <2>2. CASE e <= p
    <3> DEFINE a == CHOOSE i \in DOMAIN h : h[i].from <= p /\ \A j \in DOMAIN h : h[j].from <= p => j <= i
    <3>1. a \in DOMAIN h
      BY <1>1, <1>2, <2>2
    <3>2. StakeAt(h, p) = h[a].amount
      BY <1>1, <1>2, <2>2 DEF StakeAt
    <3> QED
      BY <1>1, <1>2, <2>2, <3>1, <3>2
  <2> QED
    BY <2>1, <2>2
<1> QED
  BY <1>4, <1>5, <1>6 DEF h, c

\* The sum of nothing is zero.
LEMMA SumZero ==
    ASSUME NEW S, IsFiniteSet(S), NEW v \in [S -> Int], \A x \in S : v[x] = 0
    PROVE  SumFunction(v) = 0
<1>1. SumFunction(v) = Cardinality(S) * 0 /\ Cardinality(S) \in Nat
  BY SumConstant, FS_CardinalityType
<1> QED
  BY <1>1

\* The stakes of the first contract are integers.
LEMMA OldTyped == OldSupply \in Int /\ \A f \in Forger : OldTotal(f) \in Int /\ OldStakes[f] \in [Delegator -> Int]
<1>0. IsFiniteSet(Forger) /\ IsFiniteSet(Delegator)
  BY StakesAssumption
<1>1. \A f \in Forger : OldStakes[f] \in [Delegator -> Int]
  BY StakesAssumption
<1>2. \A f \in Forger : OldTotal(f) \in Int
  BY <1>0, <1>1, SumType DEF OldTotal
<1>3. [f \in Forger |-> OldTotal(f)] \in [Forger -> Int]
  BY <1>2
<1>4. OldSupply \in Int
  BY <1>0, <1>3, SumType, Zenon DEF OldSupply
<1> QED
  BY <1>1, <1>2, <1>4

\* The migration gives each forger the sum of what it had.
LEMMA ActivateSums ==
    ASSUME SumInv, activate
    PROVE  SumInv'
<1>0. IsFiniteSet(Forger) /\ IsFiniteSet(Delegator)
  BY StakesAssumption
<1> DEFINE migrated == {f \in Forger : OldStakers(f) # {}}
<1>1. StakeInv' /\ StakeInv
  BY ActivateStep DEF SumInv
<1>2. /\ epoch' = epoch /\ active' = TRUE /\ balance' = balance
      /\ contract' = contract + OldSupply /\ oldContract' = oldContract - OldSupply
      /\ contract = 0 /\ oldContract = OldSupply
      /\ forgerHistory' = [f \in Forger |->
              IF f \in migrated THEN <<Checkpoint(epoch, OldTotal(f))>> ELSE <<>>]
      /\ stakeHistory' = [f \in Forger |-> [d \in Delegator |->
              IF d \in OldStakers(f) THEN <<Checkpoint(epoch, OldStakes[f][d])>> ELSE <<>>]]
  BY Zenon DEF activate, SumInv
<1>3. epoch \in Int /\ epoch \in Nat
  BY DEF SumInv, StakeInv
<1>4. ASSUME NEW f \in Forger, NEW d \in Delegator, d \notin OldStakers(f) PROVE OldStakes[f][d] = 0
  <2>1. OldStakes[f][d] \in Nat /\ ~ (OldStakes[f][d] > 0)
    BY <1>4, StakesAssumption DEF OldStakers
  <2> QED
    BY <2>1
<1>5. ASSUME NEW f \in Forger, f \notin migrated PROVE OldTotal(f) = 0
  <2>1. \A d \in Delegator : OldStakes[f][d] = 0
    BY <1>4, <1>5
  <2> QED
    BY <1>0, <2>1, OldTyped, SumZero DEF OldTotal
<1> HIDE DEF migrated
<1>6. ASSUME NEW f \in Forger
      PROVE  /\ Amounts(forgerHistory'[f]) /\ LatestAmount(forgerHistory'[f]) = OldTotal(f)
             /\ \A p \in Int : StakeAt(forgerHistory'[f], p) = IF epoch <= p THEN OldTotal(f) ELSE 0
  <2>1. OldTotal(f) \in Int
    BY OldTyped
  <2>2. CASE f \in migrated
    <3>1. forgerHistory'[f] = <<Checkpoint(epoch, OldTotal(f))>>
      BY <1>2, <2>2
    <3> QED
      BY <1>3, <2>1, <3>1, ShortStakes
  <2>3. CASE f \notin migrated
    <3>1. forgerHistory'[f] = <<>> /\ OldTotal(f) = 0
      BY <1>2, <1>5, <2>3, SMTT(30)
    <3> QED
      BY <1>3, <2>1, <3>1, ShortStakes, ZenonT(30)
  <2> QED
    BY <2>2, <2>3
<1>7. ASSUME NEW f \in Forger, NEW d \in Delegator
      PROVE  /\ Amounts(stakeHistory'[f][d])
             /\ \A p \in Int : StakeAt(stakeHistory'[f][d], p) = IF epoch <= p THEN OldStakes[f][d] ELSE 0
  <2>1. OldStakes[f][d] \in Int
    BY StakesAssumption
  <2>2. CASE d \in OldStakers(f)
    <3>1. stakeHistory'[f][d] = <<Checkpoint(epoch, OldStakes[f][d])>>
      BY <1>2, <2>2
    <3> QED
      BY <1>3, <2>1, <3>1, ShortStakes, SMTT(30)
  <2>3. CASE d \notin OldStakers(f)
    <3>1. stakeHistory'[f][d] = <<>> /\ OldStakes[f][d] = 0
      BY <1>2, <1>4, <2>3
    <3> QED
      BY <1>3, <2>1, <3>1, ShortStakes, ZenonT(30)
  <2> QED
    BY <2>2, <2>3
<1>8. ASSUME NEW f \in Forger, NEW e \in 0 .. epoch
      PROVE  StakeAt(forgerHistory'[f], e) = SumFunction(StakesWith(stakeHistory', f, e))
  <2>1. e \in Int /\ e <= epoch
    BY <1>3
  <2> DEFINE v == StakesWith(stakeHistory', f, e)
  <2>2. \A d \in Delegator : v[d] = IF epoch <= e THEN OldStakes[f][d] ELSE 0
    BY <1>7, <2>1 DEF StakesWith
  <2>3. v = [d \in Delegator |-> v[d]]
    BY DEF StakesWith
  <2>4. OldStakes[f] \in [Delegator -> Int]
    BY OldTyped
  <2> HIDE DEF v
  <2>5. CASE e = epoch
    <3>1. \A d \in Delegator : v[d] = OldStakes[f][d]
      BY <1>3, <2>2, <2>5
    <3>2. v = OldStakes[f]
      BY <2>3, <2>4, <3>1
    <3>3. StakeAt(forgerHistory'[f], e) = OldTotal(f)
      BY <1>3, <1>6, <2>5
    <3> QED
      BY <3>2, <3>3 DEF OldTotal, v
  <2>6. CASE e # epoch
    <3>1. \A d \in Delegator : v[d] = 0
      BY <1>3, <2>1, <2>2, <2>6
    <3>2. v \in [Delegator -> Int]
      BY <2>3, <3>1
    <3>3. SumFunction(v) = 0
      BY <1>0, <3>1, <3>2, SumZero
    <3>4. StakeAt(forgerHistory'[f], e) = 0
      BY <1>3, <1>6, <2>1, <2>6, SMTT(30)
    <3> QED
      BY <3>3, <3>4 DEF v
  <2> QED
    BY <2>5, <2>6
<1>9. ForgerStakeIsSumOfDelegators'
  BY <1>2, <1>8 DEF ForgerStakeIsSumOfDelegators, StakesWith
<1>10. LatestStakes(forgerHistory') = [f \in Forger |-> OldTotal(f)]
  BY <1>6 DEF LatestStakes
<1>11. contract' = OldSupply /\ oldContract' = 0
  BY <1>2, OldTyped
<1>12. contract' = SumFunction(LatestStakes(forgerHistory'))
  BY <1>10, <1>11 DEF OldSupply
<1>13. contract' + oldContract' + SumFunction(balance') = Supply
  <2>1. contract + oldContract + SumFunction(balance) = Supply
    BY DEF SumInv, ContractCoversStakes
  <2> QED
    BY <1>2, <1>11, <2>1, OldTyped
<1>14. ContractCoversStakes'
  <2>1. Supply' = Supply
    BY SMTT(20) DEF Supply, OldSupply, OldTotal
  <2> QED
    BY <1>12, <1>13, <2>1, SMTT(30) DEF ContractCoversStakes, LatestStakes
<1>15. balance' \in [Delegator -> Int] /\ contract' \in Int /\ oldContract' \in Int
  BY <1>2, <1>11, OldTyped DEF SumInv
<1> QED
  BY <1>1, <1>2, <1>6, <1>7, <1>9, <1>14, <1>15, ZenonT(30) DEF SumInv

\* Every step keeps the sums.
LEMMA SumStep ==
    ASSUME SumInv, [Next]_vars
    PROVE  SumInv'
<1>1. CASE activate
  BY <1>1, ActivateSums, SMTT(20)
<1>2. CASE NextEpoch
  <2>1. /\ epoch' = epoch + 1
        /\ UNCHANGED <<active, forgers, forgerHistory, stakeHistory, balance, contract, oldContract>>
    BY <1>2, SMTT(20) DEF NextEpoch
  <2>2. StakeInv' /\ epoch \in Int /\ epoch \in Nat
    BY <1>2, StakeStep DEF SumInv, StakeInv, Next
  <2>3. ASSUME NEW h, OrderedUpTo(h, epoch) PROVE StakeAt(h, epoch + 1) = StakeAt(h, epoch)
    BY <2>2, <2>3, StakeNow, OrderedLater
  <2>4. ASSUME NEW f \in Forger, NEW e \in 0 .. epoch + 1
        PROVE  StakeAt(forgerHistory[f], e) = SumFunction(StakesWith(stakeHistory, f, e))
    <3>1. \A p \in 0 .. epoch : StakeAt(forgerHistory[f], p) = SumFunction(StakesWith(stakeHistory, f, p))
      BY DEF SumInv, ForgerStakeIsSumOfDelegators, StakesWith
    <3>2. CASE e \in 0 .. epoch
      BY <3>1, <3>2
    <3>3. CASE e = epoch + 1
      <4>1. StakeAt(forgerHistory[f], e) = StakeAt(forgerHistory[f], epoch)
        BY <2>3, <3>3 DEF SumInv, StakeInv
      <4>2. \A d \in Delegator : StakeAt(stakeHistory[f][d], e) = StakeAt(stakeHistory[f][d], epoch)
        BY <2>3, <3>3 DEF SumInv, StakeInv
      <4>3. StakesWith(stakeHistory, f, e) = StakesWith(stakeHistory, f, epoch)
        BY <4>2 DEF StakesWith
      <4>4. epoch \in 0 .. epoch
        BY <2>2
      <4> QED
        BY <3>1, <4>1, <4>3, <4>4, SMTT(20)
    <3> QED
      BY <2>2, <3>2, <3>3
  <2>5. ForgerStakeIsSumOfDelegators'
    BY <2>1, <2>4 DEF ForgerStakeIsSumOfDelegators, StakesWith
  <2>6. ContractCoversStakes'
    BY <2>1, SMTT(20) DEF SumInv, ContractCoversStakes, Supply, OldSupply, OldTotal
  <2> QED
    BY <2>1, <2>2, <2>5, <2>6 DEF SumInv
<1>3. ASSUME UNCHANGED <<active, epoch, forgers, forgerHistory, stakeHistory, balance, contract, oldContract>>
      PROVE  SumInv'
  BY <1>3 DEF SumInv, StakeInv, ForgerStakeIsSumOfDelegators, ContractCoversStakes, Supply, OldSupply, OldTotal
<1>4. ASSUME NEW f \in Forger, updateForger(f) PROVE SumInv'
  BY <1>3, <1>4, Zenon DEF updateForger
<1>5. ASSUME NEW f \in Forger, NEW d \in Delegator, NEW amount \in Int, NEW withReward,
             registerForger(f, d, amount, withReward)
      PROVE  SumInv'
  <2>1. /\ active /\ active' = active /\ epoch' = epoch /\ oldContract' = oldContract
        /\ forgers' = Append(forgers, f) /\ f \notin Elems(forgers)
        /\ balance' = [balance EXCEPT ![d] = @ - amount] /\ contract' = contract + amount
        /\ forgerHistory' = [forgerHistory EXCEPT ![f] = Append(@, Checkpoint(epoch, amount))]
        /\ stakeHistory' = [stakeHistory EXCEPT ![f][d] = Append(@, Checkpoint(epoch, amount))]
    BY <1>5, Zenon DEF registerForger, Exists
  <2>2. forgerHistory[f] = <<>> /\ stakeHistory[f][d] = <<>> /\ forgers \in Seq(Forger)
    BY <2>1 DEF SumInv, StakeInv
  <2>3. /\ LatestAmount(<<>>) + amount = amount
        /\ Append(<<>>, Checkpoint(epoch, amount)) = UpdateOrAddCheckpoint(<<>>, epoch, amount)
    BY DEF UpdateOrAddCheckpoint, LatestAmount
  <2>4. forgerHistory' = [forgerHistory EXCEPT ![f] =
            UpdateOrAddCheckpoint(forgerHistory[f], epoch, LatestAmount(forgerHistory[f]) + amount)]
    BY <2>1, <2>2, <2>3, Zenon
  <2>5. stakeHistory' = [stakeHistory EXCEPT ![f][d] =
            UpdateOrAddCheckpoint(stakeHistory[f][d], epoch, LatestAmount(stakeHistory[f][d]) + amount)]
    BY <2>1, <2>2, <2>3, Zenon
  <2>6. /\ forgers' \in Seq(Forger)
        /\ Elems(forgers) \subseteq Elems(forgers')
        /\ f \in Elems(forgers')
    <3>1. forgers' = Append(forgers, f) /\ forgers \in Seq(Forger)
      BY <2>1, <2>2
    <3> QED
      BY <3>1 DEF Elems
  <2> QED
    BY <2>1, <2>4, <2>5, <2>6, MoveStep, Zenon
<1>6. ASSUME NEW f \in Forger, NEW d \in Delegator, NEW amount \in Int, active,
             UpdateHistories(f, d, LatestAmount(forgerHistory[f]) + amount, LatestAmount(stakeHistory[f][d]) + amount),
             forgerHistory[f] # <<>>, UNCHANGED <<active, epoch, forgers, oldContract>>,
             balance' = [balance EXCEPT ![d] = @ - amount], contract' = contract + amount
      PROVE  SumInv'
  <2>1. f \in Elems(forgers')
    BY <1>6 DEF SumInv, StakeInv
  <2>2. /\ forgerHistory' = [forgerHistory EXCEPT ![f] =
              UpdateOrAddCheckpoint(forgerHistory[f], epoch, LatestAmount(forgerHistory[f]) + amount)]
        /\ stakeHistory' = [stakeHistory EXCEPT ![f][d] =
              UpdateOrAddCheckpoint(stakeHistory[f][d], epoch, LatestAmount(stakeHistory[f][d]) + amount)]
    BY <1>6, SMTT(30) DEF UpdateHistories
  <2>3. forgers' \in Seq(Forger) /\ epoch' = epoch /\ forgers' = forgers
    BY <1>6 DEF SumInv, StakeInv
  <2>4. /\ Elems(forgers) \subseteq Elems(forgers')
    BY <2>3
  <2>5. active' = active /\ oldContract' = oldContract
    BY <1>6
  <2> QED
    BY <1>6, <2>1, <2>2, <2>3, <2>4, <2>5, MoveStep, ZenonT(30)
<1>7. ASSUME NEW f \in Forger, NEW d \in Delegator, NEW amount \in Int, delegate(f, d, amount)
      PROVE  SumInv'
  BY <1>6, <1>7, Zenon DEF delegate
<1>8. ASSUME NEW f \in Forger, NEW d \in Delegator, NEW amount \in Int, withdraw(f, d, amount)
      PROVE  SumInv'
  <2> DEFINE back == 0 - amount
  <2>1. /\ active /\ forgerHistory[f] # <<>> /\ UNCHANGED <<active, epoch, forgers, oldContract>>
        /\ UpdateHistories(f, d, LatestAmount(forgerHistory[f]) - amount,
                           LatestAmount(stakeHistory[f][d]) - amount)
        /\ balance' = [balance EXCEPT ![d] = @ + amount]
        /\ contract' = contract - amount
    BY <1>8, ZenonT(30) DEF withdraw
  <2>2. /\ LatestAmount(forgerHistory[f]) \in Int /\ LatestAmount(stakeHistory[f][d]) \in Int
        /\ contract \in Int /\ balance \in [Delegator -> Int]
    <3>1. /\ epoch \in Int /\ OrderedUpTo(forgerHistory[f], epoch) /\ OrderedUpTo(stakeHistory[f][d], epoch)
          /\ Amounts(forgerHistory[f]) /\ Amounts(stakeHistory[f][d])
      BY DEF SumInv, StakeInv
    <3> QED
      BY <3>1, StakeNow, StakeAtType, SMTT(30) DEF SumInv
  <2>3. /\ LatestAmount(forgerHistory[f]) - amount = LatestAmount(forgerHistory[f]) + back
        /\ LatestAmount(stakeHistory[f][d]) - amount = LatestAmount(stakeHistory[f][d]) + back
        /\ contract - amount = contract + back /\ balance[d] + amount = balance[d] - back
        /\ back \in Int
    BY <2>2
  <2> HIDE DEF back
  <2>4. /\ UpdateHistories(f, d, LatestAmount(forgerHistory[f]) + back, LatestAmount(stakeHistory[f][d]) + back)
        /\ contract' = contract + back /\ balance' = [balance EXCEPT ![d] = @ - back]
    BY <2>1, <2>3, Zenon
  <2> QED
    BY <1>6, <2>1, <2>3, <2>4, Zenon
<1>9. CASE UNCHANGED vars
  BY <1>3, <1>9, Zenon DEF vars
<1>10. \A amount \in 1 .. Supply : amount \in Int
  OBVIOUS
<1> QED
  BY <1>1, <1>2, <1>4, <1>5, <1>7, <1>8, <1>9, <1>10, ZenonT(30) DEF Next

\* At the start nothing is staked and the contract is empty.
LEMMA SumInit == Init => SumInv
<1> SUFFICES ASSUME Init PROVE SumInv
  OBVIOUS
<1>0. IsFiniteSet(Forger) /\ IsFiniteSet(Delegator) /\ Funds \in Int
  BY StakesAssumption, SMTT(30)
<1>1. StakeInv /\ epoch \in Nat
  BY StakeInit DEF StakeInv
<1>2. /\ active = FALSE /\ forgers = <<>> /\ contract = 0 /\ oldContract = OldSupply
      /\ forgerHistory = [f \in Forger |-> <<>>]
      /\ stakeHistory = [f \in Forger |-> [d \in Delegator |-> <<>>]]
      /\ balance = [d \in Delegator |-> Funds]
  BY Zenon DEF Init
<1>3. LatestAmount(<<>>) = 0 /\ Amounts(<<>>) /\ \A p \in Int : StakeAt(<<>>, p) = 0
  <2>1. 0 \in Int
    OBVIOUS
  <2> QED
    BY <2>1, ShortStakes, Zenon
<1>4. \A f \in Forger : forgerHistory[f] = <<>> /\ \A d \in Delegator : stakeHistory[f][d] = <<>>
  BY <1>2, Zenon
<1>5. ForgerStakeIsSumOfDelegators
  <2>1. ASSUME NEW f \in Forger, NEW e \in 0 .. epoch
        PROVE  StakeAt(forgerHistory[f], e) = SumFunction(StakesWith(stakeHistory, f, e))
    <3>1. e \in Int
      BY <1>1
    <3> DEFINE v == StakesWith(stakeHistory, f, e)
    <3>2. v \in [Delegator -> Int] /\ \A d \in Delegator : v[d] = 0
      BY <1>3, <1>4, <3>1 DEF StakesWith
    <3> HIDE DEF v
    <3>3. SumFunction(v) = 0
      BY <1>0, <3>2, SumZero
    <3>4. StakeAt(forgerHistory[f], e) = 0
      BY <1>3, <1>4, <3>1, Zenon
    <3> QED
      BY <3>3, <3>4 DEF v
  <2> QED
    BY <2>1 DEF ForgerStakeIsSumOfDelegators, StakesWith
<1>6. contract = SumFunction(LatestStakes(forgerHistory))
  <2> DEFINE v == LatestStakes(forgerHistory)
  <2>1. v \in [Forger -> Int] /\ \A f \in Forger : v[f] = 0
    BY <1>3, <1>4 DEF LatestStakes
  <2> HIDE DEF v
  <2>2. SumFunction(v) = 0
    BY <1>0, <2>1, SumZero
  <2> QED
    BY <1>2, <2>2 DEF v
<1>7. balance \in [Delegator -> Int] /\ \A d \in Delegator : balance[d] = Funds
  BY <1>0, <1>2
<1>8. SumFunction(balance) = Cardinality(Delegator) * Funds
  BY <1>0, <1>7, SumConstant
<1>9. contract + oldContract + SumFunction(balance) = Supply
  <2>1. Cardinality(Delegator) \in Nat
    BY <1>0, FS_CardinalityType
  <2>2. Cardinality(Delegator) * Funds \in Int
    BY <1>0, <2>1
  <2> QED
    BY <1>2, <1>8, <2>2, OldTyped DEF Supply
<1>10. ContractCoversStakes
  BY <1>6, <1>9 DEF ContractCoversStakes, LatestStakes
<1>11. contract \in Int /\ oldContract \in Int
  BY <1>2, OldTyped
<1> QED
  BY <1>1, <1>2, <1>3, <1>4, <1>5, <1>7, <1>10, <1>11, ZenonT(30) DEF SumInv

\* At every epoch, past ones included, the stake of a forger is the sum of what
\* its delegators have with it: addStake and removeStake change both histories
\* by the same amount and activate starts both from the same stakes.
THEOREM StakesAddUp == Spec => []ForgerStakeIsSumOfDelegators
<1>1. SumInv => ForgerStakeIsSumOfDelegators
  BY DEF SumInv
<1> QED
  BY <1>1, SumInit, SumStep, PTL DEF Spec

\* The contract always holds exactly the latest stakes, so every delegator can
\* withdraw, and the coins of the accounts and the two contracts stay the same.
THEOREM StakesAreCovered == Spec => []ContractCoversStakes
<1>1. SumInv => ContractCoversStakes
  BY DEF SumInv
<1> QED
  BY <1>1, SumInit, SumStep, PTL DEF Spec

\* Every range query of every history answers what the checkpoints say, however
\* many checkpoints there are: checkpointBSearch narrows the whole history or
\* one side of its most recent 2 * sqrt(n) checkpoints.
THEOREM QueriesAreRight == Spec => []QueriesAgreeWithCheckpoints
<1>1. StakeInv => QueriesAgreeWithCheckpoints
  <2> SUFFICES ASSUME StakeInv, NEW f \in Forger, NEW first \in 0 .. epoch, NEW last \in 0 .. epoch,
                      NEW h \in {forgerHistory[f]} \cup {stakeHistory[f][d] : d \in Delegator},
                      first <= last, NEW e \in first .. last
               PROVE  StakesPerEpoch(h, first, last)[e] = StakeAt(h, e)
    BY Zenon DEF QueriesAgreeWithCheckpoints
  <2>1. epoch \in Int /\ first \in Nat /\ last \in Nat
    BY DEF StakeInv
  <2>2. OrderedUpTo(h, epoch)
    BY DEF StakeInv
  <2> QED
    BY <2>1, <2>2, QueryAnswers
<1> QED
  BY <1>1, StakeInit, StakeStep, PTL DEF Spec

==============================================================================
