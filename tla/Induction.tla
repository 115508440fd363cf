------------------------------- MODULE Induction -------------------------------
(***************************************************************************)
(* Induction on numbers and on finite sets, from the least-number          *)
(* principle, and what it says of the folds of the community modules: a    *)
(* fold exists, and sums do not depend on the order of their terms.        *)
(* Predicates are sets here, which the provers can instantiate.            *)
(***************************************************************************)
EXTENDS Integers, Sequences, FiniteSets, WellFoundedInduction, FiniteSetTheorems, TLAPS

\* Every set of natural numbers that is not empty has a least one.
LEMMA LeastNumber ==
  ASSUME NEW T, T \subseteq Nat, T # {}
  PROVE  \E m \in T : \A n \in T : m <= n
  <1>1. IsWellFoundedOn(OpToRel(<, Nat), Nat)
    BY NatLessThanWellFounded
  <1>2. PICK m \in T : \A n \in T : ~(<<n, m>> \in OpToRel(<, Nat))
    BY <1>1, WFMin
  <1>3. \A n \in T : <<n, m>> \in OpToRel(<, Nat) <=> n < m
    BY DEF OpToRel
  <1>4. \A n \in T : n \in Nat /\ m \in Nat /\ ~(n < m)
    BY <1>2, <1>3
  <1> QED BY <1>4

\* Induction on numbers, and on the subsets of a finite set.
LEMMA Counting ==
  ASSUME NEW T, 0 \in T, \A n \in Nat : n \in T => n + 1 \in T
  PROVE  Nat \subseteq T
  <1> SUFFICES ASSUME Nat \ T # {} PROVE FALSE
    OBVIOUS
  <1>1. PICK m \in Nat \ T : \A n \in Nat \ T : m <= n
    BY LeastNumber, Nat \ T \subseteq Nat
  <1>2. m # 0 /\ m - 1 \in Nat
    BY <1>1
  <1>3. m - 1 \in T
    BY <1>1, <1>2
  <1> QED BY <1>1, <1>2, <1>3

LEMMA SubsetInduction ==
  ASSUME NEW S, IsFiniteSet(S), NEW T, {} \in T,
         \A s \in SUBSET S : s # {} /\ (\A x \in s : s \ {x} \in T) => s \in T
  PROVE  SUBSET S \subseteq T
  <1> DEFINE N == {n \in Nat : \A s \in SUBSET S : Cardinality(s) = n => s \in T}
  <1>1. \A s \in SUBSET S : IsFiniteSet(s) /\ Cardinality(s) \in Nat
    BY FS_Subset, FS_CardinalityType
  <1>2. 0 \in N
    BY <1>1, FS_EmptySet
  <1>3. ASSUME NEW n \in Nat, n \in N PROVE n + 1 \in N
    <2> SUFFICES ASSUME NEW s \in SUBSET S, Cardinality(s) = n + 1 PROVE s \in T
      OBVIOUS
    <2>1. s # {}
      <3>1. Cardinality({}) = 0 /\ n + 1 # 0
        BY FS_EmptySet
      <3> QED BY <3>1
    <2>2. ASSUME NEW x \in s PROVE s \ {x} \in T
      <3>1. IsFiniteSet(s)
        BY <1>1
      <3>2. Cardinality(s \ {x}) = Cardinality(s) - 1
        BY <3>1, FS_RemoveElement
      <3> QED BY <1>3, <3>2
    <2> QED BY <2>1, <2>2
  <1>4. Nat \subseteq N
    <2> HIDE DEF N
    <2> QED BY <1>2, <1>3, Counting
  <1> QED BY <1>1, <1>4

LEMMA SubsetsBelow ==
  ASSUME NEW S, IsFiniteSet(S), NEW T, {} \in T,
         \A s \in SUBSET S : s # {} /\ (\A u \in SUBSET s : u # s => u \in T) => s \in T
  PROVE  SUBSET S \subseteq T
  <1> DEFINE W == {s \in SUBSET S : SUBSET s \subseteq T}
  <1>1. {} \in W
    OBVIOUS
  <1>2. ASSUME NEW s \in SUBSET S, s # {}, \A x \in s : s \ {x} \in W
        PROVE  s \in W
    <2>1. ASSUME NEW u \in SUBSET s, u # s PROVE u \in T
      <3>1. PICK x \in s : x \notin u
        BY <2>1
      <3>2. s \ {x} \in W /\ u \in SUBSET (s \ {x})
        BY <1>2, <3>1
      <3> QED BY <3>2
    <2> QED BY <1>2, <2>1
  <1>3. SUBSET S \subseteq W
    <2> HIDE DEF W
    <2> QED BY <1>1, <1>2, SubsetInduction
  <1> QED BY <1>3

-----------------------------------------------------------------------------
(***************************************************************************)
(* Folds.                                                                  *)
(***************************************************************************)
IsFold(f, S, V, base, pick, G) ==
  /\ f \in [SUBSET S -> V]
  /\ \A s \in SUBSET S : f[s] = IF s = {} THEN base ELSE G[pick[s]][f[s \ {pick[s]}]]

\* A fold over the subsets of a finite set exists.
LEMMA FoldExists ==
  ASSUME NEW S, IsFiniteSet(S), NEW V, NEW base \in V,
         NEW pick, \A s \in (SUBSET S) \ {{}} : pick[s] \in s,
         NEW G \in [S -> [V -> V]]
  PROVE  \E f : IsFold(f, S, V, base, pick, G)
  <1> DEFINE Small(n) == {s \in SUBSET S : Cardinality(s) <= n}
             Is(f, n) == \A s \in Small(n) :
                           f[s] = IF s = {} THEN base ELSE G[pick[s]][f[s \ {pick[s]}]]
             N == {n \in Nat : \E f \in [Small(n) -> V] : Is(f, n)}
  <1>1. \A s \in SUBSET S : IsFiniteSet(s) /\ Cardinality(s) \in Nat
    BY FS_Subset, FS_CardinalityType
  <1>2. \A s \in (SUBSET S) \ {{}} :
           pick[s] \in S /\ s \ {pick[s]} \in SUBSET S
           /\ Cardinality(s \ {pick[s]}) = Cardinality(s) - 1
    BY <1>1, FS_RemoveElement
  <1>3. 0 \in N
    <2>1. Small(0) = {{}}
      BY <1>1, FS_EmptySet
    <2>2. [s \in Small(0) |-> base] \in [Small(0) -> V] /\ Is([s \in Small(0) |-> base], 0)
      BY <2>1
    <2> QED BY <2>2
  <1>4. ASSUME NEW n \in Nat, n \in N PROVE n + 1 \in N
    <2>1. PICK f \in [Small(n) -> V] : Is(f, n)
      BY <1>4
    <2> DEFINE g == [s \in Small(n + 1) |->
                       IF s \in Small(n) THEN f[s] ELSE G[pick[s]][f[s \ {pick[s]}]]]
    <2>2. \A s \in Small(n + 1) : s # {} => s \ {pick[s]} \in Small(n)
      BY <1>1, <1>2
    <2>3. {} \in Small(n) /\ Small(n) \subseteq Small(n + 1)
      BY <1>1, FS_EmptySet
    <2>4. g \in [Small(n + 1) -> V]
      <3> SUFFICES ASSUME NEW s \in Small(n + 1), s \notin Small(n)
                   PROVE  G[pick[s]][f[s \ {pick[s]}]] \in V
        OBVIOUS
      <3>1. pick[s] \in S /\ f[s \ {pick[s]}] \in V
        BY <1>2, <2>2, <2>3
      <3>2. G[pick[s]] \in [V -> V]
        BY <3>1
      <3> HIDE DEF Small, Is
      <3> QED BY <3>1, <3>2
    <2>5. Is(g, n + 1)
      <3> SUFFICES ASSUME NEW s \in Small(n + 1)
                   PROVE  g[s] = IF s = {} THEN base ELSE G[pick[s]][g[s \ {pick[s]}]]
        OBVIOUS
      <3>1. s # {} => g[s \ {pick[s]}] = f[s \ {pick[s]}]
        BY <2>2, <2>3
      <3>2. s \in Small(n) => f[s] = IF s = {} THEN base ELSE G[pick[s]][f[s \ {pick[s]}]]
        BY <2>1
      <3> QED BY <2>3, <3>1, <3>2
    <2>6. \E h \in [Small(n + 1) -> V] : Is(h, n + 1)
      BY <2>4, <2>5
    <2> HIDE DEF Small, Is
    <2> QED BY <2>6
  <1>5. Nat \subseteq N
    <2> HIDE DEF N
    <2> QED BY <1>3, <1>4, Counting
  <1>6. Cardinality(S) \in Nat /\ Small(Cardinality(S)) = SUBSET S
    BY <1>1, FS_Subset, FS_CardinalityType
  <1>7. PICK f \in [Small(Cardinality(S)) -> V] : Is(f, Cardinality(S))
    <2> HIDE DEF Small, Is
    <2> QED BY <1>5, <1>6
  <1> QED BY <1>6, <1>7 DEF IsFold

-----------------------------------------------------------------------------
(***************************************************************************)
(* Folds from the left take the greatest position last.                    *)
(***************************************************************************)
MaxOf(s) == CHOOSE x \in s : \A y \in s : x >= y

IsLeftFold(f, S, V, base, G) ==
  /\ f \in [SUBSET S -> V]
  /\ f = [s \in SUBSET S |-> IF s = {} THEN base ELSE G[MaxOf(s)][f[s \ {MaxOf(s)}]]]

LEMMA MaxExists ==
  ASSUME NEW n \in Nat, NEW s \in SUBSET (1 .. n), s # {}
  PROVE  MaxOf(s) \in s /\ \A y \in s : MaxOf(s) >= y
  <1>1. PICK m \in {n - x : x \in s} : \A k \in {n - x : x \in s} : m <= k
    <2>1. \A x \in s : n - x \in Nat
      OBVIOUS
    <2>2. {n - x : x \in s} \subseteq Nat /\ {n - x : x \in s} # {}
      BY <2>1
    <2> QED BY <2>2, LeastNumber
  <1>2. PICK x \in s : m = n - x
    BY <1>1
  <1>3. ASSUME NEW y \in s PROVE x >= y
    <2>1. n - y \in {n - z : z \in s} /\ x \in Nat /\ y \in Nat
      OBVIOUS
    <2>2. n - x <= n - y
      BY <1>1, <1>2, <2>1
    <2> QED BY <2>1, <2>2
  <1> QED BY <1>3 DEF MaxOf

LEMMA LeftFoldExists ==
  ASSUME NEW n \in Nat, NEW V, NEW base \in V, NEW G \in [1 .. n -> [V -> V]]
  PROVE  \E f : IsLeftFold(f, 1 .. n, V, base, G)
  <1> DEFINE pick == [s \in (SUBSET (1 .. n)) \ {{}} |-> MaxOf(s)]
  <1>1. \A s \in (SUBSET (1 .. n)) \ {{}} : pick[s] \in s
    BY MaxExists
  <1>2. IsFiniteSet(1 .. n)
    BY FS_Interval
  <1>3. PICK f : IsFold(f, 1 .. n, V, base, pick, G)
    <2> HIDE DEF pick
    <2> QED BY <1>1, <1>2, FoldExists
  <1>4. \A s \in SUBSET (1 .. n) :
          f[s] = IF s = {} THEN base ELSE G[MaxOf(s)][f[s \ {MaxOf(s)}]]
    BY <1>3 DEF IsFold
  <1>5. f = [s \in SUBSET (1 .. n) |-> f[s]] /\ f \in [SUBSET (1 .. n) -> V]
    BY <1>3 DEF IsFold
  <1> QED BY <1>4, <1>5 DEF IsLeftFold

LEMMA Prefixes ==
  ASSUME NEW n \in Nat, NEW k \in 1 .. n
  PROVE  /\ 1 .. k \in SUBSET (1 .. n) /\ 1 .. k # {}
         /\ MaxOf(1 .. k) = k /\ (1 .. k) \ {k} = 1 .. (k - 1)
  <1>1. /\ 1 .. k \in SUBSET (1 .. n) /\ 1 .. k # {}
        /\ (1 .. k) \ {k} = 1 .. (k - 1)
    OBVIOUS
  <1>2. /\ MaxOf(1 .. k) \in 1 .. k
        /\ \A y \in 1 .. k : MaxOf(1 .. k) >= y
    BY <1>1, MaxExists
  <1>3. MaxOf(1 .. k) = k
    BY <1>2
  <1> QED BY <1>1, <1>3

-----------------------------------------------------------------------------
(***************************************************************************)
(* Sums.                                                                   *)
(***************************************************************************)
AddsUp(f, g, S) ==
  f = [s \in SUBSET S |-> IF s = {} THEN 0
                          ELSE g[CHOOSE x \in s : TRUE] + f[s \ {CHOOSE x \in s : TRUE}]]

SumOf(g, S) == (CHOOSE f : AddsUp(f, g, S))[S]

\* In whatever order the terms are added.
IsSum(f, g, S) ==
  /\ f \in [SUBSET S -> Nat] /\ f[{}] = 0
  /\ \A s \in SUBSET S : \A x \in s : f[s] = g[x] + f[s \ {x}]

LEMMA SumExists ==
  ASSUME NEW S, IsFiniteSet(S), NEW g, \A x \in S : g[x] \in Nat
  PROVE  \E f : AddsUp(f, g, S)
  <1> DEFINE pick == [s \in (SUBSET S) \ {{}} |-> CHOOSE x \in s : TRUE]
             G == [x \in S |-> [v \in Nat |-> g[x] + v]]
  <1>1. \A s \in (SUBSET S) \ {{}} : pick[s] \in s
    OBVIOUS
  <1>2. G \in [S -> [Nat -> Nat]] /\ 0 \in Nat
    OBVIOUS
  <1>3. PICK f : IsFold(f, S, Nat, 0, pick, G)
    <2> HIDE DEF pick, G
    <2> QED BY <1>1, <1>2, FoldExists
  <1>4. ASSUME NEW s \in SUBSET S
        PROVE  f[s] = IF s = {} THEN 0
                      ELSE g[CHOOSE x \in s : TRUE] + f[s \ {CHOOSE x \in s : TRUE}]
    <2>1. f[s] = IF s = {} THEN 0 ELSE G[pick[s]][f[s \ {pick[s]}]]
      BY <1>3 DEF IsFold
    <2>2. s # {} => f[s \ {pick[s]}] \in Nat /\ pick[s] \in S
      BY <1>1, <1>3 DEF IsFold
    <2> QED BY <2>1, <2>2
  <1> HIDE DEF pick, G
  <1>5. f = [s \in SUBSET S |-> f[s]]
    BY <1>3 DEF IsFold
  <1>6. AddsUp(f, g, S)
    BY <1>4, <1>5 DEF AddsUp
  <1> QED BY <1>6

LEMMA OrderDoesNotMatter ==
  ASSUME NEW S, IsFiniteSet(S), NEW g, \A x \in S : g[x] \in Nat, NEW f, AddsUp(f, g, S)
  PROVE  IsSum(f, g, S)
  <1> DEFINE T == {s \in SUBSET S : f[s] \in Nat /\ \A x \in s : f[s] = g[x] + f[s \ {x}]}
  <1>1. f[{}] = 0 /\ {} \in T
    BY DEF AddsUp
  <1>2. ASSUME NEW s \in SUBSET S, s # {},
               \A u \in SUBSET s : u # s => u \in T
        PROVE  s \in T
    <2>1. f[s] = g[CHOOSE x \in s : TRUE] + f[s \ {CHOOSE x \in s : TRUE}]
      BY <1>2 DEF AddsUp
    <2>2. PICK x \in s : f[s] = g[x] + f[s \ {x}]
      BY <1>2, <2>1
    <2>3. s \ {x} \in T
      BY <1>2, <2>1
    <2>4. f[s] \in Nat
      BY <2>1, <2>2, <2>3
    <2>5. ASSUME NEW y \in s, y # x PROVE f[s] = g[y] + f[s \ {y}]
      <3>1. s \ {y} \in T /\ x \in s \ {y} /\ y \in s \ {x}
        BY <1>2, <2>1, <2>5
      <3>2. f[s \ {x}] = g[y] + f[(s \ {x}) \ {y}]
        BY <2>3, <3>1
      <3>3. f[s \ {y}] = g[x] + f[(s \ {y}) \ {x}]
        BY <3>1
      <3>4. (s \ {x}) \ {y} = (s \ {y}) \ {x}
        OBVIOUS
      <3>5. (s \ {x}) \ {y} \in T
        BY <1>2, <2>1
      <3>6. g[x] \in Nat /\ g[y] \in Nat /\ f[(s \ {x}) \ {y}] \in Nat
        BY <2>1, <3>5
      <3>7. \A a, b, c, d, e, h : a \in Nat /\ b \in Nat /\ c \in Nat /\ h = a + d /\ d = b + c
                                   /\ e = a + c => h = b + e
        OBVIOUS
      <3> QED BY <2>2, <3>2, <3>3, <3>4, <3>6, <3>7, SMTT(20)
    <2> QED BY <2>2, <2>4, <2>5
  <1>3. SUBSET S \subseteq T
    <2> HIDE DEF T
    <2> QED BY <1>1, <1>2, SubsetsBelow
  <1>4. f \in [SUBSET S -> Nat]
    BY <1>3 DEF AddsUp
  <1> QED BY <1>1, <1>3, <1>4 DEF IsSum

LEMMA SumIsSum ==
  ASSUME NEW S, IsFiniteSet(S), NEW g, \A x \in S : g[x] \in Nat
  PROVE  /\ \E f : IsSum(f, g, S) /\ f[S] = SumOf(g, S)
         /\ SumOf(g, S) \in Nat
  <1>1. AddsUp(CHOOSE f : AddsUp(f, g, S), g, S)
    BY SumExists
  <1>2. PICK f : IsSum(f, g, S) /\ f[S] = SumOf(g, S)
    BY <1>1, OrderDoesNotMatter DEF SumOf
  <1> QED BY <1>2 DEF IsSum

\* A sum is one function of its terms.
LEMMA SumsAgree ==
  ASSUME NEW S, NEW U, IsFiniteSet(S), U \subseteq S, NEW g, NEW h,
         \A x \in U : g[x] = h[x],
         NEW e, IsSum(e, g, S), NEW f, IsSum(f, h, U)
  PROVE  e[U] = f[U]
  <1> DEFINE T == {s \in SUBSET U : e[s] = f[s]}
  <1>1. {} \in T
    BY DEF IsSum
  <1>2. ASSUME NEW s \in SUBSET U, s # {}, \A x \in s : s \ {x} \in T
        PROVE  s \in T
    <2>1. PICK x \in s : TRUE
      BY <1>2
    <2>2. e[s \ {x}] = f[s \ {x}] /\ g[x] = h[x] /\ s \in SUBSET S
      BY <1>2
    <2>3. e[s] = g[x] + e[s \ {x}] /\ f[s] = h[x] + f[s \ {x}]
      BY <2>2 DEF IsSum
    <2> QED BY <2>2, <2>3
  <1>3. IsFiniteSet(U)
    BY FS_Subset
  <1>4. SUBSET U \subseteq T
    <2> HIDE DEF T
    <2> QED BY <1>1, <1>2, <1>3, SubsetInduction
  <1> QED BY <1>4

LEMMA SumUnique ==
  ASSUME NEW S, IsFiniteSet(S), NEW g, \A x \in S : g[x] \in Nat,
         NEW f, AddsUp(f, g, S)
  PROVE  f[S] = SumOf(g, S)
  <1>1. IsSum(f, g, S)
    BY OrderDoesNotMatter
  <1>2. PICK e : IsSum(e, g, S) /\ e[S] = SumOf(g, S)
    BY SumIsSum
  <1> QED BY <1>1, <1>2, SumsAgree

LEMMA SumSplits ==
  ASSUME NEW S, IsFiniteSet(S), NEW g, \A x \in S : g[x] \in Nat, NEW x \in S
  PROVE  SumOf(g, S) = g[x] + SumOf(g, S \ {x})
  <1>1. PICK e : IsSum(e, g, S) /\ e[S] = SumOf(g, S)
    BY SumIsSum
  <1>2. IsFiniteSet(S \ {x}) /\ S \ {x} \subseteq S /\ \A y \in S \ {x} : g[y] \in Nat
    BY FS_Subset
  <1>3. PICK f : IsSum(f, g, S \ {x}) /\ f[S \ {x}] = SumOf(g, S \ {x})
    BY <1>2, SumIsSum
  <1>4. e[S \ {x}] = f[S \ {x}]
    BY <1>1, <1>2, <1>3, SumsAgree
  <1>5. e[S] = g[x] + e[S \ {x}]
    BY <1>1 DEF IsSum
  <1> QED BY <1>1, <1>3, <1>4, <1>5

LEMMA SumSame ==
  ASSUME NEW S, IsFiniteSet(S), NEW g, \A x \in S : g[x] \in Nat,
         NEW h, \A x \in S : g[x] = h[x]
  PROVE  SumOf(g, S) = SumOf(h, S)
  <1>1. \A x \in S : h[x] \in Nat
    OBVIOUS
  <1>2. PICK e : IsSum(e, g, S) /\ e[S] = SumOf(g, S)
    BY SumIsSum
  <1>3. PICK f : IsSum(f, h, S) /\ f[S] = SumOf(h, S)
    BY <1>1, SumIsSum
  <1> QED BY <1>2, <1>3, SumsAgree

LEMMA SumAdds ==
  ASSUME NEW S, IsFiniteSet(S), NEW g, NEW d, NEW h,
         \A x \in S : g[x] \in Nat /\ d[x] \in Nat /\ h[x] = g[x] + d[x]
  PROVE  SumOf(h, S) = SumOf(g, S) + SumOf(d, S)
  <1>1. PICK a : IsSum(a, g, S) /\ a[S] = SumOf(g, S)
    BY SumIsSum
  <1>2. PICK b : IsSum(b, d, S) /\ b[S] = SumOf(d, S)
    BY SumIsSum
  <1>3. PICK c : IsSum(c, h, S) /\ c[S] = SumOf(h, S)
    <2>1. \A x \in S : h[x] \in Nat
      OBVIOUS
    <2> QED BY <2>1, SumIsSum
  <1> DEFINE T == {s \in SUBSET S : c[s] = a[s] + b[s]}
  <1>4. {} \in T
    BY <1>1, <1>2, <1>3 DEF IsSum
  <1>5. ASSUME NEW s \in SUBSET S, s # {}, \A x \in s : s \ {x} \in T
        PROVE  s \in T
    <2>1. PICK x \in s : TRUE
      BY <1>5
    <2>2. c[s \ {x}] = a[s \ {x}] + b[s \ {x}] /\ s \ {x} \in SUBSET S
      BY <1>5
    <2>3. a[s] = g[x] + a[s \ {x}] /\ b[s] = d[x] + b[s \ {x}] /\ c[s] = h[x] + c[s \ {x}]
      BY <1>1, <1>2, <1>3 DEF IsSum
    <2>4. a[s \ {x}] \in Nat /\ b[s \ {x}] \in Nat
      BY <1>1, <1>2, <2>2 DEF IsSum
    <2>5. g[x] \in Nat /\ d[x] \in Nat /\ h[x] = g[x] + d[x]
      OBVIOUS
    <2> QED BY <2>2, <2>3, <2>4, <2>5
  <1>6. SUBSET S \subseteq T
    <2> HIDE DEF T
    <2> QED BY <1>4, <1>5, SubsetInduction
  <1> QED BY <1>1, <1>2, <1>3, <1>6

LEMMA SumOfZeros ==
  ASSUME NEW S, IsFiniteSet(S), NEW g, \A x \in S : g[x] = 0
  PROVE  SumOf(g, S) = 0
  <1>1. SumOf(g, S) \in Nat
    BY SumIsSum
  <1>2. SumOf(g, S) = SumOf(g, S) + SumOf(g, S)
    BY SumAdds
  <1>3. \A n \in Nat : n = n + n => n = 0
    OBVIOUS
  <1> QED BY <1>1, <1>2, <1>3

LEMMA SumGrows ==
  ASSUME NEW S, IsFiniteSet(S), NEW g, NEW h,
         \A x \in S : g[x] \in Nat /\ h[x] \in Nat /\ g[x] <= h[x]
  PROVE  SumOf(g, S) <= SumOf(h, S)
  <1> DEFINE d == [x \in S |-> h[x] - g[x]]
  <1>1. \A x \in S : d[x] \in Nat /\ h[x] = g[x] + d[x]
    OBVIOUS
  <1> HIDE DEF d
  <1>2. SumOf(h, S) = SumOf(g, S) + SumOf(d, S)
    BY <1>1, SumAdds
  <1>3. SumOf(g, S) \in Nat /\ SumOf(d, S) \in Nat
    BY <1>1, SumIsSum
  <1> QED BY <1>2, <1>3

\* One term changes.
LEMMA SumUpdate ==
  ASSUME NEW S, IsFiniteSet(S), NEW g, NEW h, NEW x \in S,
         \A y \in S : g[y] \in Nat /\ h[y] \in Nat,
         \A y \in S \ {x} : g[y] = h[y]
  PROVE  SumOf(h, S) + g[x] = SumOf(g, S) + h[x]
  <1>1. IsFiniteSet(S \ {x})
    BY FS_Subset
  <1>2. /\ SumOf(g, S) = g[x] + SumOf(g, S \ {x})
        /\ SumOf(h, S) = h[x] + SumOf(h, S \ {x})
    BY SumSplits
  <1>3. SumOf(g, S \ {x}) = SumOf(h, S \ {x}) /\ SumOf(g, S \ {x}) \in Nat
    BY <1>1, SumSame, SumIsSum
  <1>4. g[x] \in Nat /\ h[x] \in Nat
    OBVIOUS
  <1> QED BY <1>2, <1>3, <1>4

\* Counting the places of every value of a sequence counts its places.
Places(q, n, m) == {k \in 1 .. n : q[k] = m}

LEMMA PlacesAreFinite ==
  ASSUME NEW n \in Nat, NEW q, NEW m
  PROVE  IsFiniteSet(Places(q, n, m)) /\ Cardinality(Places(q, n, m)) \in Nat
  <1>1. IsFiniteSet(1 .. n) /\ Places(q, n, m) \subseteq 1 .. n
    BY FS_Interval DEF Places
  <1> QED BY <1>1, FS_Subset, FS_CardinalityType

LEMMA PlacesAddUp ==
  ASSUME NEW S, IsFiniteSet(S), NEW n \in Nat, NEW q, \A k \in 1 .. n : q[k] \in S
  PROVE  SumOf([m \in S |-> Cardinality(Places(q, n, m))], S) = n
  <1> DEFINE C(k) == [m \in S |-> Cardinality(Places(q, k, m))]
             T == {k \in Nat : k <= n => SumOf(C(k), S) = k}
  <1>1. 0 \in T
    <2>1. \A m \in S : Places(q, 0, m) = {}
      BY DEF Places
    <2>2. \A m \in S : C(0)[m] = 0
      BY <2>1, FS_EmptySet
    <2> HIDE DEF C
    <2>3. SumOf(C(0), S) = 0
      BY <2>2, SumOfZeros
    <2> QED BY <2>3
  <1>2. ASSUME NEW k \in Nat, k \in T PROVE k + 1 \in T
    <2> SUFFICES ASSUME k + 1 <= n PROVE SumOf(C(k + 1), S) = k + 1
      OBVIOUS
    <2>1. q[k + 1] \in S /\ SumOf(C(k), S) = k
      BY <1>2
    <2>2. \A m \in S : C(k)[m] \in Nat /\ C(k + 1)[m] \in Nat
      BY PlacesAreFinite
    <2>3. \A m \in S \ {q[k + 1]} : C(k)[m] = C(k + 1)[m]
      <3>1. \A m \in S \ {q[k + 1]} : Places(q, k, m) = Places(q, k + 1, m)
        BY DEF Places
      <3> QED BY <3>1
    <2>4. C(k + 1)[q[k + 1]] = C(k)[q[k + 1]] + 1
      <3>1. /\ Places(q, k + 1, q[k + 1]) = Places(q, k, q[k + 1]) \union {k + 1}
            /\ k + 1 \notin Places(q, k, q[k + 1])
        BY DEF Places
      <3>2. Cardinality(Places(q, k + 1, q[k + 1])) = Cardinality(Places(q, k, q[k + 1])) + 1
        BY <3>1, PlacesAreFinite, FS_AddElement
      <3> QED BY <2>1, <3>2
    <2> HIDE DEF C
    <2>5. SumOf(C(k + 1), S) + C(k)[q[k + 1]] = SumOf(C(k), S) + C(k + 1)[q[k + 1]]
      BY <2>1, <2>2, <2>3, SumUpdate
    <2>6. SumOf(C(k + 1), S) \in Nat /\ C(k)[q[k + 1]] \in Nat
      BY <2>1, <2>2, SumIsSum
    <2> QED BY <2>1, <2>4, <2>5, <2>6
  <1>3. Nat \subseteq T
    <2> HIDE DEF T
    <2> QED BY <1>1, <1>2, Counting
  <1> QED BY <1>3

-----------------------------------------------------------------------------
(***************************************************************************)
(* Sequences without repetition, and increasing ones.                      *)
(***************************************************************************)
LEMMA DistinctCount ==
  ASSUME NEW n \in Nat, NEW q, \A j, k \in 1 .. n : j # k => q[j] # q[k]
  PROVE  IsFiniteSet({q[j] : j \in 1 .. n}) /\ Cardinality({q[j] : j \in 1 .. n}) = n
  <1> DEFINE I(k) == {q[j] : j \in 1 .. k}
             T == {k \in Nat : k <= n => IsFiniteSet(I(k)) /\ Cardinality(I(k)) = k}
  <1>1. 0 \in T
    <2>1. I(0) = {}
      OBVIOUS
    <2> QED BY <2>1, FS_EmptySet
  <1>2. ASSUME NEW k \in Nat, k \in T PROVE k + 1 \in T
    <2> SUFFICES ASSUME k + 1 <= n PROVE IsFiniteSet(I(k + 1)) /\ Cardinality(I(k + 1)) = k + 1
      OBVIOUS
    <2>1. I(k + 1) = I(k) \union {q[k + 1]}
      OBVIOUS
    <2>2. q[k + 1] \notin I(k)
      OBVIOUS
    <2>3. IsFiniteSet(I(k)) /\ Cardinality(I(k)) = k
      BY <1>2
    <2> HIDE DEF I
    <2>4. /\ IsFiniteSet(I(k) \union {q[k + 1]})
          /\ Cardinality(I(k) \union {q[k + 1]}) = Cardinality(I(k)) + 1
      BY <2>2, <2>3, FS_AddElement
    <2> QED BY <2>1, <2>3, <2>4
  <1>3. Nat \subseteq T
    <2> HIDE DEF T
    <2> QED BY <1>1, <1>2, Counting
  <1> QED BY <1>3

LEMMA AppendFacts ==
  ASSUME NEW S, NEW s \in Seq(S), NEW e \in S
  PROVE  /\ Append(s, e) \in Seq(S) /\ Len(Append(s, e)) = Len(s) + 1 /\ Len(s) \in Nat
         /\ DOMAIN Append(s, e) = DOMAIN s \union {Len(s) + 1}
         /\ DOMAIN s = 1 .. Len(s)
         /\ \A j \in DOMAIN s : Append(s, e)[j] = s[j]
         /\ Append(s, e)[Len(s) + 1] = e
  OBVIOUS

LEMMA SeqWithin ==
  ASSUME NEW S, NEW s \in Seq(S), NEW U, \A j \in 1 .. Len(s) : s[j] \in U
  PROVE  s \in Seq(U)
  OBVIOUS

Increasing(s) == \A j, k \in DOMAIN s : j < k => s[j] < s[k]

LEMMA IncreasingSpreads ==
  ASSUME NEW s \in Seq(Nat), Increasing(s), NEW j \in DOMAIN s
  PROVE  \A k \in DOMAIN s : j <= k => s[j] + (k - j) <= s[k]
  <1> DEFINE T == {d \in Nat : j + d \in DOMAIN s => s[j] + d <= s[j + d]}
  <1>1. 0 \in T
    OBVIOUS
  <1>2. ASSUME NEW d \in Nat, d \in T PROVE d + 1 \in T
    <2> SUFFICES ASSUME j + (d + 1) \in DOMAIN s PROVE s[j] + (d + 1) <= s[j + (d + 1)]
      OBVIOUS
    <2>1. j + d \in DOMAIN s /\ s[j] + d <= s[j + d]
      BY <1>2
    <2>2. s[j + d] < s[j + (d + 1)]
      BY <2>1 DEF Increasing
    <2>3. s[j] \in Nat /\ s[j + d] \in Nat /\ s[j + (d + 1)] \in Nat
      BY <2>1
    <2> QED BY <2>1, <2>2, <2>3
  <1>3. Nat \subseteq T
    <2> HIDE DEF T
    <2> QED BY <1>1, <1>2, Counting
  <1>4. ASSUME NEW k \in DOMAIN s, j <= k PROVE s[j] + (k - j) <= s[k]
    <2>1. k - j \in Nat /\ j + (k - j) = k
      BY <1>4
    <2>2. k - j \in T
      BY <1>3, <2>1
    <2> QED BY <2>1, <2>2
  <1> QED BY <1>4

\* The place of a member of an increasing sequence is the number of those up to it.
LEMMA PlaceIsRank ==
  ASSUME NEW s \in Seq(Nat), Increasing(s), NEW p \in DOMAIN s
  PROVE  Cardinality({i \in {s[j] : j \in DOMAIN s} : i <= s[p]}) = p
  <1>1. p \in Nat /\ 1 .. p \subseteq DOMAIN s
    OBVIOUS
  <1>2. ASSUME NEW j \in DOMAIN s PROVE s[j] <= s[p] <=> j <= p
    <2>1. s[j] \in Nat /\ s[p] \in Nat /\ j \in Nat /\ p \in Nat
      OBVIOUS
    <2>2. (j < p => s[j] < s[p]) /\ (p < j => s[p] < s[j])
      BY DEF Increasing
    <2> QED BY <2>1, <2>2
  <1>3. {i \in {s[j] : j \in DOMAIN s} : i <= s[p]} = {s[j] : j \in 1 .. p}
    BY <1>1, <1>2
  <1>4. \A j, k \in 1 .. p : j # k => s[j] # s[k]
    <2> SUFFICES ASSUME NEW j \in 1 .. p, NEW k \in 1 .. p, j # k PROVE s[j] # s[k]
      OBVIOUS
    <2>1. s[j] \in Nat /\ s[k] \in Nat /\ (j < k \/ k < j)
      BY <1>1
    <2>2. s[j] < s[k] \/ s[k] < s[j]
      BY <1>1, <2>1 DEF Increasing
    <2> QED BY <2>1, <2>2
  <1> QED BY <1>1, <1>3, <1>4, DistinctCount

\* What a filter that runs over an increasing sequence keeps.
Kept(h, q, k, W) ==
  /\ h \in Seq(Nat) /\ Len(h) <= k /\ Increasing(h)
  /\ \A j \in DOMAIN h : \E i \in 1 .. k : h[j] = q[i] /\ q[i] \in W
  /\ \A i \in 1 .. k : q[i] \in W => \E j \in DOMAIN h : h[j] = q[i]

LEMMA FilterKeeps ==
  ASSUME NEW n \in Nat, NEW q, \A k \in 1 .. n : q[k] \in Nat,
         \A j, k \in 1 .. n : j < k => q[j] < q[k],
         NEW W, NEW h, h[0] = <<>>,
         \A k \in 1 .. n : h[k] = IF q[k] \in W THEN Append(h[k - 1], q[k]) ELSE h[k - 1]
  PROVE  Kept(h[n], q, n, W)
  <1> DEFINE T == {k \in Nat : k <= n => Kept(h[k], q, k, W)}
  <1>1. 0 \in T
    <2>1. Len(h[0]) = 0 /\ DOMAIN h[0] = {} /\ h[0] \in Seq(Nat)
      OBVIOUS
    <2>2. Kept(h[0], q, 0, W)
      BY <2>1 DEF Kept, Increasing
    <2> QED BY <2>2
  <1>2. ASSUME NEW k \in Nat, k \in T PROVE k + 1 \in T
    <2> SUFFICES ASSUME k + 1 <= n PROVE Kept(h[k + 1], q, k + 1, W)
      OBVIOUS
    <2>1. Kept(h[k], q, k, W) /\ q[k + 1] \in Nat /\ k + 1 \in 1 .. n
      BY <1>2
    <2>2. /\ (k + 1) - 1 = k
          /\ h[k + 1] = IF q[k + 1] \in W THEN Append(h[(k + 1) - 1], q[k + 1])
                        ELSE h[(k + 1) - 1]
      BY <2>1
    <2>3. CASE q[k + 1] \in W
      <3>1. h[k + 1] = Append(h[k], q[k + 1])
        BY <2>2, <2>3
      <3>2. ASSUME NEW j \in DOMAIN h[k] PROVE h[k][j] < q[k + 1]
        <4>1. PICK i \in 1 .. k : h[k][j] = q[i]
          BY <2>1, <3>2 DEF Kept
        <4> QED BY <2>1, <4>1
      <3>3. h[k] \in Seq(Nat) /\ Len(h[k]) <= k /\ Increasing(h[k])
        BY <2>1 DEF Kept
      <3>4. /\ h[k + 1] \in Seq(Nat) /\ Len(h[k + 1]) = Len(h[k]) + 1 /\ Len(h[k]) \in Nat
            /\ DOMAIN h[k + 1] = DOMAIN h[k] \union {Len(h[k]) + 1}
            /\ DOMAIN h[k] = 1 .. Len(h[k])
            /\ \A j \in DOMAIN h[k] : h[k + 1][j] = h[k][j]
            /\ h[k + 1][Len(h[k]) + 1] = q[k + 1]
        BY <2>1, <3>1, <3>3, AppendFacts, SMTT(20)
      <3>7. Increasing(h[k + 1])
        <4> SUFFICES ASSUME NEW i \in DOMAIN h[k + 1], NEW j \in DOMAIN h[k + 1], i < j
                     PROVE  h[k + 1][i] < h[k + 1][j]
          BY DEF Increasing
        <4>1. i \in DOMAIN h[k]
          BY <3>4
        <4>2. CASE j \in DOMAIN h[k]
          <5>1. h[k][i] < h[k][j]
            BY <3>3, <4>1, <4>2 DEF Increasing
          <5> QED BY <3>4, <4>1, <4>2, <5>1
        <4>3. CASE j = Len(h[k]) + 1
          <5>1. h[k][i] < q[k + 1]
            BY <3>2, <4>1
          <5> QED BY <3>4, <4>1, <4>3, <5>1
        <4> QED BY <3>4, <4>2, <4>3
      <3>5. ASSUME NEW j \in DOMAIN h[k + 1]
            PROVE  \E i \in 1 .. (k + 1) : h[k + 1][j] = q[i] /\ q[i] \in W
        <4>1. CASE j \in DOMAIN h[k]
          <5>1. PICK i \in 1 .. k : h[k][j] = q[i] /\ q[i] \in W
            BY <2>1, <4>1 DEF Kept
          <5>2. i \in 1 .. (k + 1)
            OBVIOUS
          <5> QED BY <3>4, <4>1, <5>1, <5>2
        <4>2. CASE j = Len(h[k]) + 1
          <5>1. k + 1 \in 1 .. (k + 1)
            OBVIOUS
          <5> QED BY <2>3, <3>4, <4>2, <5>1
        <4> QED BY <3>4, <4>1, <4>2
      <3>6. ASSUME NEW i \in 1 .. (k + 1), q[i] \in W
            PROVE  \E j \in DOMAIN h[k + 1] : h[k + 1][j] = q[i]
        <4>1. CASE i = k + 1
          BY <3>4, <4>1
        <4>2. CASE i # k + 1
          <5>1. PICK j \in DOMAIN h[k] : h[k][j] = q[i]
            BY <2>1, <3>6, <4>2 DEF Kept
          <5> QED BY <3>4, <5>1
        <4> QED BY <4>1, <4>2
      <3> QED BY <3>3, <3>4, <3>5, <3>6, <3>7 DEF Kept
    <2>4. CASE q[k + 1] \notin W
      <3>1. h[k + 1] = h[k]
        BY <2>2, <2>4
      <3>2. \A i \in 1 .. (k + 1) : q[i] \in W => i \in 1 .. k
        BY <2>4
      <3> QED BY <2>1, <2>2, <3>1, <3>2 DEF Kept
    <2> QED BY <2>3, <2>4
  <1>3. Nat \subseteq T
    <2> HIDE DEF T
    <2> QED BY <1>1, <1>2, Counting
  <1> QED BY <1>3

\* The same filter written as a fold from the left.
Filters(f, q, Out) ==
  f = [s \in SUBSET (1 .. Len(q)) |->
         IF s = {} THEN <<>>
         ELSE IF q[MaxOf(s)] \in Out THEN f[s \ {MaxOf(s)}]
         ELSE Append(f[s \ {MaxOf(s)}], q[MaxOf(s)])]

LEMMA FilterExists ==
  ASSUME NEW q \in Seq(Nat), NEW Out
  PROVE  \E f : Filters(f, q, Out)
  <1> DEFINE n == Len(q)
             G == [i \in 1 .. n |-> [v \in Seq(Nat) |-> IF q[i] \in Out THEN v ELSE Append(v, q[i])]]
  <1>1. n \in Nat /\ <<>> \in Seq(Nat) /\ G \in [1 .. n -> [Seq(Nat) -> Seq(Nat)]]
    OBVIOUS
  <1>2. PICK f : IsLeftFold(f, 1 .. n, Seq(Nat), <<>>, G)
    <2> HIDE DEF n, G
    <2> QED BY <1>1, LeftFoldExists
  <1>3. ASSUME NEW s \in SUBSET (1 .. n), s # {}
        PROVE  f[s] = IF q[MaxOf(s)] \in Out THEN f[s \ {MaxOf(s)}]
                      ELSE Append(f[s \ {MaxOf(s)}], q[MaxOf(s)])
    <2>1. MaxOf(s) \in 1 .. n
      BY <1>1, <1>3, MaxExists
    <2>2. f[s] = G[MaxOf(s)][f[s \ {MaxOf(s)}]] /\ f[s \ {MaxOf(s)}] \in Seq(Nat)
      BY <1>2, <1>3 DEF IsLeftFold
    <2> QED BY <2>1, <2>2
  <1>4. f[{}] = <<>> /\ f = [s \in SUBSET (1 .. n) |-> f[s]]
    BY <1>2 DEF IsLeftFold
  <1>5. Filters(f, q, Out)
    BY <1>3, <1>4 DEF Filters
  <1> QED BY <1>5

LEMMA FiltersKeep ==
  ASSUME NEW q \in Seq(Nat), Increasing(q), NEW Out, NEW f, Filters(f, q, Out)
  PROVE  Kept(f[1 .. Len(q)], q, Len(q), Nat \ Out)
  <1> DEFINE n == Len(q)
             h == [k \in 0 .. n |-> f[1 .. k]]
             W == Nat \ Out
  <1>1. n \in Nat /\ \A k \in 1 .. n : q[k] \in Nat
    OBVIOUS
  <1>2. \A j, k \in 1 .. n : j < k => q[j] < q[k]
    BY DEF Increasing
  <1>3. h[0] = <<>>
    <2>1. 1 .. 0 = {} /\ {} \in SUBSET (1 .. n)
      OBVIOUS
    <2>2. f[{}] = <<>>
      BY <2>1 DEF Filters
    <2> QED BY <1>1, <2>1, <2>2
  <1>4. ASSUME NEW k \in 1 .. n
        PROVE  h[k] = IF q[k] \in W THEN Append(h[k - 1], q[k]) ELSE h[k - 1]
    <2>1. /\ 1 .. k \in SUBSET (1 .. n) /\ 1 .. k # {}
          /\ MaxOf(1 .. k) = k /\ (1 .. k) \ {k} = 1 .. (k - 1)
      BY <1>1, Prefixes
    <2>2. f[1 .. k] = IF q[MaxOf(1 .. k)] \in Out THEN f[(1 .. k) \ {MaxOf(1 .. k)}]
                      ELSE Append(f[(1 .. k) \ {MaxOf(1 .. k)}], q[MaxOf(1 .. k)])
      BY <2>1 DEF Filters
    <2>3. h[k] = f[1 .. k] /\ h[k - 1] = f[1 .. (k - 1)] /\ q[k] \in Nat
      OBVIOUS
    <2> QED BY <2>1, <2>2, <2>3
  <1>5. h[n] = f[1 .. n]
    BY <1>1
  <1> HIDE DEF n, h, W
  <1>6. Kept(h[n], q, n, W)
    BY <1>1, <1>2, <1>3, <1>4, FilterKeeps
  <1> QED BY <1>5, <1>6 DEF n, W

\* A sequence without one of its members.
LEMMA RemovedFacts ==
  ASSUME NEW S, NEW s \in Seq(S), NEW k \in 1 .. Len(s)
  PROVE  LET r == SubSeq(s, 1, k - 1) \o SubSeq(s, k + 1, Len(s)) IN
         /\ r \in Seq(S) /\ Len(r) = Len(s) - 1 /\ Len(s) \in Nat
         /\ \A j \in 1 .. (Len(s) - 1) : r[j] = IF j < k THEN s[j] ELSE s[j + 1]
  <1> DEFINE a == SubSeq(s, 1, k - 1)
             b == SubSeq(s, k + 1, Len(s))
  <1>1. /\ a \in Seq(S) /\ Len(a) = k - 1 /\ \A j \in 1 .. (k - 1) : a[j] = s[j]
        /\ b \in Seq(S) /\ Len(b) = Len(s) - k
        /\ \A j \in 1 .. (Len(s) - k) : b[j] = s[k + j]
    OBVIOUS
  <1> HIDE DEF a, b
  <1>2. a \o b \in Seq(S) /\ Len(a \o b) = Len(s) - 1 /\ Len(s) \in Nat
    <2>1. a \o b \in Seq(S) /\ Len(a \o b) = Len(a) + Len(b)
      <3>1. a \in Seq(S) /\ b \in Seq(S)
        BY <1>1
      <3>2. \A x, y \in Seq(S) : x \o y \in Seq(S) /\ Len(x \o y) = Len(x) + Len(y)
        OBVIOUS
      <3> QED BY <3>1, <3>2
    <2>2. Len(s) \in Nat /\ k \in Nat
      OBVIOUS
    <2> QED BY <1>1, <2>1, <2>2
  <1>3. ASSUME NEW j \in 1 .. (Len(s) - 1)
        PROVE  (a \o b)[j] = IF j < k THEN s[j] ELSE s[j + 1]
    <2>1. CASE j < k
      BY <1>1, <2>1
    <2>2. CASE ~(j < k)
      <3>1. (a \o b)[j] = b[j - (k - 1)] /\ j - (k - 1) \in 1 .. (Len(s) - k)
        BY <1>1, <2>2, SMTT(20)
      <3>2. b[j - (k - 1)] = s[k + (j - (k - 1))] /\ k + (j - (k - 1)) = j + 1
        BY <1>1, <3>1
      <3> QED BY <2>2, <3>1, <3>2
    <2> QED BY <2>1, <2>2
  <1>4. a \o b = SubSeq(s, 1, k - 1) \o SubSeq(s, k + 1, Len(s))
    BY DEF a, b
  <1> QED BY <1>2, <1>3, <1>4

LEMMA TailFacts ==
  ASSUME NEW S, NEW s \in Seq(S), s # <<>>
  PROVE  /\ Tail(s) \in Seq(S) /\ Len(Tail(s)) = Len(s) - 1 /\ Len(s) \in Nat /\ Len(s) > 0
         /\ \A j \in 1 .. (Len(s) - 1) : Tail(s)[j] = s[j + 1]
  OBVIOUS

==============================================================================
