-------------------------------- MODULE Sums --------------------------------
(***************************************************************************)
(* Sums over finite sets, folds over sequences and running totals.         *)
(* Induction over a set is the choice of a smallest counterexample, for    *)
(* which the library has a theorem that takes no operator: a relation that *)
(* is well-founded has minimal elements.                                   *)
(***************************************************************************)
EXTENDS Integers, FiniteSetsExt, FiniteSetTheorems, TLAPS

(* Numbers have a least one, and subsets a smallest one.                   *)
LEMMA LeastNumber ==
  ASSUME NEW N \in SUBSET Nat, N # {}
  PROVE  \E m \in N : \A k \in N : m <= k
<1>1. PICK m \in N : \A k \in N : <<k, m>> \notin OpToRel(<, Nat)
  BY NatLessThanWellFounded, WFMin
<1>2. \A k \in N : ~(k < m)
  BY <1>1 DEF OpToRel
<1>. QED
  BY <1>2

LEMMA SmallestSet ==
  ASSUME NEW S, IsFiniteSet(S), NEW B \in SUBSET (SUBSET S), B # {}
  PROVE  \E s \in B : \A t \in SUBSET s : t \in B => t = s
<1>. DEFINE sizes == {Cardinality(s) : s \in B}
<1>1. \A s \in B : IsFiniteSet(s) /\ Cardinality(s) \in Nat
  BY FS_Subset, FS_CardinalityType
<1>2. sizes \in SUBSET Nat /\ sizes # {}
  BY <1>1
<1>. HIDE DEF sizes
<1>3. PICK m \in sizes : \A k \in sizes : m <= k
  BY <1>2, LeastNumber
<1>4. PICK s \in B : Cardinality(s) = m
  BY <1>3 DEF sizes
<1>5. ASSUME NEW t \in SUBSET s, t \in B PROVE t = s
  <2>1. Cardinality(t) <= Cardinality(s) /\ (Cardinality(s) = Cardinality(t) => s = t)
    BY <1>1, FS_Subset
  <2>2. Cardinality(s) <= Cardinality(t)
    BY <1>3, <1>4, <1>5 DEF sizes
  <2>. QED
    BY <2>1, <2>2, <1>1, <1>5
<1>. QED
  BY <1>5

(* And finitely many numbers have a greatest one.                          *)
LEMMA GreatestNumber ==
  ASSUME NEW N, \A k \in N : k \in Int, IsFiniteSet(N), N # {}
  PROVE  Max(N) \in N /\ \A k \in N : k <= Max(N)
<1>. DEFINE B == {s \in SUBSET N : s # {} /\ ~\E m \in s : \A k \in s : k <= m}
<1>1. B = {}
  <2>. SUFFICES ASSUME B # {} PROVE FALSE
    OBVIOUS
  <2>1. PICK s \in B : \A t \in SUBSET s : t \in B => t = s
    <3>1. B \in SUBSET (SUBSET N)
      OBVIOUS
    <3>. HIDE DEF B
    <3>. QED
      BY <3>1, SmallestSet
  <2>2. s # {} /\ s \in SUBSET Int /\ ~\E m \in s : \A k \in s : k <= m
    OBVIOUS
  <2>3. PICK x \in s : TRUE
    BY <2>2
  <2>. DEFINE t == s \ {x}
  <2>4. t \in SUBSET N /\ t # s /\ t \in SUBSET s
    BY <2>3
  <2>5. t = {} \/ \E m \in t : \A k \in t : k <= m
    BY <2>1, <2>4
  <2>6. CASE t = {}
    <3>1. x \in Int /\ \A k \in s : k = x
      BY <2>2, <2>3, <2>6
    <3>2. \A k \in s : k <= x
      BY <3>1
    <3>. QED
      BY <2>2, <2>3, <3>2
  <2>7. ASSUME NEW m \in t, \A k \in t : k <= m PROVE FALSE
    <3>1. x \in Int /\ m \in Int /\ m \in s
      BY <2>2, <2>3
    <3>2. CASE x <= m
      <4>1. \A k \in s : k <= m
        BY <2>7, <3>2
      <4>. QED
        BY <2>2, <3>1, <4>1
    <3>3. CASE m <= x
      <4>1. \A k \in s : k <= x
        BY <2>2, <2>7, <3>1, <3>3
      <4>. QED
        BY <2>2, <2>3, <4>1
    <3>. QED
      BY <3>1, <3>2, <3>3
  <2>. QED
    BY <2>5, <2>6, <2>7
<1>2. \E m \in N : \A k \in N : k <= m
  BY <1>1
<1>. QED
  BY <1>2 DEF Max
\* The lesser of two numbers, and the greater.
LEMMA OfTwo ==
  ASSUME NEW a \in Int, NEW b \in Int
  PROVE  /\ Min({a, b}) \in {a, b} /\ Min({a, b}) <= a /\ Min({a, b}) <= b
         /\ Max({a, b}) \in {a, b} /\ Max({a, b}) >= a /\ Max({a, b}) >= b
<1>1. \E m \in {a, b} : \A k \in {a, b} : m <= k
  OBVIOUS
<1>2. \E m \in {a, b} : \A k \in {a, b} : k <= m
  OBVIOUS
<1>. QED
  BY <1>1, <1>2 DEF Min, Max
-----------------------------------------------------------------------------
One(s) == CHOOSE x \in s : TRUE

\* f is what SumFunctionOnSet(g, S) works out, for each subset of S.
IsSum(g, S, f) ==
  f = [s \in SUBSET S |-> IF s = {} THEN 0 ELSE g[One(s)] + f[s \ {One(s)}]]

LEMMA SumIsThat ==
  ASSUME NEW g, NEW S
  PROVE  SumFunctionOnSet(g, S) = (CHOOSE f : IsSum(g, S, f))[S]
BY DEF SumFunctionOnSet, FoldFunctionOnSet, MapThenFoldSet, IsSum, One

\* Over r, g and h are the same numbers.
Alike(g, h, r) == \A x \in r : g[x] = h[x]

\* Sums of the same numbers are the same, whatever they are part of.
LEMMA SumsAgree ==
  ASSUME NEW S, NEW T, IsFiniteSet(S), NEW g, NEW h, NEW f, NEW k,
         IsSum(g, S, f), IsSum(h, T, k),
         NEW r \in SUBSET S, r \in SUBSET T, Alike(g, h, r)
  PROVE  f[r] = k[r]
<1>. SUFFICES ASSUME f[r] # k[r] PROVE FALSE
  OBVIOUS
<1>. DEFINE B == {s \in SUBSET r : f[s] # k[s]}
<1>1. IsFiniteSet(r) /\ B \in SUBSET (SUBSET r) /\ B # {}
  BY FS_Subset
<1>2. PICK s \in B : \A t \in SUBSET s : t \in B => t = s
  <2>. HIDE DEF B
  <2>. QED
    BY <1>1, SmallestSet
<1>3. s \in SUBSET S /\ s \in SUBSET T /\ s \in SUBSET r
  OBVIOUS
<1>4. CASE s = {}
  BY <1>3, <1>4 DEF IsSum
<1>5. CASE s # {}
  <2>1. One(s) \in s
    BY <1>5 DEF One
  <2>2. f[s \ {One(s)}] = k[s \ {One(s)}]
    BY <2>1, <1>2, <1>3
  <2>3. f[s] = g[One(s)] + f[s \ {One(s)}]
    BY <1>3, <1>5 DEF IsSum
  <2>4. k[s] = h[One(s)] + k[s \ {One(s)}]
    BY <1>3, <1>5 DEF IsSum
  <2>. QED
    BY <2>1, <2>2, <2>3, <2>4, <1>3 DEF Alike
<1>. QED
  BY <1>4, <1>5

\* There is a sum.
LEMMA SumExists ==
  ASSUME NEW S, IsFiniteSet(S), NEW g
  PROVE  \E f : IsSum(g, S, f)
<1>. DEFINE B == {s \in SUBSET S : ~\E f : IsSum(g, s, f)}
<1>. SUFFICES ASSUME B # {} PROVE FALSE
  OBVIOUS
<1>1. PICK s \in B : \A t \in SUBSET s : t \in B => t = s
  <2>1. B \in SUBSET (SUBSET S)
    OBVIOUS
  <2>. HIDE DEF B
  <2>. QED
    BY <2>1, SmallestSet
<1>. DEFINE of(t) == CHOOSE f : IsSum(g, t, f)
            k == [t \in SUBSET s |-> IF t # s THEN of(t)[t]
                                     ELSE IF s = {} THEN 0
                                     ELSE g[One(s)] + of(s \ {One(s)})[s \ {One(s)}]]
<1>2. ASSUME NEW t \in SUBSET s, t # s PROVE IsSum(g, t, of(t))
  <2>1. \E f : IsSum(g, t, f)
    BY <1>1, <1>2
  <2>. QED
    BY <2>1
<1>. HIDE DEF of
<1>3. ASSUME NEW t \in SUBSET s
      PROVE  k[t] = IF t = {} THEN 0 ELSE g[One(t)] + k[t \ {One(t)}]
  <2>1. CASE t = {}
    <3>1. CASE s = {}
      BY <2>1, <3>1
    <3>2. CASE s # {}
      BY <2>1, <3>2, <1>2 DEF IsSum
    <3>. QED
      BY <3>1, <3>2
  <2>2. CASE t # {}
    <3>. DEFINE u == t \ {One(t)}
    <3>1. One(t) \in t /\ u \in SUBSET s /\ u \in SUBSET t /\ u # t /\ u # s
      BY <2>2 DEF One
    <3>2. k[u] = of(u)[u]
      BY <3>1
    <3>3. CASE t = s
      BY <2>2, <3>2, <3>3
    <3>4. CASE t # s
      <4>1. k[t] = of(t)[t] /\ IsSum(g, t, of(t)) /\ IsSum(g, u, of(u))
        BY <3>1, <3>4, <1>2
      <4>2. of(t)[t] = g[One(t)] + of(t)[u]
        BY <2>2, <4>1 DEF IsSum
      <4>3. IsFiniteSet(t)
        BY FS_Subset
      <4>. HIDE DEF u, k
      <4>4. of(t)[u] = of(u)[u]
        BY <4>1, <4>3, <3>1, SumsAgree DEF Alike
      <4>. QED
        BY <2>2, <3>2, <4>1, <4>2, <4>4 DEF u
    <3>. QED
      BY <3>3, <3>4
  <2>. QED
    BY <2>1, <2>2
<1>4. IsSum(g, s, k)
  BY <1>3 DEF IsSum
<1>. QED
  BY <1>4

-----------------------------------------------------------------------------
LEMMA SumUnfolds ==
  ASSUME NEW S, IsFiniteSet(S), NEW g
  PROVE  SumFunctionOnSet(g, S) =
           IF S = {} THEN 0 ELSE g[One(S)] + SumFunctionOnSet(g, S \ {One(S)})
<1>. DEFINE T == S \ {One(S)}
            f == CHOOSE f : IsSum(g, S, f)
            k == CHOOSE k : IsSum(g, T, k)
<1>1. IsFiniteSet(T)
  BY FS_Subset
<1>2. IsSum(g, S, f) /\ IsSum(g, T, k)
  BY <1>1, SumExists
<1>3. SumFunctionOnSet(g, S) = f[S] /\ SumFunctionOnSet(g, T) = k[T]
  BY SumIsThat
<1>. HIDE DEF f, k
<1>4. f[S] = IF S = {} THEN 0 ELSE g[One(S)] + f[T]
  BY <1>2 DEF IsSum
<1>5. f[T] = k[T]
  BY <1>1, <1>2, SumsAgree DEF Alike
<1>. QED
  BY <1>3, <1>4, <1>5

\* Whatever is a sum of these numbers is the sum.
LEMMA AnySum ==
  ASSUME NEW S, IsFiniteSet(S), NEW g, NEW f, IsSum(g, S, f)
  PROVE  f[S] = SumFunctionOnSet(g, S)
<1>. DEFINE c == CHOOSE k : IsSum(g, S, k)
<1>1. IsSum(g, S, c)
  BY SumExists
<1>2. SumFunctionOnSet(g, S) = c[S]
  BY SumIsThat
<1>. HIDE DEF c
<1>3. S \in SUBSET S /\ Alike(g, g, S)
  BY DEF Alike
<1>. QED
  BY <1>1, <1>2, <1>3, SumsAgree

LEMMA SumOfNothing ==
  ASSUME NEW g
  PROVE  SumFunctionOnSet(g, {}) = 0
BY SumUnfolds, FS_EmptySet

LEMMA SumOfSame ==
  ASSUME NEW S, IsFiniteSet(S), NEW g, NEW h, Alike(g, h, S)
  PROVE  SumFunctionOnSet(g, S) = SumFunctionOnSet(h, S)
<1>. DEFINE f == CHOOSE f : IsSum(g, S, f)
            k == CHOOSE k : IsSum(h, S, k)
<1>1. IsSum(g, S, f) /\ IsSum(h, S, k)
  BY SumExists
<1>2. SumFunctionOnSet(g, S) = f[S] /\ SumFunctionOnSet(h, S) = k[S]
  BY SumIsThat
<1>. HIDE DEF f, k
<1>3. S \in SUBSET S
  OBVIOUS
<1>4. f[S] = k[S]
  BY <1>1, <1>3, SumsAgree
<1>. QED
  BY <1>2, <1>4

\* A sum of integers is one.
LEMMA SumIsInteger ==
  ASSUME NEW S, IsFiniteSet(S), NEW g, \A x \in S : g[x] \in Int
  PROVE  SumFunctionOnSet(g, S) \in Int
<1>. DEFINE B == {s \in SUBSET S : SumFunctionOnSet(g, s) \notin Int}
<1>. SUFFICES ASSUME B # {} PROVE FALSE
  OBVIOUS
<1>1. PICK s \in B : \A t \in SUBSET s : t \in B => t = s
  <2>1. B \in SUBSET (SUBSET S)
    OBVIOUS
  <2>. HIDE DEF B
  <2>. QED
    BY <2>1, SmallestSet
<1>2. s # {} /\ One(s) \in s /\ IsFiniteSet(s)
  <2>1. SumFunctionOnSet(g, s) \notin Int /\ IsFiniteSet(s)
    BY FS_Subset
  <2>2. s # {}
    BY <2>1, SumOfNothing
  <2>. QED
    BY <2>1, <2>2 DEF One
<1>3. SumFunctionOnSet(g, s \ {One(s)}) \in Int
  BY <1>1, <1>2
<1>4. SumFunctionOnSet(g, s) = g[One(s)] + SumFunctionOnSet(g, s \ {One(s)})
  BY <1>2, SumUnfolds
<1>. QED
  BY <1>2, <1>3, <1>4

\* And one of naturals a natural.
LEMMA SumIsNatural ==
  ASSUME NEW S, IsFiniteSet(S), NEW g, \A x \in S : g[x] \in Nat
  PROVE  SumFunctionOnSet(g, S) \in Nat
<1>. DEFINE B == {s \in SUBSET S : SumFunctionOnSet(g, s) \notin Nat}
<1>. SUFFICES ASSUME B # {} PROVE FALSE
  OBVIOUS
<1>1. PICK s \in B : \A t \in SUBSET s : t \in B => t = s
  <2>1. B \in SUBSET (SUBSET S)
    OBVIOUS
  <2>. HIDE DEF B
  <2>. QED
    BY <2>1, SmallestSet
<1>2. s # {} /\ One(s) \in s /\ IsFiniteSet(s)
  <2>1. SumFunctionOnSet(g, s) \notin Nat /\ IsFiniteSet(s)
    BY FS_Subset
  <2>2. s # {}
    BY <2>1, SumOfNothing
  <2>. QED
    BY <2>1, <2>2 DEF One
<1>3. SumFunctionOnSet(g, s \ {One(s)}) \in Nat
  BY <1>1, <1>2
<1>4. SumFunctionOnSet(g, s) = g[One(s)] + SumFunctionOnSet(g, s \ {One(s)})
  BY <1>2, SumUnfolds
<1>. QED
  BY <1>2, <1>3, <1>4

\* Any number of a sum may be taken out of it, not only the one it began with.
LEMMA SumWithout ==
  ASSUME NEW S, IsFiniteSet(S), NEW g, \A x \in S : g[x] \in Int, NEW a \in S
  PROVE  SumFunctionOnSet(g, S) = g[a] + SumFunctionOnSet(g, S \ {a})
<1>. DEFINE sum(s) == SumFunctionOnSet(g, s)
            B == {s \in SUBSET S : \E x \in s : sum(s) # g[x] + sum(s \ {x})}
<1>. SUFFICES ASSUME B # {} PROVE FALSE
  OBVIOUS
<1>1. PICK s \in B : \A t \in SUBSET s : t \in B => t = s
  <2>1. B \in SUBSET (SUBSET S)
    OBVIOUS
  <2>. HIDE DEF B
  <2>. QED
    BY <2>1, SmallestSet
<1>2. PICK x \in s : sum(s) # g[x] + sum(s \ {x})
  OBVIOUS
<1>. DEFINE o == One(s)
            rest == s \ {o, x}
<1>. HIDE DEF sum
<1>3. o \in s /\ \A t \in SUBSET s : IsFiniteSet(t) /\ sum(t) \in Int
  BY <1>2, FS_Subset, SumIsInteger DEF One, sum
<1>4. sum(s) = g[o] + sum(s \ {o})
  BY <1>2, <1>3, SumUnfolds DEF sum
<1>5. o # x
  BY <1>2, <1>4
<1>6. ASSUME NEW t \in SUBSET s, t # s, NEW y \in t PROVE sum(t) = g[y] + sum(t \ {y})
  BY <1>1, <1>6
<1>7. rest = (s \ {o}) \ {x} /\ rest = (s \ {x}) \ {o}
  OBVIOUS
<1>. HIDE DEF o, rest
<1>8. sum(s \ {o}) = g[x] + sum(rest)
  BY <1>3, <1>5, <1>6, <1>7
<1>9. sum(s \ {x}) = g[o] + sum(rest)
  BY <1>2, <1>3, <1>5, <1>6, <1>7
<1>10. g[o] \in Int /\ g[x] \in Int /\ sum(rest) \in Int
  BY <1>3, <1>7
<1>. QED
  BY <1>2, <1>4, <1>8, <1>9, <1>10

\* Greater numbers have a greater sum.
LEMMA SumsOrdered ==
  ASSUME NEW S, IsFiniteSet(S), NEW g, NEW h,
         \A x \in S : g[x] \in Int /\ h[x] \in Int /\ g[x] <= h[x]
  PROVE  SumFunctionOnSet(g, S) <= SumFunctionOnSet(h, S)
<1>. DEFINE of(s) == SumFunctionOnSet(g, s)
            to(s) == SumFunctionOnSet(h, s)
            B == {s \in SUBSET S : ~(of(s) <= to(s))}
<1>. SUFFICES ASSUME B # {} PROVE FALSE
  OBVIOUS
<1>1. PICK s \in B : \A t \in SUBSET s : t \in B => t = s
  <2>1. B \in SUBSET (SUBSET S)
    OBVIOUS
  <2>. HIDE DEF B
  <2>. QED
    BY <2>1, SmallestSet
<1>. DEFINE o == One(s)
<1>2. IsFiniteSet(s) /\ ~(of(s) <= to(s))
  BY FS_Subset
<1>3. s # {} /\ o \in s
  <2>1. s # {}
    BY <1>2, SumOfNothing
  <2>. QED
    BY <2>1 DEF One
<1>4. of(s) = g[o] + of(s \ {o}) /\ to(s) = h[o] + to(s \ {o})
  BY <1>2, <1>3, SumUnfolds
<1>5. of(s \ {o}) <= to(s \ {o})
  BY <1>1, <1>3
<1>6. of(s \ {o}) \in Int /\ to(s \ {o}) \in Int
  <2>1. IsFiniteSet(s \ {o}) /\ \A x \in s \ {o} : g[x] \in Int /\ h[x] \in Int
    BY <1>2, FS_Subset
  <2>. HIDE DEF o
  <2>. QED
    BY <2>1, SumIsInteger
<1>7. g[o] \in Int /\ h[o] \in Int /\ g[o] <= h[o]
  BY <1>3
<1>. HIDE DEF of, to, o
<1>. QED
  BY <1>2, <1>4, <1>5, <1>6, <1>7

\* The numbers of two sums, each multiplied by the same, make up a third.
Mixed(f, g, h, k, l, S) == \A x \in S : f[x] = g[x] * k + h[x] * l

LEMMA Distributed ==
  ASSUME NEW a \in Int, NEW b \in Int, NEW c \in Int, NEW d \in Int, NEW k \in Int, NEW l \in Int
  PROVE  (a * k + b * l) + (c * k + d * l) = (a + c) * k + (b + d) * l
<1>1. (a + c) * k = a * k + c * k /\ a * k \in Int /\ c * k \in Int
  OBVIOUS
<1>2. (b + d) * l = b * l + d * l /\ b * l \in Int /\ d * l \in Int
  OBVIOUS
<1>. QED
  BY <1>1, <1>2

LEMMA SumOfMixed ==
  ASSUME NEW S, IsFiniteSet(S), NEW f, NEW g, NEW h, NEW k \in Int, NEW l \in Int,
         \A x \in S : g[x] \in Int /\ h[x] \in Int, Mixed(f, g, h, k, l, S)
  PROVE  SumFunctionOnSet(f, S) = SumFunctionOnSet(g, S) * k + SumFunctionOnSet(h, S) * l
<1>. DEFINE all(s) == SumFunctionOnSet(f, s)
            of(s) == SumFunctionOnSet(g, s)
            to(s) == SumFunctionOnSet(h, s)
            B == {s \in SUBSET S : all(s) # of(s) * k + to(s) * l}
<1>. SUFFICES ASSUME B # {} PROVE FALSE
  OBVIOUS
<1>1. PICK s \in B : \A t \in SUBSET s : t \in B => t = s
  <2>1. B \in SUBSET (SUBSET S)
    OBVIOUS
  <2>. HIDE DEF B
  <2>. QED
    BY <2>1, SmallestSet
<1>. DEFINE o == One(s)
            r == s \ {o}
<1>2. IsFiniteSet(s) /\ s \in SUBSET S /\ all(s) # of(s) * k + to(s) * l
  BY FS_Subset
<1>3. s # {} /\ o \in s
  <2>1. CASE s = {}
    <3>1. all(s) = 0 /\ of(s) = 0 /\ to(s) = 0
      BY <2>1, SumOfNothing
    <3>2. 0 * k + 0 * l = 0
      OBVIOUS
    <3>. HIDE DEF all, of, to
    <3>. QED
      BY <1>2, <3>1, <3>2
  <2>2. CASE s # {}
    BY <2>2 DEF One
  <2>. QED
    BY <2>1, <2>2
<1>4. all(s) = f[o] + all(r) /\ of(s) = g[o] + of(r) /\ to(s) = h[o] + to(r)
  BY <1>2, <1>3, SumUnfolds
<1>5. all(r) = of(r) * k + to(r) * l
  BY <1>1, <1>3
<1>6. of(r) \in Int /\ to(r) \in Int
  <2>1. IsFiniteSet(r) /\ \A x \in r : g[x] \in Int /\ h[x] \in Int
    BY <1>2, FS_Subset
  <2>. HIDE DEF r
  <2>. QED
    BY <2>1, SumIsInteger
<1>7. g[o] \in Int /\ h[o] \in Int /\ f[o] = g[o] * k + h[o] * l
  BY <1>2, <1>3 DEF Mixed
<1>. HIDE DEF all, of, to, o, r
<1>8. (g[o] * k + h[o] * l) + (of(r) * k + to(r) * l) = (g[o] + of(r)) * k + (h[o] + to(r)) * l
  BY <1>6, <1>7, Distributed
<1>. QED
  BY <1>2, <1>4, <1>5, <1>7, <1>8
-----------------------------------------------------------------------------
(* Folds of a function g of a state and an element over s[1], s[2], ...:   *)
(* what FoldLeft works out, with all that it works out on the way.         *)
Rest(t) == t \ {Max(t)}

IsFold(g, base, s, D, f) ==
  f = [t \in SUBSET D |-> IF t = {} THEN base ELSE g[f[Rest(t)]][s[Max(t)]]]

\* Indices are finitely many: their sets have smallest ones, and a set a greatest index.
LEMMA IndicesFinite ==
  ASSUME NEW n \in Nat, NEW t \in SUBSET (1..n)
  PROVE  IsFiniteSet(t)
<1>1. IsFiniteSet(1..n)
  BY FS_Interval
<1>. QED
  BY <1>1, FS_Subset

LEMMA SmallestOf ==
  ASSUME NEW S, IsFiniteSet(S)
  PROVE  \A B : B # {} /\ (\A s \in B : s \subseteq S) =>
                 \E s \in B : \A t \in B : t \subseteq s => t = s
BY SmallestSet

LEMMA SmallestIndices ==
  ASSUME NEW n \in Nat, NEW B, \A s \in B : s \subseteq 1..n, B # {}
  PROVE  \E s \in B : \A t \in SUBSET s : t \in B => t = s
<1>1. IsFiniteSet(1..n)
  BY FS_Interval
<1>2. \E s \in B : \A t \in B : t \subseteq s => t = s
  BY <1>1, SmallestOf
<1>. QED
  BY <1>2

\* A set without its greatest index is a smaller one.
LEMMA RestIsLess ==
  ASSUME NEW n \in Nat, NEW t \in SUBSET (1..n), t # {}
  PROVE  /\ Max(t) \in t /\ \A k \in t : k <= Max(t)
         /\ Rest(t) \in SUBSET (1..n) /\ Rest(t) \in SUBSET t /\ Rest(t) # t
<1>1. IsFiniteSet(t) /\ \A k \in t : k \in Int
  BY IndicesFinite
<1>2. Max(t) \in t /\ \A k \in t : k <= Max(t)
  BY <1>1, GreatestNumber
<1>. QED
  BY <1>2 DEF Rest

\* Two functions that agree where they agree on what is less, agree.
LEMMA FoldsAlike ==
  ASSUME NEW n \in Nat, NEW r \in SUBSET (1..n), NEW f, NEW k, f[{}] = k[{}],
         \A t \in SUBSET r : t # {} /\ f[Rest(t)] = k[Rest(t)] => f[t] = k[t]
  PROVE  f[r] = k[r]
<1>. SUFFICES ASSUME f[r] # k[r] PROVE FALSE
  OBVIOUS
<1>. DEFINE B == {t \in SUBSET r : f[t] # k[t]}
<1>1. B # {} /\ \A t \in B : t \subseteq 1..n
  OBVIOUS
<1>2. PICK t \in B : \A u \in SUBSET t : u \in B => u = t
  <2>. HIDE DEF B
  <2>. QED
    BY <1>1, SmallestIndices
<1>3. t \in SUBSET r /\ t # {} /\ t \in SUBSET (1..n)
  OBVIOUS
<1>4. Rest(t) \in SUBSET t /\ Rest(t) # t
  BY <1>3, RestIsLess
<1>5. f[Rest(t)] = k[Rest(t)]
  BY <1>2, <1>3, <1>4
<1>. QED
  BY <1>3, <1>5

\* There is a fold.
LEMMA FoldExists ==
  ASSUME NEW n \in Nat, NEW g, NEW base, NEW s
  PROVE  \E f : IsFold(g, base, s, 1..n, f)
<1>. DEFINE B == {t \in SUBSET (1..n) : ~\E f : IsFold(g, base, s, t, f)}
<1>. SUFFICES ASSUME B # {} PROVE FALSE
  OBVIOUS
<1>1. PICK r \in B : \A t \in SUBSET r : t \in B => t = r
  <2>1. \A t \in B : t \subseteq 1..n
    OBVIOUS
  <2>. HIDE DEF B
  <2>. QED
    BY <2>1, SmallestIndices
<1>. DEFINE of(t) == CHOOSE f : IsFold(g, base, s, t, f)
            k == [t \in SUBSET r |-> IF t # r THEN of(t)[t]
                                     ELSE IF r = {} THEN base
                                     ELSE g[of(Rest(r))[Rest(r)]][s[Max(r)]]]
<1>2. ASSUME NEW t \in SUBSET r, t # r PROVE IsFold(g, base, s, t, of(t))
  <2>1. \E f : IsFold(g, base, s, t, f)
    BY <1>1, <1>2
  <2>. QED
    BY <2>1
<1>. HIDE DEF of
<1>3. ASSUME NEW t \in SUBSET r
      PROVE  k[t] = IF t = {} THEN base ELSE g[k[Rest(t)]][s[Max(t)]]
  <2>1. CASE t = {}
    <3>1. CASE r = {}
      BY <2>1, <3>1
    <3>2. CASE r # {}
      BY <2>1, <3>2, <1>2 DEF IsFold
    <3>. QED
      BY <3>1, <3>2
  <2>2. CASE t # {}
    <3>. DEFINE u == Rest(t)
    <3>1. /\ t \in SUBSET (1..n) /\ u \in SUBSET t /\ u # t
          /\ u \in SUBSET r /\ u # r /\ u \in SUBSET (1..n)
      <4>1. t \in SUBSET (1..n)
        OBVIOUS
      <4>2. u \in SUBSET t /\ u # t
        BY <2>2, <4>1, RestIsLess
      <4>. HIDE DEF u
      <4>. QED
        BY <4>1, <4>2
    <3>2. k[u] = of(u)[u]
      BY <3>1
    <3>3. CASE t = r
      BY <2>2, <3>2, <3>3
    <3>4. CASE t # r
      <4>1. k[t] = of(t)[t] /\ IsFold(g, base, s, t, of(t)) /\ IsFold(g, base, s, u, of(u))
        BY <3>1, <3>4, <1>2
      <4>2. of(t)[t] = g[of(t)[u]][s[Max(t)]]
        BY <2>2, <4>1 DEF IsFold
      <4>. HIDE DEF u, k
      <4>3. of(t)[u] = of(u)[u]
        <5>1. of(t)[{}] = of(u)[{}]
          BY <4>1 DEF IsFold
        <5>2. ASSUME NEW v \in SUBSET u, v # {}, of(t)[Rest(v)] = of(u)[Rest(v)]
              PROVE  of(t)[v] = of(u)[v]
          <6>1. v \in SUBSET t
            BY <3>1
          <6>2. of(t)[v] = g[of(t)[Rest(v)]][s[Max(v)]]
            BY <4>1, <5>2, <6>1 DEF IsFold
          <6>3. of(u)[v] = g[of(u)[Rest(v)]][s[Max(v)]]
            BY <4>1, <5>2 DEF IsFold
          <6>. QED
            BY <5>2, <6>2, <6>3
        <5>. QED
          BY <3>1, <5>1, <5>2, FoldsAlike
      <4>. QED
        BY <2>2, <3>2, <4>1, <4>2, <4>3 DEF u
    <3>. QED
      BY <3>3, <3>4
  <2>. QED
    BY <2>1, <2>2
<1>4. IsFold(g, base, s, r, k)
  <2>. HIDE DEF B
  <2>1. k = [t \in SUBSET r |-> k[t]]
    OBVIOUS
  <2>. HIDE DEF k
  <2>. QED
    BY <2>1, <1>3 DEF IsFold
<1>. QED
  BY <1>4
-----------------------------------------------------------------------------
(* The fold of the first n.                                                *)
Folding(g, base, s, n) == CHOOSE f : IsFold(g, base, s, 1..n, f)
FoldOf(g, base, s, n) == Folding(g, base, s, n)[1..n]

\* It is one.
LEMMA FoldingFolds ==
  ASSUME NEW n \in Nat, NEW g, NEW base, NEW s
  PROVE  IsFold(g, base, s, 1..n, Folding(g, base, s, n))
BY FoldExists DEF Folding

\* Of nothing it is where it began.
LEMMA FoldOfNothing ==
  ASSUME NEW g, NEW base, NEW s
  PROVE  FoldOf(g, base, s, 0) = base
<1>1. 1..0 = {}
  OBVIOUS
<1>2. IsFold(g, base, s, 1..0, Folding(g, base, s, 0))
  BY FoldingFolds
<1>. QED
  BY <1>1, <1>2 DEF FoldOf, IsFold

\* It is worked out from the elements alone.
LEMMA FoldOfSame ==
  ASSUME NEW n \in Nat, NEW m \in Nat, n <= m, NEW g, NEW base, NEW s, NEW z,
         \A i \in 1..n : s[i] = z[i]
  PROVE  FoldOf(g, base, s, n) = Folding(g, base, z, m)[1..n]
<1>. DEFINE f == Folding(g, base, s, n)
            k == Folding(g, base, z, m)
<1>1. IsFold(g, base, s, 1..n, f) /\ IsFold(g, base, z, 1..m, k)
  BY FoldingFolds
<1>. HIDE DEF f, k
<1>2. 1..n \in SUBSET (1..m) /\ 1..n \in SUBSET (1..n)
  OBVIOUS
<1>3. f[{}] = k[{}]
  BY <1>1, <1>2 DEF IsFold
<1>4. ASSUME NEW t \in SUBSET (1..n), t # {}, f[Rest(t)] = k[Rest(t)] PROVE f[t] = k[t]
  <2>1. s[Max(t)] = z[Max(t)]
    BY <1>4, RestIsLess
  <2>2. f[t] = g[f[Rest(t)]][s[Max(t)]]
    BY <1>1, <1>4 DEF IsFold
  <2>3. t \in SUBSET (1..m)
    BY <1>2
  <2>4. k[t] = g[k[Rest(t)]][z[Max(t)]]
    BY <1>1, <1>4, <2>3 DEF IsFold
  <2>. QED
    BY <1>4, <2>1, <2>2, <2>4
<1>5. f[1..n] = k[1..n]
  BY <1>2, <1>3, <1>4, FoldsAlike
<1>. QED
  BY <1>5 DEF FoldOf, f, k

\* One element more, of the same sequence.
LEMMA FoldOfMore ==
  ASSUME NEW n \in Nat, NEW g, NEW base, NEW s
  PROVE  FoldOf(g, base, s, n + 1) = g[FoldOf(g, base, s, n)][s[n + 1]]
<1>. DEFINE k == Folding(g, base, s, n + 1)
<1>1. n + 1 \in Nat /\ 1..(n + 1) # {} /\ 1..(n + 1) \in SUBSET (1..(n + 1))
  OBVIOUS
<1>2. Max(1..(n + 1)) = n + 1
  <2>1. Max(1..(n + 1)) \in 1..(n + 1) /\ \A i \in 1..(n + 1) : i <= Max(1..(n + 1))
    BY <1>1, RestIsLess
  <2>. QED
    BY <2>1
<1>3. Rest(1..(n + 1)) = 1..n
  BY <1>2 DEF Rest
<1>4. IsFold(g, base, s, 1..(n + 1), k)
  BY <1>1, FoldingFolds
<1>5. FoldOf(g, base, s, n) = k[1..n]
  BY FoldOfSame
<1>. HIDE DEF k
<1>6. k[1..(n + 1)] = g[k[1..n]][s[n + 1]]
  BY <1>1, <1>2, <1>3, <1>4 DEF IsFold
<1>. QED
  BY <1>5, <1>6 DEF FoldOf, k

\* It stays in the set of states.
LEMMA FoldOfTyped ==
  ASSUME NEW n \in Nat, NEW St, NEW El, NEW g, \A x \in St, y \in El : g[x][y] \in St,
         NEW base \in St, NEW s, \A i \in 1..n : s[i] \in El
  PROVE  \A t \in SUBSET (1..n) : Folding(g, base, s, n)[t] \in St
<1>. DEFINE f == Folding(g, base, s, n)
            B == {t \in SUBSET (1..n) : f[t] \notin St}
<1>. SUFFICES ASSUME B # {} PROVE FALSE
  OBVIOUS
<1>1. PICK t \in B : \A u \in SUBSET t : u \in B => u = t
  <2>1. \A t \in B : t \subseteq 1..n
    OBVIOUS
  <2>. HIDE DEF B
  <2>. QED
    BY <2>1, SmallestIndices
<1>2. IsFold(g, base, s, 1..n, f)
  BY FoldingFolds
<1>. HIDE DEF f
<1>3. t # {}
  BY <1>2 DEF IsFold
<1>4. /\ Rest(t) \in SUBSET (1..n) /\ Rest(t) \in SUBSET t /\ Rest(t) # t
      /\ s[Max(t)] \in El
  BY <1>3, RestIsLess
<1>5. f[Rest(t)] \in St
  BY <1>1, <1>4
<1>6. f[t] = g[f[Rest(t)]][s[Max(t)]]
  BY <1>2, <1>3 DEF IsFold
<1>. QED
  BY <1>4, <1>5, <1>6

\* One element more is one step more.
LEMMA FoldOfOneMore ==
  ASSUME NEW n \in Nat, NEW m, m = n + 1, NEW g, NEW base, NEW s, NEW z,
         \A i \in 1..n : s[i] = z[i]
  PROVE  FoldOf(g, base, z, m) = g[FoldOf(g, base, s, n)][z[m]]
<1>1. FoldOf(g, base, s, n) = FoldOf(g, base, z, n)
  BY FoldOfSame DEF FoldOf
<1>. QED
  BY <1>1, FoldOfMore

-----------------------------------------------------------------------------
(* Running totals of the numbers of a sequence.                            *)
TotalTo(g, k) == SumFunctionOnSet(g, 1..k)

\* Nothing makes nothing,
LEMMA TotalOfNothing ==
  ASSUME NEW g
  PROVE  TotalTo(g, 0) = 0
<1>1. 1..0 = {}
  OBVIOUS
<1>. QED
  BY <1>1, SumOfNothing DEF TotalTo

\* integers an integer,
LEMMA TotalTyped ==
  ASSUME NEW k \in Nat, NEW g, \A i \in 1..k : g[i] \in Int
  PROVE  TotalTo(g, k) \in Int
<1>1. IsFiniteSet(1..k)
  BY FS_Interval
<1>. QED
  BY <1>1, SumIsInteger DEF TotalTo

\* one more that much more,
LEMMA TotalOfMore ==
  ASSUME NEW k \in Nat, NEW m, m = k + 1, NEW g, \A i \in 1..m : g[i] \in Int
  PROVE  TotalTo(g, m) = TotalTo(g, k) + g[m]
<1>1. IsFiniteSet(1..m) /\ m \in 1..m
  BY FS_Interval
<1>2. (1..m) \ {m} = 1..k
  OBVIOUS
<1>3. SumFunctionOnSet(g, 1..m) = g[m] + SumFunctionOnSet(g, 1..k)
  <2>. DEFINE S == 1..m
  <2>1. IsFiniteSet(S) /\ m \in S /\ (\A i \in S : g[i] \in Int) /\ S \ {m} = 1..k
    BY <1>1, <1>2
  <2>. HIDE DEF S
  <2>2. SumFunctionOnSet(g, S) = g[m] + SumFunctionOnSet(g, S \ {m})
    BY <2>1, SumWithout
  <2>. QED
    BY <2>1, <2>2 DEF S
<1>4. TotalTo(g, k) \in Int /\ g[m] \in Int
  <2>1. \A i \in 1..k : g[i] \in Int
    OBVIOUS
  <2>. QED
    BY <1>1, <2>1, TotalTyped
<1>. QED
  BY <1>3, <1>4 DEF TotalTo

\* and the same numbers the same.
LEMMA TotalOfSame ==
  ASSUME NEW k \in Nat, NEW g, NEW h, \A i \in 1..k : g[i] = h[i]
  PROVE  TotalTo(g, k) = TotalTo(h, k)
<1>1. IsFiniteSet(1..k) /\ Alike(g, h, 1..k)
  BY FS_Interval DEF Alike
<1>. QED
  BY <1>1, SumOfSame DEF TotalTo

\* From m on, up to d, the numbers of g are those of c taken from p.
TakenFrom(g, c, p, m, d) ==
  /\ m \in Nat /\ d \in Nat /\ m <= d /\ p \in Int
  /\ \A i \in 1..d : g[i] \in Int /\ c[i] \in Int
  /\ \A i \in (m + 1)..d : g[i] = p - c[i]

\* So their totals grow by as many p less what c grows by.
LEMMA TotalTaken ==
  ASSUME NEW g, NEW c, NEW p, NEW m, NEW d, TakenFrom(g, c, p, m, d)
  PROVE  \A k \in m..d :
           TotalTo(g, k) - TotalTo(g, m) = (k - m) * p - (TotalTo(c, k) - TotalTo(c, m))
<1>. DEFINE Holds(k) == TotalTo(g, k) - TotalTo(g, m) = (k - m) * p - (TotalTo(c, k) - TotalTo(c, m))
            N == {k \in m..d : ~Holds(k)}
<1>. SUFFICES ASSUME N # {} PROVE FALSE
  OBVIOUS
<1>1. /\ m \in Nat /\ d \in Nat /\ m <= d /\ p \in Int
      /\ \A i \in 1..d : g[i] \in Int /\ c[i] \in Int
  BY DEF TakenFrom
<1>2. PICK k \in N : \A i \in N : k <= i
  <2>1. N \in SUBSET Nat
    BY <1>1
  <2>. HIDE DEF N
  <2>. QED
    BY <2>1, LeastNumber
<1>3. \A i \in m..d : TotalTo(g, i) \in Int /\ TotalTo(c, i) \in Int
  <2>. SUFFICES ASSUME NEW i \in m..d PROVE TotalTo(g, i) \in Int /\ TotalTo(c, i) \in Int
    OBVIOUS
  <2>1. i \in Nat /\ \A l \in 1..i : l \in 1..d
    BY <1>1
  <2>2. (\A l \in 1..i : g[l] \in Int) /\ \A l \in 1..i : c[l] \in Int
    BY <1>1, <2>1
  <2>. QED
    BY <2>1, <2>2, TotalTyped
<1>4. TotalTo(g, m) \in Int /\ TotalTo(c, m) \in Int
  BY <1>1, <1>3
<1>5. k # m
  <2>1. ASSUME k = m PROVE FALSE
    <3>1. (m - m) * p = 0
      BY <1>1
    <3>2. ~(TotalTo(g, m) - TotalTo(g, m) = (m - m) * p - (TotalTo(c, m) - TotalTo(c, m)))
      BY <1>2, <2>1
    <3>. QED
      BY <1>4, <3>1, <3>2
  <2>. QED
    BY <2>1
<1>. DEFINE i == k - 1
<1>6. i \in m..d /\ i \notin N /\ i \in Nat /\ k = i + 1 /\ k \in (m + 1)..d /\ k \in 1..d
  BY <1>1, <1>2, <1>5
<1>7. Holds(i) /\ ~Holds(k)
  BY <1>2, <1>6
<1>8. g[k] = p - c[k] /\ c[k] \in Int
  BY <1>6 DEF TakenFrom
<1>9. TotalTo(g, k) = TotalTo(g, i) + g[k] /\ TotalTo(c, k) = TotalTo(c, i) + c[k]
  <2>1. (\A l \in 1..k : g[l] \in Int) /\ \A l \in 1..k : c[l] \in Int
    BY <1>1, <1>6
  <2>. HIDE DEF i
  <2>. QED
    BY <1>6, <2>1, TotalOfMore
<1>. DEFINE kp == (k - m) * p
            ip == (i - m) * p
<1>10. kp = ip + p /\ ip \in Int /\ kp \in Int
  BY <1>1, <1>6
<1>11. /\ TotalTo(g, i) - TotalTo(g, m) = ip - (TotalTo(c, i) - TotalTo(c, m))
       /\ ~(TotalTo(g, k) - TotalTo(g, m) = kp - (TotalTo(c, k) - TotalTo(c, m)))
  BY <1>7
<1>12. /\ TotalTo(g, i) \in Int /\ TotalTo(c, i) \in Int
       /\ TotalTo(g, k) \in Int /\ TotalTo(c, k) \in Int
  BY <1>2, <1>3, <1>6
<1>. HIDE DEF N, Holds, kp, ip, i
<1>. QED
  BY <1>1, <1>4, <1>8, <1>9, <1>10, <1>11, <1>12

\* The same number again and again.
Repeated(g, p, m, d) ==
  /\ m \in Nat /\ d \in Nat /\ m <= d /\ p \in Int
  /\ \A i \in 1..d : g[i] \in Int
  /\ \A i \in (m + 1)..d : g[i] = p

\* Its total grows by p each time.
LEMMA TotalRepeated ==
  ASSUME NEW g, NEW p, NEW m, NEW d, Repeated(g, p, m, d)
  PROVE  \A k \in m..d : TotalTo(g, k) = TotalTo(g, m) + (k - m) * p
<1>. DEFINE z == [i \in 1..d |-> 0]
<1>1. /\ m \in Nat /\ d \in Nat /\ m <= d /\ p \in Int
      /\ \A i \in 1..d : g[i] \in Int
  BY DEF Repeated
<1>2. TakenFrom(g, z, p, m, d)
  BY DEF Repeated, TakenFrom
<1>3. TakenFrom(z, z, 0, 0, d)
  BY <1>1 DEF TakenFrom
<1>. HIDE DEF z
<1>. SUFFICES ASSUME NEW k \in m..d PROVE TotalTo(g, k) = TotalTo(g, m) + (k - m) * p
  OBVIOUS
<1>4. k \in 0..d /\ m \in 0..d /\ k \in Nat
  BY <1>1
<1>. DEFINE kp == (k - m) * p
<1>5. TotalTo(g, k) - TotalTo(g, m) = kp - (TotalTo(z, k) - TotalTo(z, m))
  BY <1>2, TotalTaken
<1>6. kp \in Int /\ (k - 0) * 0 = 0 /\ (m - 0) * 0 = 0
  BY <1>1
<1>7. /\ TotalTo(z, k) - TotalTo(z, 0) = 0 - (TotalTo(z, k) - TotalTo(z, 0))
      /\ TotalTo(z, m) - TotalTo(z, 0) = 0 - (TotalTo(z, m) - TotalTo(z, 0))
  BY <1>3, <1>4, <1>6, TotalTaken
<1>8. (\A l \in 1..k : g[l] \in Int /\ z[l] \in Int) /\ \A l \in 1..m : g[l] \in Int /\ z[l] \in Int
  BY <1>2, <1>4 DEF TakenFrom
<1>9. /\ TotalTo(g, k) \in Int /\ TotalTo(g, m) \in Int
      /\ TotalTo(z, k) \in Int /\ TotalTo(z, m) \in Int
  BY <1>1, <1>4, <1>8, TotalTyped
<1>. HIDE DEF kp
<1>10. TotalTo(g, k) = TotalTo(g, m) + kp
  BY <1>5, <1>6, <1>7, <1>9, TotalOfNothing
<1>. QED
  BY <1>10 DEF kp
=============================================================================
