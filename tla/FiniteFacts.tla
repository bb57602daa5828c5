----------------------------- MODULE FiniteFacts -----------------------------
(***************************************************************************)
(* What the proofs about several modules need to know of finite sets: that *)
(* a set of naturals has a least element, and what a sum over a set is.    *)
(***************************************************************************)
EXTENDS Integers, FiniteSetsExt, Functions, FiniteSetTheorems, TLAPS

\* Naturals are well founded: of the intervals 0 .. n, n \in S, one is the least.
LEMMA LeastNatural ==
  ASSUME NEW S, S \subseteq Nat, S # {}
  PROVE  \E m \in S : \A n \in S : m <= n
  <1>1. PICK F : F = {0 .. n : n \in S}
    OBVIOUS
  <1>2. F \subseteq FiniteSubsetsOf(Nat) /\ F # {}
    <2>1. ASSUME NEW n \in S PROVE 0 .. n \in SUBSET Nat /\ IsFiniteSet(0 .. n)
      BY FS_Interval
    <2> QED
      BY <1>1, <2>1 DEF FiniteSubsetsOf
  <1>3. PICK I \in F : \A J \in F : ~(<<J, I>> \in StrictSubsetOrdering(Nat))
    BY <1>2, FS_StrictSubsetOrderingWellFounded, WFMin
  <1>4. PICK m \in S : I = 0 .. m
    BY <1>1
  <1>5. ASSUME NEW n \in S, n < m PROVE FALSE
    <2>1. 0 .. n \in F
      BY <1>1
    <2>2. 0 .. n \subseteq 0 .. m /\ m \in 0 .. m /\ m \notin 0 .. n /\ 0 .. m \subseteq Nat
      BY <1>5
    <2>3. <<0 .. n, 0 .. m>> \in StrictSubsetOrdering(Nat)
      BY <2>2 DEF StrictSubsetOrdering
    <2> QED
      BY <1>3, <1>4, <2>1, <2>3
  <1> QED
    BY <1>5

\* The least element of a set of naturals.
LEMMA MinFacts ==
  ASSUME NEW S, S \subseteq Nat, S # {}
  PROVE  Min(S) \in S /\ \A n \in S : Min(S) <= n
  BY LeastNatural DEF Min

\* The greatest element of a bounded set of naturals.
LEMMA MaxFacts ==
  ASSUME NEW n \in Nat, NEW S, S \subseteq 0 .. n, S # {}
  PROVE  Max(S) \in S /\ \A m \in S : m <= Max(S)
  <1>1. PICK D : D = {n - m : m \in S}
    OBVIOUS
  <1>2. D \subseteq Nat /\ D # {}
    <2>1. \A m \in S : n - m \in Nat
      OBVIOUS
    <2> QED
      BY <1>1, <2>1
  <1>3. PICK d \in D : \A e \in D : d <= e
    BY <1>2, LeastNatural
  <1>4. PICK k \in S : d = n - k
    BY <1>1
  <1>5. \A m \in S : n - m \in D
    BY <1>1
  <1>6. ASSUME NEW m \in S PROVE m <= k
    <2>1. d <= n - m
      BY <1>3, <1>5
    <2>2. m \in Int /\ k \in Int
      OBVIOUS
    <2> QED
      BY <1>4, <2>1, <2>2
  <1> QED
    BY <1>6 DEF Max

\* Induction: a set of naturals with 0 that has n + 1 with n.
LEMMA EveryNatural ==
  ASSUME NEW G, 0 \in G, \A n \in Nat : n \in G => n + 1 \in G
  PROVE  \A n \in Nat : n \in G
  <1> SUFFICES ASSUME Nat \ G # {} PROVE FALSE
    OBVIOUS
  <1>1. PICK m \in Nat \ G : \A n \in Nat \ G : m <= n
    BY LeastNatural
  <1>2. m # 0 /\ m - 1 \in Nat /\ m - 1 < m
    <2>1. m # 0
      OBVIOUS
    <2> QED
      BY <2>1
  <1>3. m - 1 \in G
    BY <1>1, <1>2
  <1> QED
    BY <1>2, <1>3

LEMMA OneLess ==
  ASSUME NEW S, IsFiniteSet(S), NEW n \in Nat, Cardinality(S) = n + 1, NEW x \in S
  PROVE  Cardinality(S \ {x}) = n
  <1>1. Cardinality(S \ {x}) = Cardinality(S) - 1
    BY FS_RemoveElement
  <1> QED
    BY <1>1

\* Induction over the subsets of a finite set.
LEMMA EverySubset ==
  ASSUME NEW S, IsFiniteSet(S), NEW G, {} \in G,
         \A T \in SUBSET S : \A x \in S \ T : T \in G => T \union {x} \in G
  PROVE  \A T \in SUBSET S : T \in G
  <1> DEFINE N == {n \in Nat : \A T \in SUBSET S : Cardinality(T) = n => T \in G}
  <1>1. \A T \in SUBSET S : IsFiniteSet(T) /\ Cardinality(T) \in Nat
    BY FS_Subset, FS_CardinalityType
  <1>2. 0 \in N
    <2>1. \A T \in SUBSET S : Cardinality(T) = 0 => T = {}
      BY <1>1, FS_EmptySet
    <2> QED
      BY <2>1
  <1>3. ASSUME NEW n \in Nat, n \in N PROVE n + 1 \in N
    <2> SUFFICES ASSUME NEW T \in SUBSET S, Cardinality(T) = n + 1 PROVE T \in G
      OBVIOUS
    <2>1. T # {}
      BY <1>1, FS_EmptySet
    <2>2. PICK x \in T : TRUE
      BY <2>1
    <2>3. Cardinality(T \ {x}) = n /\ T \ {x} \in SUBSET S
      <3>1. Cardinality(T \ {x}) = Cardinality(T) - 1
        BY <1>1, <2>2, FS_RemoveElement
      <3> QED
        BY <3>1
    <2>4. T \ {x} \in G /\ x \in S \ (T \ {x}) /\ (T \ {x}) \union {x} = T
      BY <1>3, <2>3
    <2> QED
      BY <2>4
  <1> HIDE DEF N
  <1>4. \A n \in Nat : n \in N
    BY <1>2, <1>3, EveryNatural
  <1> QED
    BY <1>1, <1>4 DEF N

\* The values of a function on a finite set.
LEMMA ImageFinite ==
  ASSUME NEW S, IsFiniteSet(S), NEW F
  PROVE  IsFiniteSet({F[x] : x \in S}) /\ Cardinality({F[x] : x \in S}) <= Cardinality(S)
  <1>1. PICK T, M : T = {F[x] : x \in S} /\ M = [x \in S |-> F[x]]
    OBVIOUS
  <1>2. M \in Surjection(S, T)
    BY <1>1 DEF Surjection
  <1> QED
    BY <1>1, <1>2, FS_Surjection

\* Sets of the same size.
LEMMA SameSize ==
  ASSUME NEW S, IsFiniteSet(S), NEW T, NEW M \in [S -> T],
         \A x, y \in S : M[x] = M[y] => x = y, \A t \in T : \E s \in S : M[s] = t
  PROVE  IsFiniteSet(T) /\ Cardinality(T) = Cardinality(S)
  <1>1. M \in Bijection(S, T)
    BY DEF Bijection, Injection, Surjection, IsInjective
  <1> QED
    BY <1>1, FS_Bijection DEF ExistsBijection

(***************************************************************************)
(* Sums over finite sets: SumFunctionOnSet(F, S) is the sum of F[x] for x  *)
(* in S.                                                                   *)
(***************************************************************************)
\* h has the sums of F over the subsets of S, an element at a time.
Adds(h, F, S) ==
  h = [s \in SUBSET S |-> IF s = {} THEN 0
                          ELSE F[CHOOSE x \in s : TRUE] + h[s \ {CHOOSE x \in s : TRUE}]]

LEMMA SumIsChosen ==
  ASSUME NEW F, NEW S
  PROVE  SumFunctionOnSet(F, S) = (CHOOSE h : Adds(h, F, S))[S]
  BY DEF SumFunctionOnSet, FoldFunctionOnSet, MapThenFoldSet, Adds

\* Such a function exists.
LEMMA AddsExists ==
  ASSUME NEW F, NEW S, IsFiniteSet(S)
  PROVE  \E h : Adds(h, F, S)
  <1> DEFINE c(s) == CHOOSE x \in s : TRUE
             Upto(n) == {s \in SUBSET S : Cardinality(s) <= n}
             Good(h, n) == h = [s \in Upto(n) |-> IF s = {} THEN 0 ELSE F[c(s)] + h[s \ {c(s)}]]
             N == {n \in Nat : \E h : Good(h, n)}
  <1>1. \A T \in SUBSET S : IsFiniteSet(T) /\ Cardinality(T) \in Nat
    BY FS_Subset, FS_CardinalityType
  <1>2. \A n \in Nat : \A s \in Upto(n + 1) : s # {} => c(s) \in s /\ s \ {c(s)} \in Upto(n)
    <2> SUFFICES ASSUME NEW n \in Nat, NEW s \in Upto(n + 1), s # {}
                 PROVE  c(s) \in s /\ s \ {c(s)} \in Upto(n)
      OBVIOUS
    <2>1. c(s) \in s
      OBVIOUS
    <2>2. Cardinality(s \ {c(s)}) = Cardinality(s) - 1
      BY <1>1, <2>1, FS_RemoveElement
    <2> QED
      BY <1>1, <2>1, <2>2
  <1>3. 0 \in N
    <2>1. Upto(0) = {{}}
      BY <1>1, FS_EmptySet
    <2>2. Good([s \in Upto(0) |-> 0], 0)
      BY <2>1
    <2> QED
      BY <2>2
  <1>4. ASSUME NEW n \in Nat, n \in N PROVE n + 1 \in N
    <2>1. PICK h : Good(h, n)
      BY <1>4
    <2> DEFINE g == [s \in Upto(n + 1) |-> IF s = {} THEN 0 ELSE F[c(s)] + h[s \ {c(s)}]]
    <2>2. Upto(n) \subseteq Upto(n + 1)
      BY <1>1
    <2>3. \A s \in Upto(n) : g[s] = h[s]
      BY <2>1, <2>2
    <2>4. \A s \in Upto(n + 1) : s # {} => h[s \ {c(s)}] = g[s \ {c(s)}]
      BY <1>2, <2>3
    <2>5. g = [s \in Upto(n + 1) |-> IF s = {} THEN 0 ELSE F[c(s)] + g[s \ {c(s)}]]
      <3> HIDE DEF Upto, c
      <3> DEFINE g2 == [s \in Upto(n + 1) |-> IF s = {} THEN 0 ELSE F[c(s)] + g[s \ {c(s)}]]
      <3>1. \A s \in Upto(n + 1) : g[s] = g2[s]
        BY <2>4
      <3> QED
        BY <3>1
    <2> QED
      <3>1. Good(g, n + 1)
        BY <2>5
      <3> HIDE DEF g, Good
      <3> QED
        BY <3>1
  <1> HIDE DEF N
  <1>5. Cardinality(S) \in N
    BY <1>1, <1>3, <1>4, EveryNatural
  <1>6. Upto(Cardinality(S)) = SUBSET S
    BY <1>1, FS_Subset
  <1> QED
    BY <1>5, <1>6 DEF N, Adds

\* What such a function gives a subset is a natural, ...
LEMMA AddsNaturals ==
  ASSUME NEW F, NEW S, IsFiniteSet(S), \A x \in S : F[x] \in Nat, NEW h, Adds(h, F, S)
  PROVE  /\ \A s \in SUBSET S : h[s] \in Nat
         /\ \A s \in SUBSET S : s # {} => \E x \in s : h[s] = F[x] + h[s \ {x}]
         /\ h[{}] = 0
  <1> DEFINE c(s) == CHOOSE x \in s : TRUE
             N == {n \in Nat : \A s \in SUBSET S : Cardinality(s) = n => h[s] \in Nat}
  <1>1. \A s \in SUBSET S : IsFiniteSet(s) /\ Cardinality(s) \in Nat
    BY FS_Subset, FS_CardinalityType
  <1>2. h[{}] = 0
    BY DEF Adds
  <1>3. \A s \in SUBSET S : s # {} => c(s) \in s /\ h[s] = F[c(s)] + h[s \ {c(s)}]
    BY DEF Adds
  <1>4. 0 \in N
    <2>1. \A s \in SUBSET S : Cardinality(s) = 0 => s = {}
      BY <1>1, FS_EmptySet
    <2> QED
      BY <1>2, <2>1
  <1>5. ASSUME NEW n \in Nat, n \in N PROVE n + 1 \in N
    <2> SUFFICES ASSUME NEW s \in SUBSET S, Cardinality(s) = n + 1 PROVE h[s] \in Nat
      OBVIOUS
    <2>1. s # {}
      BY <1>1, FS_EmptySet
    <2>2. PICK x \in s : h[s] = F[x] + h[s \ {x}]
      BY <1>3, <2>1
    <2>3. Cardinality(s \ {x}) = n
      BY <1>1, OneLess
    <2>4. h[s \ {x}] \in Nat /\ F[x] \in Nat
      BY <1>5, <2>3
    <2> QED
      BY <2>2, <2>4
  <1> HIDE DEF N
  <1>6. \A n \in Nat : n \in N
    BY <1>4, <1>5, EveryNatural
  <1>7. \A s \in SUBSET S : h[s] \in Nat
    BY <1>1, <1>6 DEF N
  <1> QED
    BY <1>2, <1>3, <1>7

\* ... whichever element is taken first.
LEMMA AddsFacts ==
  ASSUME NEW F, NEW S, IsFiniteSet(S), \A x \in S : F[x] \in Nat, NEW h, Adds(h, F, S),
         NEW t \in SUBSET S, NEW z \in t
  PROVE  h[t] = F[z] + h[t \ {z}]
  <1> DEFINE Any(s) == \A y \in s : h[s] = F[y] + h[s \ {y}]
             N == {n \in Nat : \A s \in SUBSET S : Cardinality(s) = n => Any(s)}
  <1>1. \A s \in SUBSET S : IsFiniteSet(s) /\ Cardinality(s) \in Nat
    BY FS_Subset, FS_CardinalityType
  <1>2. \A s \in SUBSET S : h[s] \in Nat
    BY AddsNaturals
  <1>3. \A s \in SUBSET S : s # {} => \E x \in s : h[s] = F[x] + h[s \ {x}]
    BY AddsNaturals
  <1>4. 0 \in N
    BY <1>1, FS_EmptySet
  <1>5. ASSUME NEW n \in Nat, n \in N PROVE n + 1 \in N
    <2> SUFFICES ASSUME NEW s \in SUBSET S, Cardinality(s) = n + 1, NEW y \in s
                 PROVE  h[s] = F[y] + h[s \ {y}]
      OBVIOUS
    <2>1. PICK x \in s : h[s] = F[x] + h[s \ {x}]
      BY <1>3
    <2>2. Any(s \ {x}) /\ Any(s \ {y})
      <3>1. Cardinality(s \ {x}) = n /\ Cardinality(s \ {y}) = n
        BY <1>1, OneLess
      <3> QED
        BY <1>5, <3>1
    <2>3. CASE y # x
      <3>1. h[s \ {x}] = F[y] + h[(s \ {x}) \ {y}]
        BY <2>2, <2>3
      <3>2. h[s \ {y}] = F[x] + h[(s \ {y}) \ {x}]
        BY <2>2, <2>3
      <3>3. (s \ {x}) \ {y} = (s \ {y}) \ {x}
        OBVIOUS
      <3>4. F[y] \in Nat /\ F[x] \in Nat /\ h[(s \ {x}) \ {y}] \in Nat
        BY <1>2
      <3> QED
        <4>1. PICK a, b, d : a = h[(s \ {x}) \ {y}] /\ b = F[x] /\ d = F[y]
          OBVIOUS
        <4>2. h[s] = b + (d + a) /\ h[s \ {y}] = b + a
          BY <2>1, <3>1, <3>2, <3>3, <4>1
        <4>3. a \in Nat /\ b \in Nat /\ d \in Nat
          BY <3>4, <4>1
        <4> QED
          BY <4>1, <4>2, <4>3
    <2> QED
      BY <2>1, <2>3
  <1> HIDE DEF N
  <1>6. \A n \in Nat : n \in N
    BY <1>4, <1>5, EveryNatural
  <1> QED
    BY <1>1, <1>6 DEF N

\* The sums of equal numbers are equal, over any set that has the elements.
LEMMA AddsSame ==
  ASSUME NEW F, NEW S, IsFiniteSet(S), \A x \in S : F[x] \in Nat, NEW h, Adds(h, F, S),
         NEW G, NEW T, IsFiniteSet(T), \A x \in T : G[x] \in Nat, NEW g, Adds(g, G, T),
         \A x \in S \intersect T : F[x] = G[x]
  PROVE  \A s \in SUBSET (S \intersect T) : h[s] = g[s]
  <1> DEFINE W == {s \in SUBSET (S \intersect T) : h[s] = g[s]}
  <1>1. {} \in W
    BY AddsNaturals
  <1>2. ASSUME NEW s \in SUBSET (S \intersect T), NEW x \in (S \intersect T) \ s, s \in W
        PROVE  s \union {x} \in W
    <2>1. (s \union {x}) \ {x} = s
      OBVIOUS
    <2>2. h[s \union {x}] = F[x] + h[s]
      <3>1. s \union {x} \in SUBSET S
        OBVIOUS
      <3> QED
        BY <2>1, <3>1, AddsFacts
    <2>3. g[s \union {x}] = G[x] + g[s]
      <3>1. s \union {x} \in SUBSET T /\ x \in s \union {x}
        OBVIOUS
      <3>2. g[s \union {x}] = G[x] + g[(s \union {x}) \ {x}]
        BY <3>1, AddsFacts
      <3> QED
        BY ONLY <2>1, <3>2
    <2> QED
      BY <1>2, <2>2, <2>3
  <1> HIDE DEF W
  <1>3. \A s \in SUBSET (S \intersect T) : s \in W
    <2>1. IsFiniteSet(S \intersect T)
      BY FS_Subset
    <2> QED
      BY ZenonT(30), <1>1, <1>2, <2>1, EverySubset
  <1> QED
    BY <1>3 DEF W

\* What a sum is.
LEMMA SumFacts ==
  ASSUME NEW F, NEW S, IsFiniteSet(S), \A x \in S : F[x] \in Nat
  PROVE  /\ SumFunctionOnSet(F, S) \in Nat
         /\ S = {} => SumFunctionOnSet(F, S) = 0
         /\ \A x \in S : SumFunctionOnSet(F, S) = F[x] + SumFunctionOnSet(F, S \ {x})
  <1>1. PICK h : h = CHOOSE g : Adds(g, F, S)
    OBVIOUS
  <1>2. Adds(h, F, S) /\ SumFunctionOnSet(F, S) = h[S]
    BY <1>1, AddsExists, SumIsChosen
  <1>3. ASSUME NEW x \in S PROVE h[S \ {x}] = SumFunctionOnSet(F, S \ {x})
    <2>1. PICK R : R = S \ {x}
      OBVIOUS
    <2>2. PICK g : g = CHOOSE k : Adds(k, F, R)
      OBVIOUS
    <2>3. IsFiniteSet(R) /\ R \subseteq S /\ R \in SUBSET (S \intersect R)
      BY <2>1, FS_Subset
    <2>4. Adds(g, F, R) /\ SumFunctionOnSet(F, R) = g[R]
      BY <2>2, <2>3, AddsExists, SumIsChosen
    <2>5. \A s \in SUBSET (S \intersect R) : h[s] = g[s]
      BY <1>2, <2>3, <2>4, AddsSame
    <2> QED
      BY <2>1, <2>3, <2>4, <2>5
  <1>4. \A s \in SUBSET S : h[s] \in Nat
    BY <1>2, AddsNaturals
  <1>5. h[{}] = 0
    BY <1>2, AddsNaturals
  <1>6. ASSUME NEW x \in S PROVE h[S] = F[x] + h[S \ {x}]
    <2>1. S \in SUBSET S
      OBVIOUS
    <2> QED
      BY <1>2, <2>1, AddsFacts
  <1>7. S \in SUBSET S
    OBVIOUS
  <1> QED
    BY <1>2, <1>3, <1>4, <1>5, <1>6, <1>7

LEMMA SumSame ==
  ASSUME NEW F, NEW G, NEW S, IsFiniteSet(S), \A x \in S : F[x] \in Nat /\ F[x] = G[x]
  PROVE  SumFunctionOnSet(F, S) = SumFunctionOnSet(G, S)
  <1>1. PICK h : h = CHOOSE k : Adds(k, F, S)
    OBVIOUS
  <1>2. PICK g : g = CHOOSE k : Adds(k, G, S)
    OBVIOUS
  <1>3. Adds(h, F, S) /\ SumFunctionOnSet(F, S) = h[S]
    BY <1>1, AddsExists, SumIsChosen
  <1>4. Adds(g, G, S) /\ SumFunctionOnSet(G, S) = g[S]
    BY <1>2, AddsExists, SumIsChosen
  <1>5. \A s \in SUBSET (S \intersect S) : h[s] = g[s]
    BY <1>3, <1>4, AddsSame
  <1> QED
    BY <1>3, <1>4, <1>5

LEMMA SumWith ==
  ASSUME NEW F, NEW S, IsFiniteSet(S), NEW y, y \notin S,
         \A x \in S \union {y} : F[x] \in Nat
  PROVE  /\ SumFunctionOnSet(F, S \union {y}) = F[y] + SumFunctionOnSet(F, S)
         /\ SumFunctionOnSet(F, S) \in Nat /\ IsFiniteSet(S \union {y})
  <1>1. PICK T : T = S \union {y}
    OBVIOUS
  <1>2. IsFiniteSet(T) /\ y \in T /\ T \ {y} = S /\ \A x \in T : F[x] \in Nat
    BY <1>1, FS_AddElement
  <1>3. SumFunctionOnSet(F, T) = F[y] + SumFunctionOnSet(F, T \ {y})
    BY <1>2, SumFacts
  <1>4. SumFunctionOnSet(F, S) \in Nat
    BY SumFacts
  <1> QED
    BY <1>1, <1>2, <1>3, <1>4

LEMMA SumPlus ==
  ASSUME NEW F, NEW G, NEW H, NEW S, IsFiniteSet(S),
         \A x \in S : F[x] \in Nat /\ G[x] \in Nat /\ H[x] = F[x] + G[x]
  PROVE  SumFunctionOnSet(H, S) = SumFunctionOnSet(F, S) + SumFunctionOnSet(G, S)
  <1> DEFINE W == {s \in SUBSET S :
                     SumFunctionOnSet(H, s) = SumFunctionOnSet(F, s) + SumFunctionOnSet(G, s)}
  <1>1. {} \in W
    <2>1. /\ SumFunctionOnSet(F, {}) = 0
          /\ SumFunctionOnSet(G, {}) = 0
          /\ SumFunctionOnSet(H, {}) = 0
      BY SumFacts, FS_EmptySet
    <2> QED
      BY <2>1
  <1>2. ASSUME NEW s \in SUBSET S, NEW x \in S \ s, s \in W PROVE s \union {x} \in W
    <2>1. IsFiniteSet(s) /\ \A y \in s \union {x} : y \in S
      BY FS_Subset
    <2>2. \A y \in s \union {x} : H[y] \in Nat
      BY <2>1
    <2>3. SumFunctionOnSet(F, s \union {x}) = F[x] + SumFunctionOnSet(F, s)
      BY <2>1, SumWith
    <2>4. SumFunctionOnSet(G, s \union {x}) = G[x] + SumFunctionOnSet(G, s)
      BY <2>1, SumWith
    <2>5. SumFunctionOnSet(H, s \union {x}) = H[x] + SumFunctionOnSet(H, s)
      BY <2>1, <2>2, SumWith
    <2>6. SumFunctionOnSet(F, s) \in Nat /\ SumFunctionOnSet(G, s) \in Nat
      <3>1. (\A y \in s : F[y] \in Nat) /\ (\A y \in s : G[y] \in Nat)
        BY <2>1
      <3> QED
        BY <2>1, <3>1, SumFacts
    <2>7. SumFunctionOnSet(H, s) = SumFunctionOnSet(F, s) + SumFunctionOnSet(G, s)
      BY <1>2
    <2>8. F[x] \in Nat /\ G[x] \in Nat /\ H[x] = F[x] + G[x]
      OBVIOUS
    <2> QED
      BY <2>3, <2>4, <2>5, <2>6, <2>7, <2>8
  <1> HIDE DEF W
  <1>3. \A s \in SUBSET S : s \in W
    BY <1>1, <1>2, EverySubset
  <1> QED
    BY <1>3 DEF W

LEMMA SumNone ==
  ASSUME NEW F, NEW S, IsFiniteSet(S), \A x \in S : F[x] = 0
  PROVE  SumFunctionOnSet(F, S) = 0
  <1> DEFINE W == {s \in SUBSET S : SumFunctionOnSet(F, s) = 0}
  <1>1. {} \in W
    BY SumFacts, FS_EmptySet
  <1>2. ASSUME NEW s \in SUBSET S, NEW x \in S \ s, s \in W PROVE s \union {x} \in W
    <2>1. IsFiniteSet(s) /\ \A y \in s \union {x} : F[y] \in Nat
      BY FS_Subset
    <2>2. SumFunctionOnSet(F, s \union {x}) = F[x] + SumFunctionOnSet(F, s)
      BY <2>1, SumWith
    <2> QED
      BY <1>2, <2>2
  <1> HIDE DEF W
  <1>3. \A s \in SUBSET S : s \in W
    BY <1>1, <1>2, EverySubset
  <1> QED
    BY <1>3 DEF W

\* Sets of which no two meet, and their sizes.
Parts(B, F, S) ==
  /\ \A x \in S : IsFiniteSet(B[x]) /\ F[x] = Cardinality(B[x])
  /\ \A x, y \in S : x # y => B[x] \intersect B[y] = {}

Together(B, S) == UNION {B[x] : x \in S}

\* The sizes of sets of which no two meet add up to the size of their union.
LEMMA SumOfSizes ==
  ASSUME NEW B, NEW F, NEW S, IsFiniteSet(S), Parts(B, F, S)
  PROVE  IsFiniteSet(Together(B, S)) /\ SumFunctionOnSet(F, S) = Cardinality(Together(B, S))
  <1> DEFINE All(s) == UNION {B[x] : x \in s}
             W == {s \in SUBSET S :
                     IsFiniteSet(All(s)) /\ SumFunctionOnSet(F, s) = Cardinality(All(s))}
  <1> USE DEF Parts
  <1>0. \A x \in S : F[x] \in Nat
    BY FS_CardinalityType
  <1>1. {} \in W
    <2>1. All({}) = {} /\ IsFiniteSet({}) /\ Cardinality({}) = 0
      BY FS_EmptySet
    <2>2. SumFunctionOnSet(F, {}) = 0
      BY <2>1, SumFacts
    <2> QED
      BY <2>1, <2>2
  <1>2. ASSUME NEW s \in SUBSET S, NEW x \in S \ s, s \in W PROVE s \union {x} \in W
    <2>1. IsFiniteSet(s) /\ \A y \in s \union {x} : F[y] \in Nat
      BY <1>0, FS_Subset
    <2>2. SumFunctionOnSet(F, s \union {x}) = F[x] + SumFunctionOnSet(F, s)
      BY <2>1, SumWith
    <2>3. PICK A : A = All(s)
      OBVIOUS
    <2>4. All(s \union {x}) = A \union B[x] /\ A \intersect B[x] = {}
      BY <2>3
    <2>5. IsFiniteSet(A) /\ Cardinality(A) \in Nat /\ SumFunctionOnSet(F, s) = Cardinality(A)
      BY <1>2, <2>3, FS_CardinalityType
    <2>6. IsFiniteSet(B[x]) /\ Cardinality(B[x]) \in Nat
      BY FS_CardinalityType
    <2>7. IsFiniteSet(A \union B[x]) /\ Cardinality(A \intersect B[x]) = 0
      BY <2>4, <2>5, <2>6, FS_Union, FS_EmptySet
    <2>8. Cardinality(A \union B[x]) = Cardinality(A) + Cardinality(B[x])
      <3>1. Cardinality(A \union B[x])
              = Cardinality(A) + Cardinality(B[x]) - Cardinality(A \intersect B[x])
        BY <2>5, <2>6, FS_Union
      <3> QED
        BY <2>5, <2>6, <2>7, <3>1
    <2>9. SumFunctionOnSet(F, s \union {x}) = Cardinality(A \union B[x])
      <3>1. F[x] = Cardinality(B[x])
        OBVIOUS
      <3> QED
        BY <2>2, <2>5, <2>6, <2>8, <3>1
    <2>10. All(s \union {x}) = A \union B[x]
      BY <2>4
    <2> HIDE DEF All
    <2> QED
      BY <2>7, <2>9, <2>10
  <1> HIDE DEF W
  <1>3. \A s \in SUBSET S : s \in W
    BY <1>1, <1>2, EverySubset
  <1> QED
    BY <1>3 DEF W, Together

\* The sum of terms that are n times others.
LEMMA SumTimes ==
  ASSUME NEW n \in Nat, NEW F, NEW G, NEW S, IsFiniteSet(S),
         \A x \in S : F[x] \in Nat /\ G[x] = n * F[x]
  PROVE  SumFunctionOnSet(G, S) = n * SumFunctionOnSet(F, S)
  <1> DEFINE W == {s \in SUBSET S : SumFunctionOnSet(G, s) = n * SumFunctionOnSet(F, s)}
  <1>0. \A x \in S : G[x] \in Nat
    OBVIOUS
  <1>1. {} \in W
    <2>1. SumFunctionOnSet(F, {}) = 0 /\ SumFunctionOnSet(G, {}) = 0
      BY SumFacts, FS_EmptySet
    <2> QED
      BY <2>1
  <1>2. ASSUME NEW s \in SUBSET S, NEW x \in S \ s, s \in W PROVE s \union {x} \in W
    <2>1. IsFiniteSet(s) /\ \A y \in s \union {x} : F[y] \in Nat /\ G[y] \in Nat
      BY <1>0, FS_Subset
    <2>2. /\ SumFunctionOnSet(F, s \union {x}) = F[x] + SumFunctionOnSet(F, s)
          /\ SumFunctionOnSet(F, s) \in Nat
      BY <2>1, SumWith
    <2>3. SumFunctionOnSet(G, s \union {x}) = G[x] + SumFunctionOnSet(G, s)
      BY <2>1, SumWith
    <2>4. PICK a, b \in Nat : a = F[x] /\ b = SumFunctionOnSet(F, s)
      BY <2>1, <2>2
    <2>5. n * (a + b) = n * a + n * b
      OBVIOUS
    <2>6. G[x] = n * a /\ SumFunctionOnSet(G, s) = n * b
      BY <1>2, <2>4
    <2> QED
      BY <2>2, <2>3, <2>4, <2>5, <2>6
  <1> HIDE DEF W
  <1>3. \A s \in SUBSET S : s \in W
    BY <1>1, <1>2, EverySubset
  <1> QED
    BY <1>3 DEF W

\* The sum of terms that others bound.
LEMMA SumAtMost ==
  ASSUME NEW F, NEW G, NEW S, IsFiniteSet(S),
         \A x \in S : F[x] \in Nat /\ G[x] \in Nat /\ F[x] <= G[x]
  PROVE  SumFunctionOnSet(F, S) <= SumFunctionOnSet(G, S)
  <1> DEFINE W == {s \in SUBSET S : SumFunctionOnSet(F, s) <= SumFunctionOnSet(G, s)}
  <1>1. {} \in W
    <2>1. SumFunctionOnSet(F, {}) = 0 /\ SumFunctionOnSet(G, {}) = 0
      BY SumFacts, FS_EmptySet
    <2> QED
      BY <2>1
  <1>2. ASSUME NEW s \in SUBSET S, NEW x \in S \ s, s \in W PROVE s \union {x} \in W
    <2>1. IsFiniteSet(s) /\ \A y \in s \union {x} : y \in S
      BY FS_Subset
    <2>2. /\ SumFunctionOnSet(F, s \union {x}) = F[x] + SumFunctionOnSet(F, s)
          /\ SumFunctionOnSet(F, s) \in Nat
      BY <2>1, SumWith
    <2>3. /\ SumFunctionOnSet(G, s \union {x}) = G[x] + SumFunctionOnSet(G, s)
          /\ SumFunctionOnSet(G, s) \in Nat
      BY <2>1, SumWith
    <2>4. F[x] \in Nat /\ G[x] \in Nat /\ F[x] <= G[x]
      OBVIOUS
    <2> QED
      BY <1>2, <2>2, <2>3, <2>4
  <1> HIDE DEF W
  <1>3. \A s \in SUBSET S : s \in W
    BY <1>1, <1>2, EverySubset
  <1> QED
    BY <1>3 DEF W

=============================================================================
