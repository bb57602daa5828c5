--------------------------- MODULE HostDataProofs ---------------------------
(***************************************************************************)
(* Proofs about HostData: no byte is lost or repeated between the queue of *)
(* the source and the destination, the arbiter's demand covers the queue,  *)
(* and a flow is finished when its bytes are there.                        *)
(***************************************************************************)
EXTENDS HostData, FiniteFacts, SequenceTheorems

(***************************************************************************)
(* Segments that tile a range of bytes.                                    *)
(***************************************************************************)
In(b, x) == x.begin <= b /\ b < x.begin + x.size

Tiles(X, a, c) ==
  /\ \A x \in X : /\ x.begin \in Nat /\ x.size \in Nat \ {0}
                  /\ a <= x.begin /\ x.begin + x.size <= c
  /\ \A b \in Nat : a <= b /\ b < c => \E x \in X : In(b, x)
  /\ \A x, y \in X : \A b \in Nat : In(b, x) /\ In(b, y) => x = y

LEMMA TilesFinite ==
  ASSUME NEW a \in Nat, NEW c \in Nat, NEW X, Tiles(X, a, c)
  PROVE  IsFiniteSet(X)
  <1>1. PICK F : F = [x \in X |-> x.begin]
    OBVIOUS
  <1>2. F \in Injection(X, 0 .. c)
    <2>1. F \in [X -> 0 .. c]
      <3>1. \A x \in X : x.begin \in 0 .. c
        BY DEF Tiles
      <3> QED
        BY <1>1, <3>1
    <2>2. \A x, y \in X : F[x] = F[y] => x = y
      <3> SUFFICES ASSUME NEW x \in X, NEW y \in X, x.begin = y.begin PROVE x = y
        BY <1>1
      <3>1. x.begin \in Nat /\ In(x.begin, x) /\ In(x.begin, y)
        BY DEF Tiles, In
      <3> QED
        BY <3>1 DEF Tiles
    <2> QED
      BY <2>1, <2>2 DEF Injection, IsInjective
  <1>3. IsFiniteSet(0 .. c)
    BY FS_Interval
  <1> QED
    BY <1>2, <1>3, FS_Injection

LEMMA RangeSize ==
  ASSUME NEW a \in Nat, NEW n \in Nat
  PROVE  IsFiniteSet(a .. a + n - 1) /\ Cardinality(a .. a + n - 1) = n
  <1>1. PICK k : k = a + n - 1
    OBVIOUS
  <1>2. k \in Int /\ a \in Int /\ (a > k <=> n = 0) /\ k - a + 1 = n
    BY <1>1
  <1>3. IsFiniteSet(a .. k) /\ Cardinality(a .. k) = IF a > k THEN 0 ELSE k - a + 1
    BY <1>2, FS_Interval
  <1> QED
    BY <1>1, <1>2, <1>3

\* As many bytes as the range has.
LEMMA TilesBytes ==
  ASSUME NEW a \in Nat, NEW c \in Nat, a <= c, NEW X, Tiles(X, a, c)
  PROVE  IsFiniteSet(X) /\ Bytes(X) = c - a
  <1> DEFINE B == [x \in X |-> x.begin .. x.begin + x.size - 1]
             F == [x \in X |-> x.size]
  <1>1. IsFiniteSet(X)
    BY TilesFinite
  <1>2. ASSUME NEW x \in X PROVE IsFiniteSet(B[x]) /\ F[x] = Cardinality(B[x])
    <2>1. x.begin \in Nat /\ x.size \in Nat \ {0}
      BY DEF Tiles
    <2> QED
      BY <2>1, RangeSize
  <1>3. ASSUME NEW x \in X, NEW y \in X, x # y PROVE B[x] \intersect B[y] = {}
    <2> SUFFICES ASSUME NEW b \in B[x], b \in B[y] PROVE FALSE
      OBVIOUS
    <2>1. x.begin \in Nat /\ x.size \in Nat /\ y.begin \in Nat /\ y.size \in Nat
      BY DEF Tiles
    <2>2. b \in Nat /\ In(b, x) /\ In(b, y)
      BY <2>1 DEF In
    <2> QED
      BY <1>3, <2>2 DEF Tiles
  <1>4. UNION {B[x] : x \in X} = a .. c - 1
    <2>1. ASSUME NEW x \in X, NEW b \in B[x] PROVE b \in a .. c - 1
      <3>1. /\ x.begin \in Nat /\ x.size \in Nat
            /\ a <= x.begin /\ x.begin + x.size <= c
        BY DEF Tiles
      <3> QED
        BY <3>1
    <2>2. ASSUME NEW b \in a .. c - 1 PROVE \E x \in X : b \in B[x]
      <3>1. PICK x \in X : In(b, x)
        BY DEF Tiles
      <3>2. x.begin \in Nat /\ x.size \in Nat
        BY DEF Tiles
      <3> QED
        BY <3>1, <3>2 DEF In
    <2> QED
      BY <2>1, <2>2
  <1>5. Cardinality(a .. c - 1) = c - a
    <2>1. c - a \in Nat /\ a + (c - a) - 1 = c - 1
      OBVIOUS
    <2>2. Cardinality(a .. a + (c - a) - 1) = c - a
      BY <2>1, RangeSize
    <2> QED
      BY <2>1, <2>2
  <1> HIDE DEF B, F
  <1>6. SumFunctionOnSet(F, X) = Cardinality(Together(B, X))
    <2>1. \A x \in X : IsFiniteSet(B[x]) /\ F[x] = Cardinality(B[x])
      BY <1>2
    <2>2. \A x, y \in X : x # y => B[x] \intersect B[y] = {}
      BY <1>3
    <2>3. Parts(B, F, X)
      BY <2>1, <2>2 DEF Parts
    <2> QED
      BY <1>1, <2>3, SumOfSizes
  <1> QED
    BY <1>1, <1>4, <1>5, <1>6 DEF F, Bytes, Together

LEMMA TilesJoin ==
  ASSUME NEW a \in Nat, NEW b \in Nat, NEW c \in Nat, a <= b, b <= c,
         NEW X, Tiles(X, a, b), NEW Y, Tiles(Y, b, c)
  PROVE  Tiles(X \union Y, a, c)
  <1>1. \A x \in X : /\ x.begin \in Nat /\ x.size \in Nat \ {0}
                     /\ a <= x.begin /\ x.begin + x.size <= b
    BY DEF Tiles
  <1>2. \A x \in Y : /\ x.begin \in Nat /\ x.size \in Nat \ {0}
                     /\ b <= x.begin /\ x.begin + x.size <= c
    BY DEF Tiles
  <1>3. ASSUME NEW x \in X \union Y
        PROVE  /\ x.begin \in Nat /\ x.size \in Nat \ {0}
               /\ a <= x.begin /\ x.begin + x.size <= c
    BY <1>1, <1>2
  <1>4. ASSUME NEW n \in Nat, a <= n, n < c PROVE \E x \in X \union Y : In(n, x)
    <2>1. n < b \/ b <= n
      OBVIOUS
    <2> QED
      BY <1>4, <2>1 DEF Tiles
  <1>5. ASSUME NEW x \in X, NEW y \in Y, NEW n \in Nat, In(n, x), In(n, y) PROVE FALSE
    BY <1>1, <1>2, <1>5 DEF In
  <1>6. \A x, y \in X : \A n \in Nat : In(n, x) /\ In(n, y) => x = y
    BY DEF Tiles
  <1>7. \A x, y \in Y : \A n \in Nat : In(n, x) /\ In(n, y) => x = y
    BY DEF Tiles
  <1>8. ASSUME NEW x \in X \union Y, NEW y \in X \union Y, NEW n \in Nat, In(n, x), In(n, y)
        PROVE  x = y
    BY <1>5, <1>6, <1>7, <1>8
  <1> QED
    BY <1>3, <1>4, <1>8 DEF Tiles

\* The flow of a segment is no matter.
Bare(X) == {[begin |-> x.begin, size |-> x.size] : x \in X}

LEMMA TilesBare ==
  ASSUME NEW a \in Nat, NEW c \in Nat, NEW X, Tiles(X, a, c)
  PROVE  Tiles(Bare(X), a, c) /\ Bare(X) \subseteq Segments
  <1>1. \A x \in X : /\ x.begin \in Nat /\ x.size \in Nat \ {0}
                     /\ a <= x.begin /\ x.begin + x.size <= c
    BY DEF Tiles
  <1>2. \A z \in Bare(X) : \E x \in X :
          /\ z.begin = x.begin /\ z.size = x.size
          /\ z = [begin |-> x.begin, size |-> x.size]
    BY DEF Bare
  <1>3. ASSUME NEW n \in Nat, a <= n, n < c PROVE \E z \in Bare(X) : In(n, z)
    <2>1. PICK x \in X : In(n, x)
      BY <1>3 DEF Tiles
    <2>2. [begin |-> x.begin, size |-> x.size] \in Bare(X)
      BY DEF Bare
    <2> QED
      BY <2>1, <2>2 DEF In
  <1>4. ASSUME NEW y \in Bare(X), NEW z \in Bare(X), NEW n \in Nat, In(n, y), In(n, z)
        PROVE  y = z
    <2>1. PICK u \in X : /\ y.begin = u.begin /\ y.size = u.size
                         /\ y = [begin |-> u.begin, size |-> u.size]
      BY <1>2
    <2>2. PICK v \in X : /\ z.begin = v.begin /\ z.size = v.size
                         /\ z = [begin |-> v.begin, size |-> v.size]
      BY <1>2
    <2>3. In(n, u) /\ In(n, v)
      BY <1>4, <2>1, <2>2 DEF In
    <2>4. u = v
      BY <2>3 DEF Tiles
    <2> QED
      BY <2>1, <2>2, <2>4
  <1>5. \A z \in Bare(X) : /\ z.begin \in Nat /\ z.size \in Nat \ {0}
                           /\ a <= z.begin /\ z.begin + z.size <= c
    BY <1>1, <1>2
  <1>6. Bare(X) \subseteq Segments
    BY <1>1 DEF Bare, Segments
  <1> QED
    BY <1>3, <1>4, <1>5, <1>6 DEF Tiles

(***************************************************************************)
(* The queue as a line of bytes.                                           *)
(***************************************************************************)
Entries == [flow : Flow, remaining : Nat \ {0}]

LEMMA EndFacts ==
  ASSUME NEW Q \in Seq(Entries)
  PROVE  /\ End(Q)[0] = 0
         /\ \A j \in 0 .. Len(Q) : End(Q)[j] \in Nat
         /\ \A j \in 1 .. Len(Q) : End(Q)[j] = End(Q)[j - 1] + Q[j].remaining
  <1> DEFINE Upto(h, n) == h = [j \in 0 .. n |-> IF j = 0 THEN 0 ELSE h[j - 1] + Q[j].remaining]
             N == {n \in Nat : \E h : Upto(h, n)}
  <1>1. 0 \in N
    <2>1. Upto([j \in 0 .. 0 |-> 0], 0)
      OBVIOUS
    <2> QED
      BY <2>1
  <1>2. ASSUME NEW n \in Nat, n \in N PROVE n + 1 \in N
    <2>1. PICK h : Upto(h, n)
      BY <1>2
    <2> DEFINE g == [j \in 0 .. n + 1 |-> IF j = 0 THEN 0 ELSE h[j - 1] + Q[j].remaining]
    <2>2. \A j \in 0 .. n : g[j] = h[j]
      BY <2>1
    <2>3. \A j \in 0 .. n + 1 : j # 0 => j - 1 \in 0 .. n
      OBVIOUS
    <2>4. \A j \in 0 .. n + 1 : j # 0 => h[j - 1] = g[j - 1]
      BY <2>2, <2>3
    <2>5. g = [j \in 0 .. n + 1 |-> IF j = 0 THEN 0 ELSE g[j - 1] + Q[j].remaining]
      <3> DEFINE k == [j \in 0 .. n + 1 |-> IF j = 0 THEN 0 ELSE g[j - 1] + Q[j].remaining]
      <3>1. \A j \in 0 .. n + 1 : g[j] = k[j]
        BY <2>4
      <3> QED
        BY <3>1
    <2>6. Upto(g, n + 1)
      BY <2>5
    <2> HIDE DEF g, Upto
    <2> QED
      BY <2>6
  <1>3. Len(Q) \in Nat
    OBVIOUS
  <1>4. Upto(End(Q), Len(Q))
    <2>1. Len(Q) \in N
      <3> HIDE DEF N
      <3> QED
        BY <1>1, <1>2, <1>3, EveryNatural
    <2> QED
      BY <2>1 DEF End
  <1>5. /\ End(Q)[0] = 0
        /\ \A j \in 1 .. Len(Q) : End(Q)[j] = End(Q)[j - 1] + Q[j].remaining
    <2>1. \A j \in 0 .. Len(Q) : End(Q)[j] = IF j = 0 THEN 0 ELSE End(Q)[j - 1] + Q[j].remaining
      BY <1>4
    <2> HIDE DEF Upto, N
    <2> QED
      BY <1>3, <2>1
  <1>6. \A j \in 0 .. Len(Q) : End(Q)[j] \in Nat
    <2> DEFINE M == {n \in Nat : n <= Len(Q) => End(Q)[n] \in Nat}
    <2>1. 0 \in M
      BY <1>5
    <2>2. ASSUME NEW n \in Nat, n \in M PROVE n + 1 \in M
      <3> SUFFICES ASSUME n + 1 <= Len(Q) PROVE End(Q)[n + 1] \in Nat
        OBVIOUS
      <3>1. n + 1 \in 1 .. Len(Q) /\ End(Q)[n] \in Nat /\ (n + 1) - 1 = n
        BY <1>3, <2>2
      <3>2. Q[n + 1] \in Entries
        BY <3>1
      <3>3. Q[n + 1].remaining \in Nat
        BY <3>2 DEF Entries
      <3> QED
        BY <1>5, <3>1, <3>3
    <2> HIDE DEF M
    <2>3. \A n \in Nat : n \in M
      BY <2>1, <2>2, EveryNatural
    <2> QED
      BY <1>3, <2>3 DEF M
  <1> QED
    BY <1>5, <1>6

LEMMA EndGrows ==
  ASSUME NEW Q \in Seq(Entries), NEW i \in 0 .. Len(Q), NEW j \in 0 .. Len(Q), i < j
  PROVE  End(Q)[i] < End(Q)[j]
  <1> DEFINE M == {n \in Nat : i < n /\ n <= Len(Q) => End(Q)[i] < End(Q)[n]}
  <1>1. Len(Q) \in Nat
    OBVIOUS
  <1>2. 0 \in M
    OBVIOUS
  <1>3. ASSUME NEW n \in Nat, n \in M PROVE n + 1 \in M
    <2> SUFFICES ASSUME i < n + 1, n + 1 <= Len(Q) PROVE End(Q)[i] < End(Q)[n + 1]
      OBVIOUS
    <2>1. n + 1 \in 1 .. Len(Q) /\ n \in 0 .. Len(Q) /\ (n + 1) - 1 = n
      BY <1>1
    <2>2. Q[n + 1] \in Entries
      BY <2>1
    <2>3. Q[n + 1].remaining \in Nat /\ Q[n + 1].remaining > 0
      BY <2>2 DEF Entries
    <2>4. End(Q)[n + 1] = End(Q)[n] + Q[n + 1].remaining
      BY <2>1, EndFacts
    <2>5. End(Q)[i] \in Nat /\ End(Q)[n] \in Nat
      BY <2>1, EndFacts
    <2>6. i = n \/ i < n
      OBVIOUS
    <2> QED
      BY <1>3, <2>1, <2>3, <2>4, <2>5, <2>6
  <1> HIDE DEF M
  <1>4. \A n \in Nat : n \in M
    BY <1>2, <1>3, EveryNatural
  <1> QED
    BY <1>1, <1>4 DEF M

\* Every byte of the line is in an entry.
LEMMA EntryOfByte ==
  ASSUME NEW Q \in Seq(Entries), NEW b \in Nat, b < End(Q)[Len(Q)]
  PROVE  \E j \in 1 .. Len(Q) : End(Q)[j - 1] <= b /\ b < End(Q)[j]
  <1> DEFINE S == {j \in 0 .. Len(Q) : b < End(Q)[j]}
  <1>1. Len(Q) \in Nat /\ Len(Q) \in S /\ S \subseteq Nat
    OBVIOUS
  <1>2. PICK j \in S : \A i \in S : j <= i
    BY <1>1, LeastNatural
  <1>3. j # 0
    BY EndFacts
  <1>4. j \in 1 .. Len(Q) /\ j - 1 \in 0 .. Len(Q)
    BY <1>3
  <1>5. End(Q)[j - 1] \in Nat
    BY <1>4, EndFacts
  <1>6. ~(b < End(Q)[j - 1])
    BY <1>2, <1>4
  <1> QED
    BY <1>4, <1>5, <1>6

(***************************************************************************)
(* The packets of one slot.                                                *)
(***************************************************************************)
LEMMA Larger ==
  ASSUME NEW a \in Nat, NEW b \in Nat
  PROVE  /\ Max({a, b}) = IF a >= b THEN a ELSE b
         /\ Min({a, b}) = IF a <= b THEN a ELSE b
  <1>1. Min({a, b}) \in {a, b} /\ \A n \in {a, b} : Min({a, b}) <= n
    BY MinFacts
  <1>2. a + b \in Nat /\ {a, b} \subseteq 0 .. a + b
    OBVIOUS
  <1>3. Max({a, b}) \in {a, b} /\ \A n \in {a, b} : n <= Max({a, b})
    BY <1>2, MaxFacts
  <1> QED
    BY <1>1, <1>3

LEMMA Blocks ==
  ASSUME Mss \in Nat \ {0}, NEW i \in Nat
  PROVE  /\ i * Mss \in Nat /\ (i + 1) * Mss \in Nat
         /\ i * Mss < (i + 1) * Mss
         /\ \A k \in Nat : i < k => (i + 1) * Mss <= k * Mss
  <1>1. PICK m \in Nat \ {0} : m = Mss
    OBVIOUS
  <1>2. i * m \in Nat /\ (i + 1) * m \in Nat /\ (i + 1) * m = i * m + m
    OBVIOUS
  <1>3. ASSUME NEW k \in Nat, i < k PROVE (i + 1) * m <= k * m
    <2>1. PICK n \in Nat : k = (i + 1) + n
      <3>1. k - (i + 1) \in Nat
        BY <1>3
      <3> QED
        BY <3>1
    <2>2. k * m = (i + 1) * m + n * m /\ n * m \in Nat
      BY <2>1
    <2> QED
      BY <1>2, <2>2
  <1> QED
    BY <1>1, <1>2, <1>3

LEMMA BlockOf ==
  ASSUME Mss \in Nat \ {0}, SlotPackets \in Nat \ {0}, NEW b \in Nat, b < SlotBytes
  PROVE  \E i \in 0 .. SlotPackets - 1 : i * Mss <= b /\ b < (i + 1) * Mss
  <1>1. PICK m \in Nat \ {0} : m = Mss
    OBVIOUS
  <1>2. PICK i \in Nat : i = b \div m
    OBVIOUS
  <1>3. i * m <= b /\ b < (i + 1) * m
    <2>1. b = m * (b \div m) + (b % m) /\ 0 <= (b % m) /\ (b % m) < m
      OBVIOUS
    <2>2. b = m * i + (b % m) /\ (b % m) \in Nat
      BY <1>2, <2>1
    <2>3. m * i = i * m /\ (i + 1) * m = i * m + m
      OBVIOUS
    <2> QED
      BY <2>1, <2>2, <2>3
  <1>4. i < SlotPackets
    <2> SUFFICES ASSUME i >= SlotPackets PROVE FALSE
      BY <1>2
    <2>1. SlotPackets * m <= i * m
      <3>1. SlotPackets < i + 1
        OBVIOUS
      <3>2. SlotPackets - 1 \in Nat /\ (SlotPackets - 1) + 1 = SlotPackets
        OBVIOUS
      <3>3. ((SlotPackets - 1) + 1) * Mss <= i * Mss
        BY <3>1, <3>2, Blocks
      <3> QED
        BY <1>1, <3>2, <3>3
    <2>2. SlotBytes = SlotPackets * m
      BY <1>1 DEF SlotBytes
    <2>3. i * m \in Nat /\ SlotPackets * m \in Nat
      OBVIOUS
    <2> QED
      BY <1>3, <2>1, <2>2, <2>3
  <1> QED
    BY <1>1, <1>3, <1>4

\* Where packet i begins and ends the part it takes of a range of the line.
CutFrom(lo, i) == Max({lo, i * Mss})
CutTo(hi, i) == Min({hi, (i + 1) * Mss})

LEMMA CutFacts ==
  ASSUME Mss \in Nat \ {0}, NEW lo \in Nat, NEW hi \in Nat, NEW i \in Nat
  PROVE  /\ CutFrom(lo, i) \in Nat /\ CutTo(hi, i) \in Nat
         /\ \A b \in Nat : CutFrom(lo, i) <= b <=> lo <= b /\ i * Mss <= b
         /\ \A b \in Nat : b < CutTo(hi, i) <=> b < hi /\ b < (i + 1) * Mss
         /\ \A b \in Nat : b <= CutTo(hi, i) <=> b <= hi /\ b <= (i + 1) * Mss
         /\ lo <= CutFrom(lo, i) /\ CutTo(hi, i) <= hi /\ CutTo(hi, i) <= (i + 1) * Mss
  <1>1. PICK a \in Nat : a = i * Mss
    BY Blocks
  <1>2. PICK c \in Nat : c = (i + 1) * Mss
    BY Blocks
  <1>3. CutFrom(lo, i) = IF lo >= a THEN lo ELSE a
    BY <1>1, Larger DEF CutFrom
  <1>4. CutTo(hi, i) = IF hi <= c THEN hi ELSE c
    BY <1>2, Larger DEF CutTo
  <1> QED
    BY <1>1, <1>2, <1>3, <1>4

\* The bytes of a range, and of entry j, that a slot takes.
TakenIn(lo, hi) ==
  IF SlotBytes <= lo THEN 0 ELSE IF SlotBytes < hi THEN SlotBytes - lo ELSE hi - lo

TakenOf(Q, j) == TakenIn(End(Q)[j - 1], End(Q)[j])

Distinct(Q) == \A i, j \in 1 .. Len(Q) : Q[i].flow = Q[j].flow => i = j

OfFlow(f, P) == {x \in UNION {p.segments : p \in P} : x.flow = f}

\* The segments of entry j, packet by packet.
LEMMA SegmentsOfEntry ==
  ASSUME NEW Q \in Seq(Entries), Distinct(Q), NEW j \in 1 .. Len(Q), NEW s
  PROVE  OfFlow(Q[j].flow, PacketsOfSlot(s, Q)) =
           {Segment(Q, j, CutFrom(End(Q)[j - 1], i), CutTo(End(Q)[j], i)) :
              i \in {n \in 0 .. SlotPackets - 1 :
                       CutFrom(End(Q)[j - 1], n) < CutTo(End(Q)[j], n)}}
  <1> DEFINE Part(k, i) == Segment(Q, k, CutFrom(End(Q)[k - 1], i), CutTo(End(Q)[k], i))
             Some(k, i) == CutFrom(End(Q)[k - 1], i) < CutTo(End(Q)[k], i)
             X == OfFlow(Q[j].flow, PacketsOfSlot(s, Q))
  <1>1. \A i : get_data_packet(Q, i) = {Part(k, i) : k \in {n \in 1 .. Len(Q) : Some(n, i)}}
    BY DEF get_data_packet, CutFrom, CutTo
  <1>2. \A k, i : Part(k, i).flow = Q[k].flow
    BY DEF Segment
  <1> HIDE DEF Part, Some
  <1>3. ASSUME NEW x \in X
        PROVE  \E i \in 0 .. SlotPackets - 1 : Some(j, i) /\ x = Part(j, i)
    <2>1. PICK p \in PacketsOfSlot(s, Q) : x \in p.segments
      BY DEF OfFlow
    <2>2. PICK i \in 0 .. SlotPackets - 1 : p.segments = get_data_packet(Q, i)
      BY DEF PacketsOfSlot
    <2>3. PICK k \in 1 .. Len(Q) : Some(k, i) /\ x = Part(k, i)
      BY <1>1, <2>1, <2>2
    <2>4. x.flow = Q[j].flow
      BY DEF OfFlow
    <2>5. k = j
      BY <1>2, <2>3, <2>4 DEF Distinct
    <2> QED
      BY <2>3, <2>5
  <1>4. ASSUME NEW i \in 0 .. SlotPackets - 1, Some(j, i) PROVE Part(j, i) \in X
    <2>1. PICK p : p = [slot |-> s, index |-> i, segments |-> get_data_packet(Q, i)]
      OBVIOUS
    <2>2. p \in PacketsOfSlot(s, Q) /\ p.segments = get_data_packet(Q, i)
      BY <2>1 DEF PacketsOfSlot
    <2>3. Part(j, i) \in get_data_packet(Q, i)
      BY <1>1, <1>4
    <2> QED
      BY <1>2, <2>2, <2>3 DEF OfFlow
  <1>5. X = {Part(j, i) : i \in {n \in 0 .. SlotPackets - 1 : Some(j, n)}}
    <2> HIDE DEF X
    <2> QED
      BY <1>3, <1>4
  <1> QED
    BY <1>5 DEF Part, Some

LEMMA NoSegmentsOfOthers ==
  ASSUME NEW Q \in Seq(Entries), NEW f, \A j \in 1 .. Len(Q) : Q[j].flow # f, NEW s
  PROVE  OfFlow(f, PacketsOfSlot(s, Q)) = {}
  <1> SUFFICES ASSUME NEW x \in OfFlow(f, PacketsOfSlot(s, Q)) PROVE FALSE
    OBVIOUS
  <1>1. PICK p \in PacketsOfSlot(s, Q) : x \in p.segments
    BY DEF OfFlow
  <1>2. PICK i \in 0 .. SlotPackets - 1 : p.segments = get_data_packet(Q, i)
    BY DEF PacketsOfSlot
  <1>3. PICK k \in 1 .. Len(Q) : x.flow = Q[k].flow
    <2>1. get_data_packet(Q, i) =
            {Segment(Q, k, CutFrom(End(Q)[k - 1], i), CutTo(End(Q)[k], i)) :
               k \in {n \in 1 .. Len(Q) : CutFrom(End(Q)[n - 1], i) < CutTo(End(Q)[n], i)}}
      BY DEF get_data_packet, CutFrom, CutTo
    <2>2. \A k, u, v : Segment(Q, k, u, v).flow = Q[k].flow
      BY DEF Segment
    <2> HIDE DEF CutFrom, CutTo
    <2> QED
      BY <1>1, <1>2, <2>1, <2>2
  <1> QED
    BY <1>3 DEF OfFlow

LEMMA TakenInBounds ==
  ASSUME NEW lo \in Nat, NEW hi \in Nat, NEW r \in Nat \ {0}, hi = lo + r, SlotBytes \in Nat
  PROVE  TakenIn(lo, hi) \in 0 .. r /\ (TakenIn(lo, hi) = r <=> hi <= SlotBytes)
  BY DEF TakenIn

LEMMA TakenBounds ==
  ASSUME HostAssumption, NEW Q \in Seq(Entries), NEW j \in 1 .. Len(Q)
  PROVE  /\ TakenOf(Q, j) \in 0 .. Q[j].remaining
         /\ TakenOf(Q, j) = Q[j].remaining <=> End(Q)[j] <= SlotBytes
         /\ End(Q)[j - 1] \in Nat /\ End(Q)[j] \in Nat
         /\ End(Q)[j] = End(Q)[j - 1] + Q[j].remaining
         /\ Q[j].remaining \in Nat \ {0}
         /\ SlotBytes \in Nat \ {0}
  <1>1. Q[j] \in Entries /\ j - 1 \in 0 .. Len(Q) /\ j \in 0 .. Len(Q)
    OBVIOUS
  <1>2. Q[j].remaining \in Nat \ {0}
    BY <1>1 DEF Entries
  <1>3. End(Q)[j - 1] \in Nat /\ End(Q)[j] \in Nat
    BY <1>1, EndFacts
  <1>4. End(Q)[j] = End(Q)[j - 1] + Q[j].remaining
    BY EndFacts
  <1>5. SlotBytes \in Nat \ {0}
    <2>1. PICK m \in Nat \ {0}, n \in Nat \ {0} : m = Mss /\ n = SlotPackets
      BY DEF HostAssumption
    <2>2. m * n \in Nat \ {0}
      OBVIOUS
    <2> QED
      BY <2>1, <2>2 DEF SlotBytes
  <1> QED
    BY <1>2, <1>3, <1>4, <1>5, TakenInBounds DEF TakenOf

\* A range of the line, cut at multiples of Mss: P[i] is the segment in packet i.
Cuts(P, I, base, lo, hi) ==
  /\ I = {i \in 0 .. SlotPackets - 1 : CutFrom(lo, i) < CutTo(hi, i)}
  /\ \A i \in I : /\ P[i].begin = base + CutFrom(lo, i) - lo
                  /\ P[i].size = CutTo(hi, i) - CutFrom(lo, i)

LEMMA CutTiles ==
  ASSUME HostAssumption, SlotBytes \in Nat,
         NEW lo \in Nat, NEW hi \in Nat, lo < hi, NEW base \in Nat,
         NEW P, NEW I, Cuts(P, I, base, lo, hi)
  PROVE  Tiles({P[i] : i \in I}, base, base + TakenIn(lo, hi))
  <1> DEFINE X == {P[i] : i \in I}
  <1>1. I = {i \in 0 .. SlotPackets - 1 : CutFrom(lo, i) < CutTo(hi, i)}
    BY DEF Cuts
  <1>2. \A i \in I : /\ P[i].begin = base + CutFrom(lo, i) - lo
                     /\ P[i].size = CutTo(hi, i) - CutFrom(lo, i)
    BY DEF Cuts
  <1>4. PICK t \in Nat : t = TakenIn(lo, hi)
    BY DEF TakenIn
  <1>5. t = IF SlotBytes <= lo THEN 0 ELSE IF SlotBytes < hi THEN SlotBytes - lo ELSE hi - lo
    BY <1>4 DEF TakenIn
  <1>3. Mss \in Nat \ {0} /\ SlotPackets \in Nat \ {0}
    BY DEF HostAssumption
  <1>8. ASSUME NEW i \in I
        PROVE  /\ CutFrom(lo, i) \in Nat /\ CutTo(hi, i) \in Nat
               /\ CutFrom(lo, i) < CutTo(hi, i)
               /\ lo <= CutFrom(lo, i) /\ CutTo(hi, i) <= hi /\ CutTo(hi, i) <= SlotBytes
    <2>1. i \in Nat /\ i < SlotPackets
      BY <1>1, <1>3
    <2>2. (i + 1) * Mss <= SlotPackets * Mss
      BY <1>3, <2>1, Blocks
    <2>3. SlotPackets * Mss = SlotBytes
      BY <1>3 DEF SlotBytes
    <2>4. CutTo(hi, i) <= (i + 1) * Mss /\ (i + 1) * Mss \in Nat
      BY <1>3, <2>1, CutFacts, Blocks
    <2>5. CutFrom(lo, i) \in Nat /\ CutTo(hi, i) \in Nat
      BY <1>3, <2>1, CutFacts
    <2>6. lo <= CutFrom(lo, i) /\ CutTo(hi, i) <= hi
      BY <1>3, <2>1, CutFacts
    <2>7. CutFrom(lo, i) < CutTo(hi, i)
      BY <1>1
    <2> QED
      BY <2>2, <2>3, <2>4, <2>5, <2>6, <2>7
  <1>10. ASSUME NEW i \in I, NEW b \in Nat
         PROVE  In(b, P[i]) <=> /\ base <= b /\ lo <= (b - base) + lo
                                   /\ CutFrom(lo, i) <= (b - base) + lo
                                   /\ (b - base) + lo < CutTo(hi, i)
    <2>1. PICK u \in Nat, v \in Nat : u = CutFrom(lo, i) /\ v = CutTo(hi, i)
      BY <1>8
    <2>2. u < v /\ lo <= u
      BY <1>8, <2>1
    <2>3. P[i].begin = base + u - lo /\ P[i].size = v - u
      BY <1>2, <2>1
    <2>4. In(b, P[i]) <=> base + u - lo <= b /\ b < (base + u - lo) + (v - u)
      BY <2>3 DEF In
    <2> QED
      BY <2>1, <2>2, <2>4
  <1>7. X = {P[i] : i \in I}
    OBVIOUS
  <1> HIDE DEF X
  <1>11. ASSUME NEW x \in X
         PROVE  /\ x.begin \in Nat /\ x.size \in Nat \ {0}
                /\ base <= x.begin /\ x.begin + x.size <= base + t
    <2>1. PICK i \in I : x = P[i]
      BY <1>7
    <2>2. PICK u \in Nat, v \in Nat : u = CutFrom(lo, i) /\ v = CutTo(hi, i)
      BY <1>8
    <2>3. u < v /\ lo <= u /\ v <= hi /\ v <= SlotBytes
      BY <1>8, <2>2
    <2>4. x.begin = base + u - lo /\ x.size = v - u
      BY <1>2, <2>1, <2>2
    <2>5. v - lo <= t
      BY <1>5, <2>2, <2>3
    <2> QED
      BY <2>2, <2>3, <2>4, <2>5
  <1>12. ASSUME NEW b \in Nat, base <= b, b < base + t PROVE \E x \in X : In(b, x)
    <2>1. PICK n \in Nat : n = (b - base) + lo
      BY <1>12
    <2>2. lo <= n /\ n < hi /\ n < SlotBytes
      BY <1>5, <1>12, <2>1
    <2>3. PICK i \in 0 .. SlotPackets - 1 : i * Mss <= n /\ n < (i + 1) * Mss
      BY <1>3, <2>1, <2>2, BlockOf
    <2>4. i \in Nat
      BY <1>3
    <2>5. CutFrom(lo, i) <= n /\ n < CutTo(hi, i)
      BY <1>3, <2>1, <2>2, <2>3, <2>4, CutFacts
    <2>6. CutFrom(lo, i) \in Nat /\ CutTo(hi, i) \in Nat
      BY <1>3, <2>4, CutFacts
    <2>7. i \in I
      BY <1>1, <2>1, <2>5, <2>6
    <2>8. In(b, P[i])
      BY <1>10, <1>12, <2>1, <2>2, <2>5, <2>7
    <2> QED
      BY <1>7, <2>7, <2>8
  <1>13. ASSUME NEW x \in X, NEW y \in X, NEW b \in Nat, In(b, x), In(b, y) PROVE x = y
    <2>1. PICK i \in I, k \in I : x = P[i] /\ y = P[k]
      BY <1>7
    <2>2. base <= b
      BY <1>10, <1>13, <2>1
    <2>3. PICK n \in Nat : n = (b - base) + lo
      BY <2>2
    <2>4. i \in Nat /\ k \in Nat
      BY <1>1, <1>3
    <2>5. /\ CutFrom(lo, i) <= n /\ n < CutTo(hi, i)
          /\ CutFrom(lo, k) <= n /\ n < CutTo(hi, k)
      BY <1>10, <1>13, <2>1, <2>3
    <2>6. i * Mss <= n /\ n < (i + 1) * Mss
      BY <1>3, <2>3, <2>4, <2>5, CutFacts
    <2>7. k * Mss <= n /\ n < (k + 1) * Mss
      BY <1>3, <2>3, <2>4, <2>5, CutFacts
    <2>8. i < k => (i + 1) * Mss <= k * Mss
      BY <1>3, <2>4, Blocks
    <2>9. k < i => (k + 1) * Mss <= i * Mss
      BY <1>3, <2>4, Blocks
    <2>10. /\ i * Mss \in Nat /\ (i + 1) * Mss \in Nat
           /\ k * Mss \in Nat /\ (k + 1) * Mss \in Nat
      BY <1>3, <2>4, Blocks
    <2>11. i = k
      <3>1. PICK a \in Nat, c \in Nat, e \in Nat, g \in Nat :
              a = i * Mss /\ c = (i + 1) * Mss /\ e = k * Mss /\ g = (k + 1) * Mss
        BY <2>10
      <3> QED
        BY <2>3, <2>4, <2>6, <2>7, <2>8, <2>9, <3>1
    <2> QED
      BY <2>1, <2>11
  <1> QED
    BY <1>4, <1>11, <1>12, <1>13 DEF Tiles, X

LEMMA EntryTiles ==
  ASSUME HostAssumption, NEW Q \in Seq(Entries), Distinct(Q), NEW j \in 1 .. Len(Q), NEW s,
         next_seq_no[Q[j].flow] \in Nat
  PROVE  Tiles(OfFlow(Q[j].flow, PacketsOfSlot(s, Q)),
               next_seq_no[Q[j].flow], next_seq_no[Q[j].flow] + TakenOf(Q, j))
  <1>1. PICK base \in Nat : base = next_seq_no[Q[j].flow]
    OBVIOUS
  <1> DEFINE lo == End(Q)[j - 1]
             hi == End(Q)[j]
             I == {i \in 0 .. SlotPackets - 1 : CutFrom(lo, i) < CutTo(hi, i)}
             P == [i \in I |-> Segment(Q, j, CutFrom(lo, i), CutTo(hi, i))]
  <1>2. lo \in Nat /\ hi \in Nat
    BY TakenBounds
  <1>4. SlotBytes \in Nat /\ lo < hi
    <2>1. Q[j].remaining \in Nat \ {0} /\ hi = lo + Q[j].remaining
      BY TakenBounds
    <2> HIDE DEF lo, hi
    <2>2. lo < hi
      BY ONLY <1>2, <2>1
    <2> QED
      BY <2>2, TakenBounds
  <1>7. OfFlow(Q[j].flow, PacketsOfSlot(s, Q)) = {P[i] : i \in I}
    <2>1. OfFlow(Q[j].flow, PacketsOfSlot(s, Q)) =
            {Segment(Q, j, CutFrom(lo, i), CutTo(hi, i)) : i \in I}
      BY SegmentsOfEntry
    <2>2. \A i \in I : P[i] = Segment(Q, j, CutFrom(lo, i), CutTo(hi, i))
      OBVIOUS
    <2> HIDE DEF I, P, lo, hi
    <2> QED
      BY <2>1, <2>2
  <1>8. Cuts(P, I, base, lo, hi)
    BY <1>1 DEF Segment, Cuts
  <1>9. TakenOf(Q, j) = TakenIn(lo, hi)
    BY DEF TakenOf
  <1> HIDE DEF lo, hi, I, P
  <1>10. Tiles({P[i] : i \in I}, base, base + TakenIn(lo, hi))
    BY <1>1, <1>2, <1>4, <1>8, CutTiles
  <1> QED
    BY <1>1, <1>7, <1>9, <1>10

(***************************************************************************)
(* What a slot takes of each flow, and what it leaves of the queue.        *)
(***************************************************************************)
LEMMA TakenFromEntry ==
  ASSUME HostAssumption, NEW Q \in Seq(Entries), Distinct(Q), NEW j \in 1 .. Len(Q), NEW s,
         next_seq_no[Q[j].flow] \in Nat
  PROVE  Taken(Q[j].flow, PacketsOfSlot(s, Q)) = TakenOf(Q, j)
  <1>1. PICK n \in Nat : n = next_seq_no[Q[j].flow]
    OBVIOUS
  <1>2. PICK t \in Nat : t = TakenOf(Q, j)
    BY TakenBounds
  <1>3. PICK X : X = OfFlow(Q[j].flow, PacketsOfSlot(s, Q))
    OBVIOUS
  <1>4. Tiles(X, n, n + t)
    BY <1>1, <1>2, <1>3, EntryTiles
  <1>5. Bytes(X) = (n + t) - n
    <2>1. n + t \in Nat /\ n <= n + t
      OBVIOUS
    <2> QED
      BY <1>4, <2>1, TilesBytes
  <1>6. Taken(Q[j].flow, PacketsOfSlot(s, Q)) = Bytes(X)
    BY <1>3 DEF Taken, OfFlow
  <1> QED
    BY <1>2, <1>5, <1>6

LEMMA NothingTaken ==
  ASSUME NEW Q \in Seq(Entries), NEW f, \A j \in 1 .. Len(Q) : Q[j].flow # f, NEW s
  PROVE  Taken(f, PacketsOfSlot(s, Q)) = 0
  <1>1. Taken(f, PacketsOfSlot(s, Q)) = Bytes(OfFlow(f, PacketsOfSlot(s, Q)))
    BY DEF Taken, OfFlow
  <1>2. Taken(f, PacketsOfSlot(s, Q)) = Bytes({})
    BY <1>1, NoSegmentsOfOthers
  <1>3. SumFunctionOnSet([x \in {} |-> x.size], {}) = 0
    BY SumFacts, FS_EmptySet
  <1> QED
    BY <1>2, <1>3 DEF Bytes

\* Entries are used up from the head of the queue.
LeftOf(Q, R) ==
  \E u \in 0 .. Len(Q) :
    /\ R \in Seq(Entries) /\ Len(R) = Len(Q) - u
    /\ \A k \in 1 .. Len(Q) - u :
         /\ R[k].flow = Q[k + u].flow
         /\ R[k].remaining = Q[k + u].remaining - TakenOf(Q, k + u)
    /\ \A j \in 1 .. u : TakenOf(Q, j) = Q[j].remaining

LEMMA RestFacts ==
  ASSUME HostAssumption, NEW Q \in Seq(Entries), Distinct(Q), NEW s,
         \A j \in 1 .. Len(Q) : next_seq_no[Q[j].flow] \in Nat
  PROVE  LeftOf(Q, Rest(Q, PacketsOfSlot(s, Q)))
  <1> DEFINE P == PacketsOfSlot(s, Q)
             left == [j \in 1 .. Len(Q) |-> [Q[j] EXCEPT !.remaining = @ - Taken(Q[j].flow, P)]]
             used == {j \in 1 .. Len(Q) : left[j].remaining = 0}
             u == Max({0} \union used)
             R == SubSeq(left, u + 1, Len(Q))
  <1>1. PICK m \in Nat : m = Len(Q)
    OBVIOUS
  <1>2. R = Rest(Q, P)
    BY DEF Rest
  <1>3. ASSUME NEW j \in 1 .. m
        PROVE  /\ left[j].flow = Q[j].flow
               /\ left[j].remaining = Q[j].remaining - TakenOf(Q, j)
               /\ left[j] = [flow |-> Q[j].flow, remaining |-> Q[j].remaining - TakenOf(Q, j)]
               /\ Q[j].flow \in Flow
    <2>1. Taken(Q[j].flow, P) = TakenOf(Q, j)
      BY <1>1, TakenFromEntry
    <2>2. Q[j] \in Entries
      BY <1>1
    <2>3. Q[j].flow \in Flow /\ Q[j] = [flow |-> Q[j].flow, remaining |-> Q[j].remaining]
      BY <2>2 DEF Entries
    <2>4. left[j] = [Q[j] EXCEPT !.remaining = @ - TakenOf(Q, j)]
      BY <1>1, <2>1
    <2> HIDE DEF P, left
    <2>5. PICK f, r : f = Q[j].flow /\ r = Q[j].remaining /\ Q[j] = [flow |-> f, remaining |-> r]
      BY <2>3
    <2>6. left[j] = [flow |-> f, remaining |-> r - TakenOf(Q, j)]
      BY <2>4, <2>5
    <2> QED
      BY <2>3, <2>5, <2>6
  <1>4. ASSUME NEW j \in 1 .. m
        PROVE  /\ TakenOf(Q, j) \in 0 .. Q[j].remaining
               /\ Q[j].remaining \in Nat
               /\ TakenOf(Q, j) = Q[j].remaining <=> End(Q)[j] <= SlotBytes
               /\ End(Q)[j] \in Nat
               /\ SlotBytes \in Nat
    BY <1>1, TakenBounds
  <1>5. used = {j \in 1 .. m : left[j].remaining = 0}
    BY <1>1
  <1>6. /\ u \in {0} \union used
        /\ \A j \in used : j <= u
    <2>1. u = Max({0} \union used)
      OBVIOUS
    <2> HIDE DEF used, left, u
    <2>2. {0} \union used \subseteq 0 .. m
      BY <1>5
    <2>3. {0} \union used # {}
      OBVIOUS
    <2>4. /\ Max({0} \union used) \in {0} \union used
          /\ \A j \in {0} \union used : j <= Max({0} \union used)
      BY <2>2, <2>3, MaxFacts
    <2> QED
      BY <2>1, <2>4
  <1>7. R = SubSeq(left, u + 1, m) /\ Len(left) = m
    BY <1>1
  <1> HIDE DEF used, left, R, P
  <1>8. ASSUME NEW j \in 1 .. m
        PROVE  j \in used <=> End(Q)[j] <= SlotBytes
    <2>1. PICK t \in Nat, r \in Nat : t = TakenOf(Q, j) /\ r = Q[j].remaining
      BY <1>4
    <2>2. left[j].remaining = 0 <=> t = r
      <3>1. left[j].remaining = r - t
        BY <1>3, <2>1
      <3> QED
        BY <3>1
    <2>3. j \in used <=> left[j].remaining = 0
      BY <1>5
    <2> QED
      BY <1>4, <2>1, <2>2, <2>3
  <1>9. ASSUME NEW j \in 1 .. m PROVE left[j] \in [flow : Flow, remaining : Nat]
    <2>1. PICK r \in Nat : r = Q[j].remaining
      BY <1>4
    <2>2. PICK t \in 0 .. r : t = TakenOf(Q, j)
      BY <1>4, <2>1
    <2>3. PICK n \in Nat : n = r - t
      OBVIOUS
    <2>4. left[j] = [flow |-> Q[j].flow, remaining |-> n] /\ Q[j].flow \in Flow
      BY <1>3, <2>1, <2>2, <2>3
    <2> QED
      BY ONLY <2>3, <2>4
  <1> HIDE DEF u
  <1>10. u \in 0 .. m
    BY <1>5, <1>6
  <1>11. ASSUME NEW j \in 1 .. u PROVE TakenOf(Q, j) = Q[j].remaining
    <2>1. u \in used /\ j \in 1 .. m /\ u \in 1 .. m
      BY <1>6, <1>10
    <2>2. End(Q)[u] <= SlotBytes
      BY <1>8, <2>1
    <2>3. j = u \/ End(Q)[j] < End(Q)[u]
      <3>1. j = u \/ j < u
        BY <1>10
      <3>2. j \in 0 .. Len(Q) /\ u \in 0 .. Len(Q)
        BY <1>1, <2>1
      <3> QED
        BY <3>1, <3>2, EndGrows
    <2>4. End(Q)[j] <= SlotBytes
      <3>1. End(Q)[j] \in Nat /\ End(Q)[u] \in Nat /\ SlotBytes \in Nat
        BY <1>4, <2>1
      <3> QED
        BY <2>2, <2>3, <3>1
    <2> QED
      BY <1>4, <2>1, <2>4
  <1>12. R = [k \in 1 .. m - u |-> left[k + u]]
    <2>1. SubSeq(left, u + 1, m) = [k \in 1 .. (1 + m - (u + 1)) |-> left[u + 1 + k - 1]]
      BY SMTT(30), <1>10
    <2>2. 1 + m - (u + 1) = m - u /\ \A k \in 1 .. m - u : u + 1 + k - 1 = k + u
      BY <1>10
    <2> QED
      BY <1>7, <2>1, <2>2
  <1>13. ASSUME NEW k \in 1 .. m - u
         PROVE  /\ k + u \in 1 .. m
                /\ R[k].flow = Q[k + u].flow
                /\ R[k].remaining = Q[k + u].remaining - TakenOf(Q, k + u)
                /\ R[k] \in Entries
    <2>1. k + u \in 1 .. m /\ k + u > u
      BY <1>10
    <2>2. R[k] = left[k + u]
      BY <1>12
    <2>3. k + u \notin used
      BY <1>6, <1>10, <2>1
    <2>4. left[k + u].remaining # 0
      BY <1>5, <2>1, <2>3
    <2>5. left[k + u] \in Entries
      <3>1. left[k + u] \in [flow : Flow, remaining : Nat]
        BY <1>9, <2>1
      <3> QED
        BY <2>4, <3>1 DEF Entries
    <2> QED
      BY <1>3, <2>1, <2>2, <2>5
  <1>14. R \in Seq(Entries) /\ Len(R) = m - u
    <2>1. m - u \in Nat
      BY <1>10
    <2>2. \A k \in 1 .. m - u : R[k] \in Entries
      BY <1>13
    <2>3. R \in [1 .. m - u -> Entries]
      BY <1>12, <2>2
    <2>4. R \in Seq(Entries)
      BY ONLY <2>1, <2>3, SeqDef
    <2>5. Len(R) \in Nat /\ DOMAIN R = 1 .. Len(R)
      BY <2>4, LenProperties
    <2>6. 1 .. Len(R) = 1 .. m - u
      BY <2>3, <2>5
    <2>7. Len(R) = m - u
      BY <2>1, <2>5, <2>6
    <2> QED
      BY <2>4, <2>7
  <1>15. P = PacketsOfSlot(s, Q)
    BY DEF P
  <1> QED
    <2>1. /\ R \in Seq(Entries) /\ Len(R) = Len(Q) - u
          /\ \A k \in 1 .. Len(Q) - u :
                /\ R[k].flow = Q[k + u].flow
                /\ R[k].remaining = Q[k + u].remaining - TakenOf(Q, k + u)
          /\ \A j \in 1 .. u : TakenOf(Q, j) = Q[j].remaining
          /\ u \in 0 .. Len(Q)
      BY <1>1, <1>10, <1>11, <1>13, <1>14
    <2>3. LeftOf(Q, R)
      BY <2>1 DEF LeftOf
    <2>2. Rest(Q, PacketsOfSlot(s, Q)) = R
      BY <1>2, <1>15
    <2> QED
      BY <2>2, <2>3

LEMMA EntriesApart ==
  ASSUME NEW Q \in Seq(Entries), NEW i \in 1 .. Len(Q), NEW j \in 1 .. Len(Q), i < j,
         NEW b \in Nat, b < End(Q)[i], End(Q)[j - 1] <= b
  PROVE  FALSE
  <1>1. i \in 0 .. Len(Q) /\ j - 1 \in 0 .. Len(Q)
    OBVIOUS
  <1>2. End(Q)[i] \in Nat /\ End(Q)[j - 1] \in Nat
    BY <1>1, EndFacts
  <1>3. i = j - 1 \/ i < j - 1
    OBVIOUS
  <1>4. i < j - 1 => End(Q)[i] < End(Q)[j - 1]
    BY <1>1, EndGrows
  <1> QED
    BY <1>2, <1>3, <1>4

LEMMA PartOfSlot ==
  ASSUME NEW w \in Nat, NEW lo \in Nat, NEW hi \in Nat, lo < hi, NEW t \in Nat,
         t = IF w <= lo THEN 0 ELSE IF w < hi THEN w - lo ELSE hi - lo
  PROVE  {b \in 0 .. w - 1 : lo <= b /\ b < hi} = lo .. lo + t - 1
  OBVIOUS

\* A queue that does not fit in the slot fills it.
LEMMA SlotIsFull ==
  ASSUME HostAssumption, NEW Q \in Seq(Entries), Distinct(Q), NEW s,
         \A j \in 1 .. Len(Q) : next_seq_no[Q[j].flow] \in Nat,
         NEW A, IsFiniteSet(A), \A j \in 1 .. Len(Q) : Q[j].flow \in A,
         SlotBytes < End(Q)[Len(Q)],
         NEW F, \A f \in A : F[f] = Taken(f, PacketsOfSlot(s, Q))
  PROVE  SumFunctionOnSet(F, A) = SlotBytes
  <1> DEFINE B == [f \in A |-> {b \in 0 .. SlotBytes - 1 :
                     \E j \in 1 .. Len(Q) :
                       Q[j].flow = f /\ End(Q)[j - 1] <= b /\ b < End(Q)[j]}]
  <1>1. PICK m \in Nat, w \in Nat : m = Len(Q) /\ w = SlotBytes
    <2>1. Len(Q) \in Nat
      OBVIOUS
    <2>2. SlotBytes \in Nat
      <3>1. PICK x \in Nat \ {0}, y \in Nat \ {0} : x = Mss /\ y = SlotPackets
        BY DEF HostAssumption
      <3>2. x * y \in Nat
        OBVIOUS
      <3> QED
        BY <3>1, <3>2 DEF SlotBytes
    <2> QED
      BY <2>1, <2>2
  <1>2. ASSUME NEW j \in 1 .. m
        PROVE  /\ End(Q)[j - 1] \in Nat /\ End(Q)[j] \in Nat
               /\ TakenOf(Q, j) \in Nat
               /\ TakenOf(Q, j) = TakenIn(End(Q)[j - 1], End(Q)[j])
               /\ Q[j].remaining \in Nat \ {0}
               /\ End(Q)[j] = End(Q)[j - 1] + Q[j].remaining
    <2>1. j \in 1 .. Len(Q)
      BY <1>1
    <2>2. /\ TakenOf(Q, j) \in 0 .. Q[j].remaining
          /\ End(Q)[j - 1] \in Nat /\ End(Q)[j] \in Nat
          /\ End(Q)[j] = End(Q)[j - 1] + Q[j].remaining
          /\ Q[j].remaining \in Nat \ {0}
      BY <2>1, TakenBounds
    <2>3. TakenOf(Q, j) = TakenIn(End(Q)[j - 1], End(Q)[j])
      BY DEF TakenOf
    <2>4. TakenOf(Q, j) \in Nat
      BY ONLY <2>2
    <2> QED
      BY ONLY <2>2, <2>3, <2>4
  <1>3. ASSUME NEW j \in 1 .. m PROVE Taken(Q[j].flow, PacketsOfSlot(s, Q)) = TakenOf(Q, j)
    BY <1>1, TakenFromEntry
  <1>4. ASSUME NEW f, \A j \in 1 .. m : Q[j].flow # f
        PROVE  Taken(f, PacketsOfSlot(s, Q)) = 0
    BY <1>1, <1>4, NothingTaken
  <1>5. ASSUME NEW i \in 1 .. m, NEW j \in 1 .. m, NEW b \in Nat,
               End(Q)[i - 1] <= b, b < End(Q)[i], End(Q)[j - 1] <= b, b < End(Q)[j]
        PROVE  i = j
    <2>1. i \in 1 .. Len(Q) /\ j \in 1 .. Len(Q)
      BY <1>1
    <2>2. ~(i < j)
      BY <1>5, <2>1, EntriesApart
    <2>3. ~(j < i)
      BY <1>5, <2>1, EntriesApart
    <2>4. i \in Int /\ j \in Int
      OBVIOUS
    <2> QED
      BY ONLY <2>2, <2>3, <2>4
  <1>6. ASSUME NEW f \in A PROVE IsFiniteSet(B[f]) /\ F[f] = Cardinality(B[f])
    <2>1. CASE \E j \in 1 .. m : Q[j].flow = f
      <3>1. PICK j \in 1 .. m : Q[j].flow = f
        BY <2>1
      <3>2. PICK lo \in Nat, hi \in Nat, t \in Nat :
              lo = End(Q)[j - 1] /\ hi = End(Q)[j] /\ t = TakenOf(Q, j)
        BY <1>2
      <3>3. lo < hi
        <4>1. PICK r \in Nat \ {0} : r = Q[j].remaining
          BY <1>2
        <4>2. hi = lo + r
          BY <1>2, <3>2, <4>1
        <4> QED
          BY ONLY <4>2, lo \in Nat, hi \in Nat, r \in Nat \ {0}
      <3>4. t = IF w <= lo THEN 0 ELSE IF w < hi THEN w - lo ELSE hi - lo
        BY <1>1, <1>2, <3>2 DEF TakenIn
      <3>5. B[f] = {b \in 0 .. w - 1 : lo <= b /\ b < hi}
        <4>1. \A i \in 1 .. m : Q[i].flow = f => i = j
          BY <1>1, <3>1 DEF Distinct
        <4> QED
          BY <1>1, <3>1, <3>2, <4>1
      <3>6. B[f] = lo .. lo + t - 1
        <4>1. {b \in 0 .. w - 1 : lo <= b /\ b < hi} = lo .. lo + t - 1
          BY ONLY <3>3, <3>4, w \in Nat, lo \in Nat, hi \in Nat, t \in Nat, PartOfSlot
        <4> QED
          BY <3>5, <4>1
      <3>7. F[f] = t
        BY <1>3, <3>1, <3>2
      <3>8. IsFiniteSet(lo .. lo + t - 1) /\ Cardinality(lo .. lo + t - 1) = t
        BY RangeSize
      <3> QED
        BY <3>6, <3>7, <3>8
    <2>2. CASE \A j \in 1 .. m : Q[j].flow # f
      <3>1. B[f] = {}
        BY <1>1, <2>2
      <3>2. F[f] = 0
        BY <1>4, <2>2
      <3> QED
        BY <3>1, <3>2, FS_EmptySet
    <2> QED
      BY <2>1, <2>2
  <1>7. ASSUME NEW f \in A, NEW g \in A, f # g PROVE B[f] \intersect B[g] = {}
    <2> SUFFICES ASSUME NEW b \in B[f], b \in B[g] PROVE FALSE
      OBVIOUS
    <2>1. b \in Nat
      BY <1>1
    <2>2. PICK i \in 1 .. m : Q[i].flow = f /\ End(Q)[i - 1] <= b /\ b < End(Q)[i]
      BY <1>1
    <2>3. PICK j \in 1 .. m : Q[j].flow = g /\ End(Q)[j - 1] <= b /\ b < End(Q)[j]
      BY <1>1
    <2> QED
      BY <1>5, <1>7, <2>1, <2>2, <2>3
  <1>8. UNION {B[f] : f \in A} = 0 .. w - 1
    <2>1. ASSUME NEW b \in 0 .. w - 1 PROVE \E f \in A : b \in B[f]
      <3>1. b \in Nat /\ b < End(Q)[Len(Q)]
        <4>1. End(Q)[Len(Q)] \in Nat
          <5>1. Len(Q) \in 0 .. Len(Q)
            BY <1>1
          <5> QED
            BY <5>1, EndFacts
        <4> QED
          BY <1>1, <4>1
      <3>2. PICK j \in 1 .. Len(Q) : End(Q)[j - 1] <= b /\ b < End(Q)[j]
        BY <3>1, EntryOfByte
      <3>3. Q[j].flow \in A
        OBVIOUS
      <3> QED
        BY <1>1, <3>2, <3>3
    <2>2. \A f \in A : B[f] \subseteq 0 .. w - 1
      BY <1>1
    <2> HIDE DEF B
    <2> QED
      BY <2>1, <2>2
  <1> HIDE DEF B
  <1>9. SumFunctionOnSet(F, A) = Cardinality(Together(B, A))
    <2>0. IsFiniteSet(A)
      OBVIOUS
    <2>1. \A f \in A : IsFiniteSet(B[f]) /\ F[f] = Cardinality(B[f])
      BY <1>6
    <2>2. \A f, g \in A : f # g => B[f] \intersect B[g] = {}
      BY <1>7
    <2>3. Parts(B, F, A)
      BY ONLY <2>1, <2>2 DEF Parts
    <2> QED
      BY ONLY <2>0, <2>3, SumOfSizes
  <1>10. Cardinality(0 .. w - 1) = w
    <2>1. Cardinality(0 .. 0 + w - 1) = w
      BY RangeSize
    <2>2. 0 + w - 1 = w - 1
      OBVIOUS
    <2> QED
      BY <2>1, <2>2
  <1> QED
    BY <1>1, <1>8, <1>9, <1>10 DEF Together

LEMMA InPackets ==
  ASSUME NEW f, NEW P
  PROVE  UNION {InPacket(f, p) : p \in P} = Bare(OfFlow(f, P))
  BY DEF InPacket, OfFlow, Bare

LEMMA NoTiles ==
  ASSUME NEW n \in Nat
  PROVE  Tiles({}, n, n + 0)
  BY DEF Tiles

(***************************************************************************)
(* The inductive invariant: the segments under way and those received tile *)
(* what has been taken of a flow, and the queues hold the rest.            *)
(***************************************************************************)
FlowOK(f) ==
  /\ next_seq_no[f] \in 0 .. Size[f]
  /\ Tiles(SegmentsOf(f), 0, next_seq_no[f])
  /\ f \in flow_arrivals => next_seq_no[f] = 0 /\ f \notin rts

EntryOK(e, d) ==
  /\ e.flow \in Flow /\ e.flow \notin flow_arrivals /\ Dst[e.flow] = d
  /\ e.remaining = Size[e.flow] - next_seq_no[e.flow]

QueueOK(d) ==
  /\ Distinct(per_dst_queues[d])
  /\ \A j \in 1 .. Len(per_dst_queues[d]) : EntryOK(per_dst_queues[d][j], d)
  /\ \A f \in Flow \ flow_arrivals :
       Dst[f] = d /\ next_seq_no[f] < Size[f] =>
         \E j \in 1 .. Len(per_dst_queues[d]) : per_dst_queues[d][j].flow = f

HostInv ==
  /\ TypeOK /\ IsFiniteSet(schds)
  /\ \A f \in Flow : FlowOK(f)
  /\ \A d \in Dsts : QueueOK(d)

LEMMA QueueFacts ==
  ASSUME HostAssumption, HostInv, NEW d \in Dsts
  PROVE  /\ per_dst_queues[d] \in Seq(Entries) /\ Distinct(per_dst_queues[d])
         /\ \A j \in 1 .. Len(per_dst_queues[d]) :
              /\ EntryOK(per_dst_queues[d][j], d)
              /\ next_seq_no[per_dst_queues[d][j].flow] \in Nat
         /\ \A f \in Flow : next_seq_no[f] \in Nat /\ Size[f] \in Nat \ {0} /\ next_seq_no[f] <= Size[f]
  <1>1. per_dst_queues[d] \in Seq(Entries)
    BY DEF HostInv, TypeOK, Entries
  <1>2. \A f \in Flow : next_seq_no[f] \in Nat /\ Size[f] \in Nat \ {0} /\ next_seq_no[f] <= Size[f]
    BY DEF HostInv, TypeOK, HostAssumption, FlowOK
  <1>3. QueueOK(d)
    BY DEF HostInv
  <1> QED
    BY <1>1, <1>2, <1>3 DEF QueueOK, EntryOK

\* What a slot takes of any flow.
LEMMA TakenOfFlow ==
  ASSUME HostAssumption, HostInv, NEW d \in Dsts, NEW s, NEW f \in Flow
  PROVE  LET P == PacketsOfSlot(s, per_dst_queues[d])
         IN /\ Taken(f, P) \in 0 .. Size[f] - next_seq_no[f]
            /\ Tiles(OfFlow(f, P), next_seq_no[f], next_seq_no[f] + Taken(f, P))
            /\ Dst[f] # d \/ f \in flow_arrivals => Taken(f, P) = 0
  <1> DEFINE Q == per_dst_queues[d]
             P == PacketsOfSlot(s, Q)
  <1>1. /\ Q \in Seq(Entries) /\ Distinct(Q)
        /\ \A j \in 1 .. Len(Q) : EntryOK(Q[j], d) /\ next_seq_no[Q[j].flow] \in Nat
        /\ next_seq_no[f] \in Nat /\ Size[f] \in Nat /\ next_seq_no[f] <= Size[f]
    BY QueueFacts
  <1>2. CASE \A j \in 1 .. Len(Q) : Q[j].flow # f
    <2>1. Taken(f, P) = 0
      BY <1>1, <1>2, NothingTaken
    <2>2. OfFlow(f, P) = {}
      BY <1>1, <1>2, NoSegmentsOfOthers
    <2>3. Tiles({}, next_seq_no[f], next_seq_no[f] + 0)
      BY <1>1, NoTiles
    <2> HIDE DEF P
    <2> QED
      BY <1>1, <2>1, <2>2, <2>3 DEF P
  <1>3. CASE \E j \in 1 .. Len(Q) : Q[j].flow = f
    <2>1. PICK j \in 1 .. Len(Q) : Q[j].flow = f
      BY <1>3
    <2> HIDE DEF Q
    <2>2. Taken(f, P) = TakenOf(Q, j)
      BY <1>1, <2>1, TakenFromEntry
    <2>3. TakenOf(Q, j) \in 0 .. Q[j].remaining
      BY <1>1, TakenBounds
    <2>4. Q[j].remaining = Size[f] - next_seq_no[f] /\ f \notin flow_arrivals /\ Dst[f] = d
      BY <1>1, <2>1 DEF EntryOK
    <2>5. Tiles(OfFlow(f, P), next_seq_no[f], next_seq_no[f] + Taken(f, P))
      BY <1>1, <2>1, <2>2, EntryTiles
    <2> HIDE DEF P
    <2> QED
      BY <2>2, <2>3, <2>4, <2>5 DEF P, Q
  <1> QED
    BY <1>2, <1>3

(***************************************************************************)
(* Receiving a schedule keeps the invariant.                               *)
(***************************************************************************)
LEMMA SchdMoves ==
  ASSUME HostAssumption, HostInv, NEW g \in schds, ReceiveSchd(g)
  PROVE  LET P == PacketsOfSlot(g.slot, per_dst_queues[g.dst])
         IN \A f \in Flow :
              /\ Taken(f, P) \in 0 .. Size[f] - next_seq_no[f]
              /\ next_seq_no'[f] = next_seq_no[f] + Taken(f, P)
              /\ SegmentsOf(f)' = SegmentsOf(f) \union Bare(OfFlow(f, P))
              /\ Tiles(Bare(OfFlow(f, P)), next_seq_no[f], next_seq_no'[f])
              /\ Bare(OfFlow(f, P)) \subseteq Segments
              /\ Dst[f] # g.dst \/ f \in flow_arrivals => Taken(f, P) = 0
  <1> DEFINE P == PacketsOfSlot(g.slot, per_dst_queues[g.dst])
  <1>1. g.dst \in Dsts
    BY DEF HostInv, TypeOK
  <1>2. ASSUME NEW f \in Flow
        PROVE  /\ Taken(f, P) \in 0 .. Size[f] - next_seq_no[f]
               /\ Tiles(OfFlow(f, P), next_seq_no[f], next_seq_no[f] + Taken(f, P))
               /\ Dst[f] # g.dst \/ f \in flow_arrivals => Taken(f, P) = 0
               /\ next_seq_no[f] \in Nat
    BY <1>1, TakenOfFlow, QueueFacts
  <1>3. /\ wire' = wire \union P
        /\ next_seq_no' = [f \in Flow |-> next_seq_no[f] + Taken(f, P)]
        /\ received_seqs' = received_seqs
    BY DEF ReceiveSchd, receiver
  <1> HIDE DEF P
  <1>4. ASSUME NEW f \in Flow PROVE SegmentsOf(f)' = SegmentsOf(f) \union Bare(OfFlow(f, P))
    <2>1. SegmentsOf(f)' = received_seqs[f] \union UNION {InPacket(f, p) : p \in wire \union P}
      BY <1>3 DEF SegmentsOf, InPacket
    <2>2. UNION {InPacket(f, p) : p \in wire \union P} =
            (UNION {InPacket(f, p) : p \in wire}) \union UNION {InPacket(f, p) : p \in P}
      OBVIOUS
    <2> QED
      BY <2>1, <2>2, InPackets DEF SegmentsOf
  <1>5. ASSUME NEW f \in Flow
        PROVE  /\ next_seq_no'[f] = next_seq_no[f] + Taken(f, P)
               /\ Tiles(Bare(OfFlow(f, P)), next_seq_no[f], next_seq_no'[f])
               /\ Bare(OfFlow(f, P)) \subseteq Segments
    <2>1. PICK n \in Nat, t \in Nat : n = next_seq_no[f] /\ t = Taken(f, P)
      BY <1>2
    <2>2. next_seq_no'[f] = n + t /\ n + t \in Nat
      BY <1>3, <2>1
    <2>3. Tiles(OfFlow(f, P), n, n + t)
      BY <1>2, <2>1
    <2> QED
      BY <2>1, <2>2, <2>3, TilesBare
  <1> QED
    BY <1>2, <1>4, <1>5 DEF P

LEMMA SchdFlows ==
  ASSUME HostAssumption, HostInv, NEW g \in schds, ReceiveSchd(g), NEW f \in Flow
  PROVE  FlowOK(f)'
  <1>1. PICK X : /\ SegmentsOf(f)' = SegmentsOf(f) \union X
                 /\ Tiles(X, next_seq_no[f], next_seq_no'[f])
    BY SchdMoves
  <1>2. PICK t \in 0 .. Size[f] - next_seq_no[f] :
               /\ next_seq_no'[f] = next_seq_no[f] + t
               /\ f \in flow_arrivals => t = 0
    BY SchdMoves
  <1>3. FlowOK(f)
    BY DEF HostInv
  <1>4. PICK n \in Nat, m \in Nat : n = next_seq_no[f] /\ m = Size[f] /\ n <= m
    BY QueueFacts DEF HostInv, TypeOK, HostAssumption, FlowOK
  <1>5. next_seq_no'[f] \in 0 .. m /\ n <= next_seq_no'[f]
    BY <1>2, <1>4
  <1>6. Tiles(SegmentsOf(f)', 0, next_seq_no'[f])
    <2>1. Tiles(SegmentsOf(f), 0, n)
      BY <1>3, <1>4 DEF FlowOK
    <2>2. Tiles(X, n, next_seq_no'[f])
      BY <1>1, <1>4
    <2>3. next_seq_no'[f] \in Nat /\ 0 <= n
      BY <1>5
    <2> QED
      BY <1>1, <1>5, <2>1, <2>2, <2>3, TilesJoin
  <1>7. rts' = rts /\ flow_arrivals' = flow_arrivals
    BY DEF ReceiveSchd
  <1>8. f \in flow_arrivals => next_seq_no'[f] = 0
    BY <1>2, <1>3 DEF FlowOK
  <1> QED
    BY <1>3, <1>4, <1>5, <1>6, <1>7, <1>8 DEF FlowOK

LEMMA SchdQueue ==
  ASSUME HostAssumption, HostInv, NEW g \in schds, ReceiveSchd(g)
  PROVE  /\ QueueOK(g.dst)'
         /\ per_dst_queues'[g.dst] \in Seq(Entries)
  <1> DEFINE d == g.dst
             Q == per_dst_queues[d]
             P == PacketsOfSlot(g.slot, Q)
             R == Rest(Q, P)
  <1>1. d \in Dsts
    BY DEF HostInv, TypeOK
  <1>2. /\ Q \in Seq(Entries) /\ Distinct(Q)
        /\ \A j \in 1 .. Len(Q) : EntryOK(Q[j], d) /\ next_seq_no[Q[j].flow] \in Nat
        /\ \A f \in Flow : next_seq_no[f] \in Nat /\ Size[f] \in Nat /\ next_seq_no[f] <= Size[f]
    BY <1>1, QueueFacts
  <1>3. per_dst_queues'[d] = R /\ flow_arrivals' = flow_arrivals
    BY <1>1 DEF ReceiveSchd, HostInv, TypeOK
  <1>4. \A f \in Flow : next_seq_no'[f] = next_seq_no[f] + Taken(f, P)
    BY SchdMoves
  <1>5. \A j \in 1 .. Len(Q) : Taken(Q[j].flow, P) = TakenOf(Q, j)
    BY <1>2, TakenFromEntry
  <1>6. PICK u \in 0 .. Len(Q) :
           /\ R \in Seq(Entries)
           /\ Len(R) = Len(Q) - u
           /\ \A k \in 1 .. Len(Q) - u :
                /\ R[k].flow = Q[k + u].flow
                /\ R[k].remaining = Q[k + u].remaining - TakenOf(Q, k + u)
           /\ \A j \in 1 .. u : TakenOf(Q, j) = Q[j].remaining
    <2>1. LeftOf(Q, Rest(Q, P))
      BY <1>2, RestFacts
    <2> HIDE DEF Q
    <2> QED
      BY <2>1 DEF LeftOf
  <1>7. PICK m \in Nat : m = Len(Q) /\ u \in 0 .. m
    <2>1. Len(Q) \in Nat
      BY <1>2
    <2> QED
      BY ONLY <2>1, u \in 0 .. Len(Q)
  <1>8. \A j \in 1 .. m : TakenOf(Q, j) \in Nat /\ Q[j].remaining \in Nat
    BY SMTT(30), <1>2, <1>7, TakenBounds
  <1>9. QueueOK(d)
    BY <1>1 DEF HostInv
  <1> HIDE DEF R, P, Q, d
  <1>10. \A k \in 1 .. m - u : k + u \in 1 .. m
    BY <1>7
  <1>11. Distinct(R)
    <2> SUFFICES ASSUME NEW i \in 1 .. m - u, NEW j \in 1 .. m - u, R[i].flow = R[j].flow
                 PROVE  i = j
      BY <1>6, <1>7 DEF Distinct
    <2>1. Q[i + u].flow = Q[j + u].flow
      BY <1>6, <1>7
    <2>2. i + u = j + u
      BY <1>2, <1>7, <1>10, <2>1 DEF Distinct
    <2> QED
      BY <1>7, <2>2
  <1>12. ASSUME NEW k \in 1 .. m - u
         PROVE  /\ R[k].flow \in Flow /\ R[k].flow \notin flow_arrivals /\ Dst[R[k].flow] = d
                /\ R[k].remaining = Size[R[k].flow] - next_seq_no'[R[k].flow]
    <2>1. PICK j \in 1 .. m : j = k + u
      BY <1>10
    <2>2. R[k].flow = Q[j].flow /\ R[k].remaining = Q[j].remaining - TakenOf(Q, j)
      BY <1>6, <1>7, <2>1
    <2>3. EntryOK(Q[j], d)
      BY <1>2, <1>7
    <2>4. PICK f \in Flow : f = Q[j].flow
      BY <2>3 DEF EntryOK
    <2>5. next_seq_no'[f] = next_seq_no[f] + TakenOf(Q, j)
      BY <1>4, <1>5, <1>7, <2>4
    <2>6. PICK n \in Nat, z \in Nat, t \in Nat :
            n = next_seq_no[f] /\ z = Size[f] /\ t = TakenOf(Q, j)
      BY <1>2, <1>8
    <2>7. Q[j].remaining = z - n
      BY <2>3, <2>4, <2>6 DEF EntryOK
    <2>8. R[k].remaining = z - next_seq_no'[f]
      <3>1. R[k].remaining = (z - n) - t
        BY <2>2, <2>6, <2>7
      <3>2. next_seq_no'[f] = n + t
        BY <2>5, <2>6
      <3> QED
        BY ONLY <3>1, <3>2, n \in Nat, z \in Nat, t \in Nat
    <2>9. R[k].flow = f /\ Dst[f] = d /\ f \notin flow_arrivals
      BY <2>2, <2>3, <2>4 DEF EntryOK
    <2> QED
      BY <2>6, <2>8, <2>9
  <1>13. ASSUME NEW f \in Flow \ flow_arrivals, Dst[f] = d, next_seq_no'[f] < Size[f]
         PROVE  \E k \in 1 .. m - u : R[k].flow = f
    <2>1. PICK n \in Nat, z \in Nat : n = next_seq_no[f] /\ z = Size[f] /\ n <= z
      BY <1>2
    <2>2. Taken(f, P) \in Nat /\ next_seq_no'[f] = n + Taken(f, P)
      <3>1. Taken(f, P) \in 0 .. Size[f] - next_seq_no[f]
        BY SchdMoves DEF P, Q, d
      <3>2. Taken(f, P) \in Nat
        BY <2>1, <3>1
      <3>3. next_seq_no'[f] = next_seq_no[f] + Taken(f, P)
        BY <1>4
      <3> QED
        BY ONLY <2>1, <3>2, <3>3
    <2>3. n < z
      BY ONLY <1>13, <2>1, <2>2, n \in Nat, z \in Nat
    <2>4. PICK j \in 1 .. m : Q[j].flow = f
      BY <1>7, <1>9, <1>13, <2>1, <2>3 DEF QueueOK, Q
    <2>5. Taken(f, P) = TakenOf(Q, j)
      BY <1>5, <1>7, <2>4
    <2>6. Q[j].remaining = z - n
      BY <1>2, <1>7, <2>1, <2>4 DEF EntryOK
    <2>7. j > u
      <3> SUFFICES ASSUME j <= u PROVE FALSE
        BY <1>7
      <3>1. j \in 1 .. u
        BY <1>7
      <3>2. TakenOf(Q, j) = z - n
        BY <1>6, <2>6, <3>1
      <3>3. next_seq_no'[f] = n + (z - n)
        BY ONLY <2>2, <2>5, <3>2
      <3> QED
        BY ONLY <1>13, <2>1, <3>3, n \in Nat, z \in Nat
    <2>8. PICK k \in 1 .. m - u : k + u = j
      <3>1. j - u \in 1 .. m - u /\ (j - u) + u = j
        BY ONLY <1>7, <2>7, m \in Nat, j \in 1 .. m
      <3> QED
        BY <3>1
    <2>9. R[k].flow = f
      BY <1>6, <1>7, <2>4, <2>8
    <2> QED
      BY <2>9
  <1>14. QueueOK(g.dst)'
    <2>1. PICK L : L = R
      OBVIOUS
    <2>2. per_dst_queues'[g.dst] = L /\ Len(L) = m - u
      BY <1>3, <1>6, <1>7, <2>1 DEF d
    <2>3. \A k \in 1 .. m - u :
            /\ L[k].flow \in Flow /\ L[k].flow \notin flow_arrivals' /\ Dst[L[k].flow] = g.dst
            /\ L[k].remaining = Size[L[k].flow] - next_seq_no'[L[k].flow]
      BY <1>3, <1>12, <2>1 DEF d
    <2>4. \A f \in Flow \ flow_arrivals' :
            Dst[f] = g.dst /\ next_seq_no'[f] < Size[f] => \E k \in 1 .. m - u : L[k].flow = f
      BY <1>3, <1>13, <2>1 DEF d
    <2>5. \A i, j \in 1 .. m - u : L[i].flow = L[j].flow => i = j
      BY <1>6, <1>7, <1>11, <2>1 DEF Distinct
    <2>6. Distinct(per_dst_queues'[g.dst])
      BY <2>2, <2>5 DEF Distinct
    <2>7. \A k \in 1 .. Len(per_dst_queues'[g.dst]) :
            /\ per_dst_queues'[g.dst][k].flow \in Flow
            /\ per_dst_queues'[g.dst][k].flow \notin flow_arrivals'
            /\ Dst[per_dst_queues'[g.dst][k].flow] = g.dst
            /\ per_dst_queues'[g.dst][k].remaining =
                 Size[per_dst_queues'[g.dst][k].flow] - next_seq_no'[per_dst_queues'[g.dst][k].flow]
      BY <2>2, <2>3
    <2>8. \A f \in Flow \ flow_arrivals' :
            Dst[f] = g.dst /\ next_seq_no'[f] < Size[f] =>
              \E k \in 1 .. Len(per_dst_queues'[g.dst]) : per_dst_queues'[g.dst][k].flow = f
      BY <2>2, <2>4
    <2> QED
      BY <2>6, <2>7, <2>8 DEF QueueOK, EntryOK
  <1> QED
    BY <1>3, <1>6, <1>14 DEF d

LEMMA SchdOthers ==
  ASSUME HostAssumption, HostInv, NEW g \in schds, ReceiveSchd(g), NEW d \in Dsts, d # g.dst
  PROVE  /\ QueueOK(d)' /\ per_dst_queues'[d] = per_dst_queues[d]
         /\ \A f \in Flow : Dst[f] = d => next_seq_no'[f] = next_seq_no[f]
  <1>1. PICK Q : Q = per_dst_queues[d] /\ per_dst_queues'[d] = Q
    BY DEF ReceiveSchd, HostInv, TypeOK
  <1>2. flow_arrivals' = flow_arrivals
    BY DEF ReceiveSchd
  <1>3. ASSUME NEW f \in Flow, Dst[f] = d PROVE next_seq_no'[f] = next_seq_no[f]
    <2>1. PICK t : next_seq_no'[f] = next_seq_no[f] + t /\ (Dst[f] # g.dst => t = 0)
      BY SchdMoves
    <2>2. next_seq_no[f] \in Nat /\ t = 0
      BY <1>3, <2>1, QueueFacts
    <2> QED
      BY <2>1, <2>2
  <1>4. QueueOK(d)
    BY DEF HostInv
  <1>5. /\ \A j \in 1 .. Len(Q) :
             /\ Q[j].flow \in Flow /\ Q[j].flow \notin flow_arrivals' /\ Dst[Q[j].flow] = d
             /\ Q[j].remaining = Size[Q[j].flow] - next_seq_no'[Q[j].flow]
        /\ \A f \in Flow \ flow_arrivals' :
             Dst[f] = d /\ next_seq_no'[f] < Size[f] => \E j \in 1 .. Len(Q) : Q[j].flow = f
        /\ Distinct(Q)
    <2>1. /\ \A j \in 1 .. Len(Q) :
               /\ Q[j].flow \in Flow /\ Q[j].flow \notin flow_arrivals /\ Dst[Q[j].flow] = d
               /\ Q[j].remaining = Size[Q[j].flow] - next_seq_no[Q[j].flow]
          /\ \A f \in Flow \ flow_arrivals :
               Dst[f] = d /\ next_seq_no[f] < Size[f] => \E j \in 1 .. Len(Q) : Q[j].flow = f
          /\ Distinct(Q)
      BY <1>1, <1>4 DEF QueueOK, EntryOK
    <2> QED
      BY ONLY <1>2, <1>3, <2>1
  <1>6. QueueOK(d)'
    BY <1>1, <1>5 DEF QueueOK, EntryOK, Distinct
  <1> QED
    BY <1>1, <1>3, <1>6

LEMMA SchdTypes ==
  ASSUME HostAssumption, HostInv, NEW g \in schds, ReceiveSchd(g)
  PROVE  TypeOK'
  <1> DEFINE P == PacketsOfSlot(g.slot, per_dst_queues[g.dst])
  <1>1. TypeOK /\ g.dst \in Dsts
    BY DEF HostInv, TypeOK
  <1>2. per_dst_queues' \in [Dsts -> Seq([flow : Flow, remaining : Nat \ {0}])]
    <2>1. per_dst_queues'[g.dst] \in Seq([flow : Flow, remaining : Nat \ {0}])
      BY SchdQueue DEF Entries
    <2>2. \A d \in Dsts : d # g.dst => per_dst_queues'[d] = per_dst_queues[d]
      BY SchdOthers
    <2>3. per_dst_queues' = [d \in Dsts |-> per_dst_queues'[d]]
      BY <1>1 DEF ReceiveSchd, TypeOK
    <2> QED
      BY <1>1, <2>1, <2>2, <2>3 DEF TypeOK
  <1>3. next_seq_no' \in [Flow -> Nat]
    <2>1. \A f \in Flow : next_seq_no'[f] \in Nat
      BY SchdFlows DEF FlowOK, HostAssumption
    <2>2. next_seq_no' = [f \in Flow |-> next_seq_no'[f]]
      BY DEF ReceiveSchd
    <2> QED
      BY <2>1, <2>2
  <1>4. ASSUME NEW p \in wire', NEW f \in Flow PROVE InPacket(f, p) \subseteq Segments
    <2>1. p \in wire \/ p \in P
      BY DEF ReceiveSchd
    <2>2. CASE p \in wire
      BY <1>1, <2>2 DEF TypeOK
    <2>3. CASE p \in P
      <3>1. InPacket(f, p) \subseteq Bare(OfFlow(f, P))
        <4> HIDE DEF P
        <4> QED
          BY <2>3, InPackets
      <3>2. Bare(OfFlow(f, P)) \subseteq Segments
        BY SchdMoves
      <3> QED
        BY <3>1, <3>2
    <2> QED
      BY <2>1, <2>2, <2>3
  <1>5. /\ now' = now /\ flow_arrivals' = flow_arrivals /\ rts' = rts
        /\ size_table' = size_table /\ schds' \subseteq schds
        /\ received_seqs' = received_seqs /\ received_payloads' = received_payloads
        /\ finished' = finished /\ failed' = failed
    BY DEF ReceiveSchd, receiver
  <1>6. \A p \in wire' : \A f \in Flow : InPacket(f, p)' \subseteq Segments'
    BY <1>4 DEF InPacket, Segments
  <1> QED
    BY <1>1, <1>2, <1>3, <1>4, <1>5 DEF TypeOK, InPacket, Segments

LEMMA SchdInv ==
  ASSUME HostAssumption, HostInv, NEW g \in schds, ReceiveSchd(g)
  PROVE  HostInv'
  <1>1. IsFiniteSet(schds')
    BY FS_RemoveElement DEF ReceiveSchd, HostInv
  <1>2. \A d \in Dsts : QueueOK(d)'
    BY SchdQueue, SchdOthers
  <1> QED
    BY <1>1, <1>2, SchdTypes, SchdFlows DEF HostInv

(***************************************************************************)
(* Demand.                                                                 *)
(***************************************************************************)
Unsent == [f \in Flow |-> Size[f] - next_seq_no[f]]
Arrived(d) == {f \in Flow \ flow_arrivals : Dst[f] = d}
Announcing(d) == {f \in rts : Dst[f] = d}
Granted(d) == {g \in schds : g.dst = d}

DemandOf(d) ==
  Queued(d) <= size_table[d] + SumFunctionOnSet(Size, Announcing(d))
               + Cardinality(Granted(d)) * SlotBytes

LEMMA DemandFacts ==
  ASSUME HostAssumption, HostInv, NEW d \in Dsts
  PROVE  /\ Queued(d) \in Nat /\ size_table[d] \in Nat /\ SlotBytes \in Nat \ {0}
         /\ IsFiniteSet(Announcing(d)) /\ SumFunctionOnSet(Size, Announcing(d)) \in Nat
         /\ IsFiniteSet(Granted(d)) /\ Cardinality(Granted(d)) \in Nat
         /\ IsFiniteSet(Arrived(d))
         /\ \A f \in Flow : Unsent[f] \in Nat /\ Size[f] \in Nat
         /\ Queued(d) = SumFunctionOnSet(Unsent, Arrived(d))
  <1>1. IsFiniteSet(Flow) /\ rts \subseteq Flow /\ IsFiniteSet(schds) /\ size_table[d] \in Nat
    BY DEF HostAssumption, HostInv, TypeOK
  <1>2. IsFiniteSet(Announcing(d)) /\ IsFiniteSet(Granted(d)) /\ IsFiniteSet(Arrived(d))
    <2>1. Announcing(d) \subseteq Flow /\ Granted(d) \subseteq schds /\ Arrived(d) \subseteq Flow
      BY <1>1 DEF Announcing, Granted, Arrived
    <2> QED
      BY <1>1, <2>1, FS_Subset
  <1>3. ASSUME NEW f \in Flow PROVE Unsent[f] \in Nat /\ Size[f] \in Nat
    <2>1. PICK n \in Nat, z \in Nat : n = next_seq_no[f] /\ z = Size[f] /\ n <= z
      BY QueueFacts
    <2>2. z - n \in Nat
      BY <2>1
    <2> QED
      BY <2>1, <2>2 DEF Unsent
  <1>4. Queued(d) = SumFunctionOnSet(Unsent, Arrived(d))
    BY DEF Queued, Unsent, Arrived
  <1>5. SumFunctionOnSet(Unsent, Arrived(d)) \in Nat
    <2>1. \A f \in Arrived(d) : Unsent[f] \in Nat
      BY <1>3 DEF Arrived
    <2> QED
      BY <1>2, <2>1, SumFacts
  <1>6. SumFunctionOnSet(Size, Announcing(d)) \in Nat
    <2>1. \A f \in Announcing(d) : Size[f] \in Nat
      BY <1>1, <1>3 DEF Announcing
    <2> QED
      BY <1>2, <2>1, SumFacts
  <1>7. SlotBytes \in Nat \ {0}
    <2>1. PICK x \in Nat \ {0}, y \in Nat \ {0} : x = Mss /\ y = SlotPackets
      BY DEF HostAssumption
    <2>2. x * y \in Nat \ {0}
      OBVIOUS
    <2> QED
      BY <2>1, <2>2 DEF SlotBytes
  <1> QED
    BY <1>1, <1>2, <1>3, <1>4, <1>5, <1>6, <1>7, FS_CardinalityType

LEMMA OneGrantLess ==
  ASSUME NEW q \in Nat, NEW r \in Nat, NEW a \in Nat, NEW n \in Nat, NEW w \in Nat,
         q <= a + (n + 1) * w, r = 0 \/ q = r + w
  PROVE  r <= a + n * w
  <1>1. n * w \in Nat /\ (n + 1) * w = n * w + w
    OBVIOUS
  <1> QED
    BY <1>1

LEMMA SchdDemand ==
  ASSUME HostAssumption, HostInv, NEW g \in schds, ReceiveSchd(g), NEW d \in Dsts, DemandOf(d)
  PROVE  DemandOf(d)'
  <1> DEFINE Q == per_dst_queues[g.dst]
             P == PacketsOfSlot(g.slot, Q)
             Left == [f \in Flow |-> Size[f] - next_seq_no'[f]]
             Gone == [f \in Flow |-> Taken(f, P)]
             A == Arrived(d)
  <1>1. /\ size_table' = size_table /\ rts' = rts /\ flow_arrivals' = flow_arrivals
        /\ schds' = schds \ {g}
    BY DEF ReceiveSchd
  <1>2. DemandOf(d)' <=>
          SumFunctionOnSet(Left, A)
            <= size_table[d] + SumFunctionOnSet(Size, Announcing(d))
               + Cardinality({x \in schds \ {g} : x.dst = d}) * SlotBytes
    BY <1>1 DEF DemandOf, Queued, Announcing, Granted, Arrived, SlotBytes
  <1>3. ASSUME NEW f \in Flow
        PROVE  /\ Gone[f] \in Nat /\ Left[f] \in Nat /\ Unsent[f] = Left[f] + Gone[f]
               /\ Dst[f] # g.dst => Gone[f] = 0
               /\ Gone[f] = Taken(f, P)
    <2>1. PICK n \in Nat, z \in Nat : n = next_seq_no[f] /\ z = Size[f] /\ n <= z
      BY QueueFacts
    <2>2. PICK t \in 0 .. z - n : /\ t = Taken(f, P) /\ next_seq_no'[f] = n + t
                                  /\ (Dst[f] # g.dst => t = 0)
      BY <2>1, SchdMoves
    <2>3. Left[f] = z - (n + t) /\ Gone[f] = t /\ Unsent[f] = z - n
      <3> HIDE DEF P
      <3> QED
        BY <2>1, <2>2 DEF Unsent
    <2> HIDE DEF Left, Gone, P
    <2>4. t \in Nat /\ z - (n + t) \in Nat /\ z - n = (z - (n + t)) + t
      BY <2>1
    <2> QED
      BY <2>2, <2>3, <2>4
  <1>4. PICK q \in Nat, z \in Nat, a \in Nat, w \in Nat :
          /\ q = SumFunctionOnSet(Unsent, A)
          /\ z = size_table[d] /\ a = SumFunctionOnSet(Size, Announcing(d))
          /\ w = SlotBytes
          /\ q <= z + a + Cardinality(Granted(d)) * w
    BY DemandFacts DEF DemandOf
  <1>5. IsFiniteSet(A) /\ IsFiniteSet(Granted(d)) /\ A \subseteq Flow
    BY DemandFacts DEF Arrived
  <1>6. \A f \in A : Gone[f] \in Nat /\ Left[f] \in Nat /\ Unsent[f] = Left[f] + Gone[f]
    BY <1>3, <1>5
  <1> HIDE DEF Left, Gone
  <1>7. q = SumFunctionOnSet(Left, A) + SumFunctionOnSet(Gone, A)
    BY <1>4, <1>5, <1>6, SumPlus
  <1>8. SumFunctionOnSet(Left, A) \in Nat /\ SumFunctionOnSet(Gone, A) \in Nat
    BY <1>5, <1>6, SumFacts
  <1>9. CASE d # g.dst
    <2>1. \A f \in A : Gone[f] = 0
      BY <1>3, <1>9 DEF Arrived
    <2>2. SumFunctionOnSet(Gone, A) = 0
      BY <1>5, <2>1, SumNone
    <2>3. {x \in schds \ {g} : x.dst = d} = Granted(d)
      BY <1>9 DEF Granted
    <2>4. q = SumFunctionOnSet(Left, A)
      BY <1>7, <1>8, <2>2
    <2> QED
      BY <1>2, <1>4, <2>3, <2>4
  <1>10. CASE d = g.dst
    <2>1. g \in Granted(d) /\ {x \in schds \ {g} : x.dst = d} = Granted(d) \ {g}
      BY <1>10 DEF Granted
    <2>2. PICK k \in Nat : Cardinality(Granted(d) \ {g}) = k /\ Cardinality(Granted(d)) = k + 1
      <3>1. IsFiniteSet(Granted(d) \ {g}) /\ Cardinality(Granted(d) \ {g}) = Cardinality(Granted(d)) - 1
        BY <1>5, <2>1, FS_RemoveElement
      <3>2. Cardinality(Granted(d)) \in Nat /\ Cardinality(Granted(d) \ {g}) \in Nat
        BY <1>5, <3>1, FS_CardinalityType
      <3> QED
        BY <3>1, <3>2
    <2>3. /\ Q \in Seq(Entries) /\ Distinct(Q)
          /\ \A j \in 1 .. Len(Q) : EntryOK(Q[j], d) /\ next_seq_no[Q[j].flow] \in Nat
      BY <1>10, QueueFacts
    <2>4. SumFunctionOnSet(Left, A) = 0 \/ SumFunctionOnSet(Gone, A) = w
      <3>0. Len(Q) \in Nat /\ End(Q)[Len(Q)] \in Nat
        <4>1. Len(Q) \in Nat /\ Len(Q) \in 0 .. Len(Q)
          BY <2>3
        <4> QED
          BY <2>3, <4>1, EndFacts
      <3>1. CASE w < End(Q)[Len(Q)]
        <4>1. \A j \in 1 .. Len(Q) : Q[j].flow \in A
          BY <2>3 DEF EntryOK, Arrived
        <4>2. \A f \in A : Gone[f] = Taken(f, P)
          BY <1>3, <1>5
        <4> HIDE DEF A, Q
        <4>3. SumFunctionOnSet(Gone, A) = SlotBytes
          BY <1>4, <1>5, <2>3, <3>1, <4>1, <4>2, SlotIsFull
        <4> QED
          BY <1>4, <4>3
      <3>2. CASE End(Q)[Len(Q)] <= w
        <4>1. ASSUME NEW f \in A PROVE Left[f] = 0
          <5>1. PICK n \in Nat, s \in Nat : n = next_seq_no[f] /\ s = Size[f] /\ n <= s
            BY <1>5, QueueFacts
          <5>2. Unsent[f] = s - n
            BY <1>5, <5>1 DEF Unsent
          <5>3. CASE n = s
            <6>1. Left[f] \in Nat /\ Gone[f] \in Nat /\ Unsent[f] = Left[f] + Gone[f]
              BY <1>6
            <6> QED
              BY ONLY <5>2, <5>3, <6>1, n \in Nat, s \in Nat
          <5>4. CASE n < s
            <6>1. PICK j \in 1 .. Len(Q) : Q[j].flow = f
              BY <1>10, <5>1, <5>4 DEF HostInv, QueueOK, Arrived
            <6>2. Gone[f] = TakenOf(Q, j)
              BY <1>3, <1>5, <2>3, <6>1, TakenFromEntry
            <6>3. /\ TakenOf(Q, j) = Q[j].remaining <=> End(Q)[j] <= SlotBytes
                  /\ End(Q)[j] \in Nat
              BY <2>3, TakenBounds
            <6>4. j = Len(Q) \/ End(Q)[j] < End(Q)[Len(Q)]
              <7>1. j \in 0 .. Len(Q) /\ Len(Q) \in 0 .. Len(Q) /\ (j = Len(Q) \/ j < Len(Q))
                BY ONLY <3>0, j \in 1 .. Len(Q)
              <7>2. Q \in Seq(Entries)
                BY <2>3
              <7> QED
                BY ONLY <7>1, <7>2, EndGrows
            <6>5. End(Q)[j] <= SlotBytes
              <7>1. w = SlotBytes /\ w \in Nat
                BY <1>4
              <7> QED
                BY ONLY <3>0, <3>2, <6>3, <6>4, <7>1
            <6>6. Q[j].remaining = s - n
              BY <2>3, <5>1, <6>1 DEF EntryOK
            <6>7. Gone[f] = s - n
              BY ONLY <6>2, <6>3, <6>5, <6>6
            <6>8. Left[f] \in Nat /\ Unsent[f] = Left[f] + Gone[f]
              BY <1>6
            <6> QED
              BY ONLY <5>2, <6>7, <6>8, n \in Nat, s \in Nat
          <5>5. n = s \/ n < s
            BY ONLY <5>1, n \in Nat, s \in Nat
          <5> QED
            BY <5>3, <5>4, <5>5
        <4>2. \A f \in A : Left[f] = 0
          BY <4>1
        <4> QED
          BY ONLY <1>5, <4>2, SumNone
      <3> QED
        BY SMTT(30), <1>4, <3>0, <3>1, <3>2
    <2>5. SumFunctionOnSet(Left, A) <= (z + a) + k * w
      <3>1. q <= (z + a) + (k + 1) * w
        BY <1>4, <2>2
      <3>2. PICK r \in Nat, e \in Nat : r = SumFunctionOnSet(Left, A) /\ e = SumFunctionOnSet(Gone, A)
        BY <1>8
      <3>3. r = 0 \/ q = r + w
        BY <1>7, <2>4, <3>2
      <3>4. r <= (z + a) + k * w
        BY <3>1, <3>3, z + a \in Nat, OneGrantLess
      <3> QED
        BY <3>2, <3>4
    <2> QED
      BY <1>2, <1>4, <2>1, <2>2, <2>5
  <1> QED
    BY <1>9, <1>10

(***************************************************************************)
(* The other actions.                                                      *)
(***************************************************************************)
LEMMA SameFlows ==
  ASSUME HostInv, rts' \subseteq rts,
         UNCHANGED <<flow_arrivals, per_dst_queues, next_seq_no, wire, received_seqs>>
  PROVE  /\ \A f \in Flow : FlowOK(f)'
         /\ \A d \in Dsts : QueueOK(d)'
  <1>1. ASSUME NEW f \in Flow PROVE FlowOK(f)'
    <2>1. SegmentsOf(f)' = SegmentsOf(f)
      BY DEF SegmentsOf, InPacket
    <2>2. FlowOK(f)
      BY DEF HostInv
    <2> QED
      BY <2>1, <2>2 DEF FlowOK
  <1>2. ASSUME NEW d \in Dsts PROVE QueueOK(d)'
    <2>1. QueueOK(d)
      BY DEF HostInv
    <2> QED
      BY <2>1 DEF QueueOK, EntryOK, Distinct
  <1> QED
    BY <1>1, <1>2

LEMMA DemandNumbers ==
  ASSUME HostAssumption, HostInv, NEW d \in Dsts, DemandOf(d)
  PROVE  \E q, z, a, n, m \in Nat :
           /\ q = Queued(d) /\ z = size_table[d]
           /\ a = SumFunctionOnSet(Size, Announcing(d))
           /\ n = Cardinality(Granted(d)) /\ m = SlotBytes
           /\ q <= z + a + n * m
  <1>1. PICK q \in Nat, z \in Nat, a \in Nat, n \in Nat, m \in Nat :
          /\ q = Queued(d) /\ z = size_table[d]
          /\ a = SumFunctionOnSet(Size, Announcing(d))
          /\ n = Cardinality(Granted(d)) /\ m = SlotBytes
    BY DemandFacts
  <1>2. q <= z + a + n * m
    BY <1>1 DEF DemandOf
  <1> QED
    BY <1>1, <1>2

LEMMA RtsStep ==
  ASSUME HostAssumption, HostInv, NEW f \in Flow, ReceiveRts(f)
  PROVE  HostInv' /\ \A d \in Dsts : DemandOf(d) => DemandOf(d)'
  <1>1. /\ f \in rts /\ rts' = rts \ {f} /\ schds' = schds
        /\ size_table' = [size_table EXCEPT ![Dst[f]] = size_table[Dst[f]] + Size[f]]
        /\ UNCHANGED <<now, flow_arrivals, per_dst_queues, next_seq_no, wire, received_seqs,
                       received_payloads, finished, failed>>
    BY DEF ReceiveRts, Announced, sender, receiver
  <1>2. Size[f] \in Nat /\ Dst[f] \in Dsts
    BY DEF HostAssumption, Dsts
  <1>3. size_table \in [Dsts -> Nat] /\ TypeOK
    BY DEF HostInv, TypeOK
  <1>4. size_table' \in [Dsts -> Nat]
    <2>1. size_table[Dst[f]] + Size[f] \in Nat
      BY <1>2, <1>3
    <2> QED
      BY <1>1, <1>3, <2>1
  <1>5. TypeOK'
    BY <1>1, <1>3, <1>4 DEF TypeOK, InPacket, Segments
  <1>6. HostInv'
    BY <1>1, <1>5, SameFlows DEF HostInv
  <1>7. ASSUME NEW d \in Dsts, DemandOf(d) PROVE DemandOf(d)'
    <2>1. Queued(d)' = Queued(d) /\ Granted(d)' = Granted(d) /\ SlotBytes' = SlotBytes
      BY <1>1 DEF Queued, Granted, SlotBytes
    <2>2. PICK q \in Nat, z \in Nat, a \in Nat, w \in Nat :
            /\ q = Queued(d) /\ z = size_table[d]
            /\ a = SumFunctionOnSet(Size, Announcing(d))
            /\ w = Cardinality(Granted(d)) * SlotBytes
            /\ q <= z + a + w
      <3>1. PICK q \in Nat, z \in Nat, a \in Nat, n \in Nat, m \in Nat :
              /\ q = Queued(d) /\ z = size_table[d]
              /\ a = SumFunctionOnSet(Size, Announcing(d))
              /\ n = Cardinality(Granted(d)) /\ m = SlotBytes
              /\ q <= z + a + n * m
        BY <1>7, DemandNumbers
      <3>2. n * m \in Nat
        OBVIOUS
      <3> QED
        BY <3>1, <3>2
    <2>3. CASE Dst[f] = d
      <3>1. f \in Announcing(d) /\ Announcing(d)' = Announcing(d) \ {f}
        BY <1>1, <2>3 DEF Announcing
      <3>2. IsFiniteSet(Announcing(d)) /\ \A g \in Announcing(d) : Size[g] \in Nat
        BY <1>3, DemandFacts DEF Announcing, TypeOK
      <3>3. a = Size[f] + SumFunctionOnSet(Size, Announcing(d) \ {f})
        BY <2>2, <3>1, <3>2, SumFacts
      <3>4. SumFunctionOnSet(Size, Announcing(d) \ {f}) \in Nat
        BY <3>2, FS_RemoveElement, SumFacts
      <3>5. size_table'[d] = z + Size[f]
        BY <1>1, <1>3, <2>2, <2>3
      <3>6. q <= (z + Size[f]) + SumFunctionOnSet(Size, Announcing(d) \ {f}) + w
        BY <1>2, <2>2, <3>3, <3>4
      <3> QED
        BY <2>1, <2>2, <3>1, <3>5, <3>6 DEF DemandOf
    <2>4. CASE Dst[f] # d
      <3>1. Announcing(d)' = Announcing(d)
        BY <1>1, <2>4 DEF Announcing
      <3>2. size_table'[d] = z
        BY <1>1, <1>3, <2>2, <2>4
      <3> QED
        BY <2>1, <2>2, <3>1, <3>2 DEF DemandOf
    <2> QED
      BY <2>3, <2>4
  <1> QED
    BY <1>6, <1>7

LEMMA GrantStep ==
  ASSUME HostAssumption, HostInv, NEW e \in Dsts, NEW s \in now + 1 .. now + T, Grant(e, s)
  PROVE  HostInv' /\ \A d \in Dsts : DemandOf(d) => DemandOf(d)'
  <1>1. /\ rts' = rts /\ schds' = schds \union {[dst |-> e, slot |-> s]}
        /\ size_table' = [size_table EXCEPT ![e] = Served(size_table[e])]
        /\ UNCHANGED <<now, flow_arrivals, per_dst_queues, next_seq_no, wire, received_seqs,
                       received_payloads, finished, failed>>
    BY DEF Grant, sender, receiver
  <1>2. size_table \in [Dsts -> Nat] /\ TypeOK /\ IsFiniteSet(schds)
    BY DEF HostInv, TypeOK
  <1>3. PICK m \in Nat : m = SlotBytes
    BY DemandFacts
  <1>4. Served(size_table[e]) \in Nat /\ size_table[e] <= Served(size_table[e]) + m
    <2>1. PICK z \in Nat : z = size_table[e]
      BY <1>2
    <2> QED
      BY <1>3, <2>1 DEF Served
  <1>5. size_table' \in [Dsts -> Nat]
    BY <1>1, <1>2, <1>4
  <1>6. s \in Nat
    BY <1>2 DEF TypeOK, HostAssumption
  <1>7. TypeOK'
    <2>1. schds' \subseteq [dst : Dsts, slot : Nat]
      BY <1>1, <1>2, <1>6 DEF TypeOK
    <2> QED
      BY <1>1, <1>2, <1>5, <2>1 DEF TypeOK, InPacket, Segments
  <1>8. IsFiniteSet(schds')
    BY <1>1, <1>2, FS_AddElement
  <1>9. HostInv'
    BY <1>1, <1>7, <1>8, SameFlows DEF HostInv
  <1>10. ASSUME NEW d \in Dsts, DemandOf(d) PROVE DemandOf(d)'
    <2>1. Queued(d)' = Queued(d) /\ Announcing(d)' = Announcing(d) /\ SlotBytes' = SlotBytes
      BY <1>1 DEF Queued, Announcing, SlotBytes
    <2>2. PICK q \in Nat, z \in Nat, a \in Nat, n \in Nat :
            /\ q = Queued(d) /\ z = size_table[d]
            /\ a = SumFunctionOnSet(Size, Announcing(d))
            /\ n = Cardinality(Granted(d))
            /\ q <= z + a + n * m
      BY <1>3, <1>10, DemandNumbers
    <2>3. CASE d = e
      <3>1. PICK r \in Nat : r = size_table'[d] /\ z <= r + m
        BY <1>1, <1>2, <1>4, <2>2, <2>3
      <3>2. Granted(d)' = Granted(d) \union {[dst |-> d, slot |-> s]}
        BY <1>1, <2>3 DEF Granted
      <3>3. [dst |-> d, slot |-> s] \notin Granted(d)
        BY DEF Grant, SlotsTaken, Granted
      <3>4. Cardinality(Granted(d)') = n + 1
        BY <2>2, <3>2, <3>3, DemandFacts, FS_AddElement
      <3>5. (n + 1) * m = n * m + m /\ n * m \in Nat
        BY <1>3
      <3>6. q <= r + a + (n + 1) * m
        BY <1>3, <2>2, <3>1, <3>5
      <3> QED
        BY <1>3, <2>1, <2>2, <3>1, <3>4, <3>6 DEF DemandOf
    <2>4. CASE d # e
      <3>1. Granted(d)' = Granted(d)
        BY <1>1, <2>4 DEF Granted
      <3>2. size_table'[d] = z
        BY <1>1, <1>2, <2>2, <2>4
      <3> QED
        BY <1>3, <2>1, <2>2, <3>1, <3>2 DEF DemandOf
    <2> QED
      BY <2>3, <2>4
  <1> QED
    BY <1>9, <1>10

LEMMA ArrivalStep ==
  ASSUME HostAssumption, HostInv, NEW f \in Flow, FlowArrival(f)
  PROVE  HostInv' /\ \A d \in Dsts : DemandOf(d) => DemandOf(d)'
  <1> DEFINE e == [flow |-> f, remaining |-> Size[f]]
  <1>1. /\ f \in flow_arrivals /\ flow_arrivals' = flow_arrivals \ {f} /\ rts' = rts \union {f}
        /\ per_dst_queues' = [per_dst_queues EXCEPT ![Dst[f]] = Append(per_dst_queues[Dst[f]], e)]
        /\ UNCHANGED <<now, next_seq_no, size_table, schds, wire, received_seqs,
                       received_payloads, finished, failed>>
    BY DEF FlowArrival, receiver
  <1>2. Size[f] \in Nat \ {0} /\ Dst[f] \in Dsts /\ next_seq_no[f] = 0 /\ f \notin rts
    BY <1>1 DEF HostAssumption, Dsts, HostInv, FlowOK
  <1>3. TypeOK
    BY DEF HostInv
  <1>4. e \in Entries
    BY <1>2 DEF Entries
  <1> HIDE DEF e
  <1>5. TypeOK'
    <2>1. per_dst_queues' \in [Dsts -> Seq([flow : Flow, remaining : Nat \ {0}])]
      <3>1. per_dst_queues[Dst[f]] \in Seq(Entries)
        BY <1>2, QueueFacts
      <3>2. Append(per_dst_queues[Dst[f]], e) \in Seq(Entries)
        BY <1>4, <3>1
      <3> QED
        BY <1>1, <1>3, <3>2 DEF TypeOK, Entries
    <2> QED
      BY <1>1, <1>3, <2>1 DEF TypeOK, InPacket, Segments
  <1>6. ASSUME NEW g \in Flow PROVE FlowOK(g)'
    <2>1. SegmentsOf(g)' = SegmentsOf(g)
      BY <1>1 DEF SegmentsOf, InPacket
    <2>2. FlowOK(g)
      BY DEF HostInv
    <2> QED
      BY <1>1, <2>1, <2>2 DEF FlowOK
  <1>7. ASSUME NEW d \in Dsts PROVE QueueOK(d)'
    <2>0. PICK Q \in Seq(Entries) : Q = per_dst_queues[d]
      BY QueueFacts
    <2>1. PICK m \in Nat : m = Len(Q) /\ Q = per_dst_queues[d]
      <3>1. Len(Q) \in Nat
        OBVIOUS
      <3> QED
        BY <2>0, <3>1
    <2>2. /\ \A i, j \in 1 .. m : Q[i].flow = Q[j].flow => i = j
          /\ \A j \in 1 .. m : EntryOK(Q[j], d) /\ Q[j].flow # f
          /\ \A g \in Flow \ flow_arrivals :
               Dst[g] = d /\ next_seq_no[g] < Size[g] => \E j \in 1 .. m : Q[j].flow = g
      <3>1. QueueOK(d)
        BY DEF HostInv
      <3>2. /\ Distinct(Q) /\ \A j \in 1 .. m : EntryOK(Q[j], d)
            /\ \A g \in Flow \ flow_arrivals :
                 Dst[g] = d /\ next_seq_no[g] < Size[g] => \E j \in 1 .. m : Q[j].flow = g
        BY <2>1, <3>1 DEF QueueOK
      <3>3. \A i, j \in 1 .. m : Q[i].flow = Q[j].flow => i = j
        BY <2>1, <3>2 DEF Distinct
      <3>4. \A j \in 1 .. m : Q[j].flow # f
        BY <1>1, <3>2 DEF EntryOK
      <3> QED
        BY <3>2, <3>3, <3>4
    <2>3. CASE d # Dst[f]
      <3>1. per_dst_queues'[d] = Q
        BY <1>1, <1>3, <2>1, <2>3 DEF TypeOK
      <3>2. \A g \in Flow \ flow_arrivals' :
              Dst[g] = d /\ next_seq_no'[g] < Size[g] => \E j \in 1 .. m : Q[j].flow = g
        BY <1>1, <2>2, <2>3
      <3>3. \A j \in 1 .. m :
              /\ Q[j].flow \in Flow /\ Q[j].flow \notin flow_arrivals' /\ Dst[Q[j].flow] = d
              /\ Q[j].remaining = Size[Q[j].flow] - next_seq_no'[Q[j].flow]
        BY <1>1, <2>2 DEF EntryOK
      <3>4. Distinct(per_dst_queues'[d])
        BY <2>1, <2>2, <3>1 DEF Distinct
      <3>5. m = Len(per_dst_queues'[d])
        BY <2>1, <3>1
      <3> QED
        BY <3>1, <3>2, <3>3, <3>4, <3>5 DEF QueueOK, EntryOK
    <2>4. CASE d = Dst[f]
      <3>1. PICK R : R = Append(Q, e)
        OBVIOUS
      <3>2. per_dst_queues'[d] = R
        BY <1>1, <1>3, <2>1, <2>4, <3>1 DEF TypeOK
      <3>3. Len(R) = m + 1 /\ R[m + 1] = e /\ \A j \in 1 .. m : R[j] = Q[j]
        BY ONLY <1>4, <2>1, <3>1, Q \in Seq(Entries), m \in Nat
      <3>4. 1 .. m + 1 = (1 .. m) \union {m + 1}
        BY ONLY m \in Nat
      <3>5. e.flow = f /\ e.remaining = Size[f]
        BY DEF e
      <3>6. \A i, j \in 1 .. m + 1 : R[i].flow = R[j].flow => i = j
        BY <2>2, <3>3, <3>4, <3>5
      <3>7. \A j \in 1 .. m + 1 :
              /\ R[j].flow \in Flow /\ R[j].flow \notin flow_arrivals' /\ Dst[R[j].flow] = d
              /\ R[j].remaining = Size[R[j].flow] - next_seq_no'[R[j].flow]
        <4>1. ASSUME NEW j \in 1 .. m
              PROVE  /\ R[j].flow \in Flow /\ R[j].flow \notin flow_arrivals' /\ Dst[R[j].flow] = d
                     /\ R[j].remaining = Size[R[j].flow] - next_seq_no'[R[j].flow]
          BY <1>1, <2>2, <3>3 DEF EntryOK
        <4>2. /\ R[m + 1].flow = f /\ f \notin flow_arrivals' /\ Dst[f] = d
              /\ R[m + 1].remaining = Size[f] - next_seq_no'[f]
          <5>1. Size[f] = Size[f] - 0
            BY <1>2
          <5> QED
            BY <1>1, <1>2, <2>4, <3>3, <3>5, <5>1
        <4> QED
          BY <3>4, <4>1, <4>2
      <3>8. ASSUME NEW g \in Flow \ flow_arrivals', Dst[g] = d, next_seq_no'[g] < Size[g]
            PROVE  \E j \in 1 .. m + 1 : R[j].flow = g
        <4>1. CASE g = f
          BY <3>3, <3>4, <3>5, <4>1
        <4>2. CASE g # f
          <5>1. PICK j \in 1 .. m : Q[j].flow = g
            BY <1>1, <2>2, <3>8, <4>2
          <5> QED
            BY <3>3, <3>4, <5>1
        <4> QED
          BY <4>1, <4>2
      <3> QED
        BY <3>2, <3>3, <3>6, <3>7, <3>8 DEF QueueOK, EntryOK, Distinct
    <2> QED
      BY <2>3, <2>4
  <1>8. HostInv'
    BY <1>1, <1>5, <1>6, <1>7 DEF HostInv
  <1>9. ASSUME NEW d \in Dsts, DemandOf(d) PROVE DemandOf(d)'
    <2>1. /\ Granted(d)' = Granted(d) /\ SlotBytes' = SlotBytes /\ size_table' = size_table
          /\ Queued(d)' = SumFunctionOnSet(Unsent, Arrived(d)')
      BY <1>1 DEF Granted, SlotBytes, Queued, Unsent, Arrived
    <2>2. PICK q \in Nat, z \in Nat, a \in Nat, n \in Nat, m \in Nat :
            /\ q = Queued(d) /\ z = size_table[d]
            /\ a = SumFunctionOnSet(Size, Announcing(d))
            /\ n = Cardinality(Granted(d)) /\ m = SlotBytes
            /\ q <= z + a + n * m
      BY <1>9, DemandNumbers
    <2>3. CASE d = Dst[f]
      <3>1. /\ Announcing(d)' = Announcing(d) \union {f} /\ f \notin Announcing(d)
            /\ Arrived(d)' = Arrived(d) \union {f} /\ f \notin Arrived(d)
        BY <1>1, <1>2, <2>3 DEF Announcing, Arrived
      <3>2. /\ \A g \in Arrived(d) \union {f} : Unsent[g] \in Nat
            /\ \A g \in Announcing(d) \union {f} : Size[g] \in Nat
        BY <1>3, DemandFacts DEF Arrived, Announcing, TypeOK
      <3>3. Unsent[f] = Size[f]
        <4>1. Size[f] - 0 = Size[f]
          BY <1>2
        <4> QED
          BY <1>2, <4>1 DEF Unsent
      <3>4. SumFunctionOnSet(Unsent, Arrived(d)') = Size[f] + q
        BY <2>2, <3>1, <3>2, <3>3, DemandFacts, SumWith
      <3>5. SumFunctionOnSet(Size, Announcing(d)') = Size[f] + a
        BY <2>2, <3>1, <3>2, DemandFacts, SumWith
      <3>6. n * m \in Nat
        OBVIOUS
      <3>7. Size[f] + q <= z + (Size[f] + a) + n * m
        BY <1>2, <2>2, <3>6
      <3> QED
        BY <2>1, <2>2, <3>4, <3>5, <3>7 DEF DemandOf
    <2>4. CASE d # Dst[f]
      <3>1. Announcing(d)' = Announcing(d) /\ Arrived(d)' = Arrived(d)
        BY <1>1, <2>4 DEF Announcing, Arrived
      <3>2. Queued(d)' = q
        BY <2>1, <2>2, <3>1, DemandFacts
      <3> QED
        BY <2>1, <2>2, <3>1, <3>2 DEF DemandOf
    <2> QED
      BY <2>3, <2>4
  <1> QED
    BY <1>8, <1>9

\* How far the segments received reach without a gap.
Complete(S, n) ==
  \A b \in 0 .. n - 1 : \E x \in S : In(b, x)

LEMMA RecvTillFacts ==
  ASSUME NEW n \in Nat \ {0}, NEW S,
         \A x \in S : x.begin \in Nat /\ x.size \in Nat \ {0} /\ x.begin + x.size <= n
  PROVE  RecvTill(S) = n <=> Complete(S, n)
  <1> DEFINE Reached == {y \in S : \A b \in 0 .. y.begin :
                           b = 0 \/ \E z \in S : z.begin < b /\ b <= z.begin + z.size}
             Ends == {0} \union {x.begin + x.size : x \in Reached}
  <1>1. RecvTill(S) = Max(Ends)
    BY DEF RecvTill
  <1>2. Ends \subseteq 0 .. n /\ Ends # {}
    <2>1. \A x \in Reached : x.begin + x.size \in 0 .. n
      OBVIOUS
    <2> QED
      BY <2>1
  <1>3. Max(Ends) \in Ends /\ (\A m \in Ends : m <= Max(Ends)) /\ Max(Ends) \in 0 .. n
    <2> HIDE DEF Ends
    <2>1. Max(Ends) \in Ends /\ \A m \in Ends : m <= Max(Ends)
      BY <1>2, MaxFacts
    <2> QED
      BY <1>2, <2>1
  <1>4. ASSUME Max(Ends) = n, NEW b \in 0 .. n - 1 PROVE \E x \in S : In(b, x)
    <2>1. PICK x \in Reached : x.begin + x.size = n
      BY <1>3, <1>4
    <2>2. PICK s \in Nat, z \in Nat : s = x.begin /\ z = x.size /\ s + z = n
      BY <2>1
    <2>3. CASE s <= b
      <3>1. In(b, x)
        BY <2>2, <2>3 DEF In
      <3> QED
        BY <3>1
    <2>4. CASE b < s
      <3>1. b + 1 \in 0 .. s /\ b + 1 # 0
        BY <2>4
      <3>2. PICK y \in S : y.begin < b + 1 /\ b + 1 <= y.begin + y.size
        BY <2>1, <2>2, <3>1
      <3>3. PICK u \in Nat, v \in Nat : u = y.begin /\ v = y.size
        OBVIOUS
      <3>4. In(b, y)
        BY <3>2, <3>3 DEF In
      <3> QED
        BY <3>4
    <2> QED
      BY <2>2, <2>3, <2>4
  <1>5. ASSUME Complete(S, n) PROVE Max(Ends) = n
    <2>1. n - 1 \in 0 .. n - 1
      OBVIOUS
    <2>2. PICK x \in S : In(n - 1, x)
      BY <1>5, <2>1 DEF Complete
    <2>3. PICK s \in Nat, z \in Nat : s = x.begin /\ z = x.size /\ s + z <= n
      OBVIOUS
    <2>4. s + z = n
      BY <2>2, <2>3 DEF In
    <2>5. ASSUME NEW b \in 0 .. s, b # 0
          PROVE  \E y \in S : y.begin < b /\ b <= y.begin + y.size
      <3>1. b - 1 \in 0 .. n - 1
        BY <2>3, <2>5
      <3>2. PICK y \in S : In(b - 1, y)
        BY <1>5, <3>1 DEF Complete
      <3>3. PICK u \in Nat, v \in Nat : u = y.begin /\ v = y.size
        OBVIOUS
      <3>4. y.begin < b /\ b <= y.begin + y.size
        BY <3>2, <3>3 DEF In
      <3> QED
        BY <3>4
    <2>6. x \in Reached
      BY <2>3, <2>5
    <2>7. n \in Ends
      BY <2>3, <2>4, <2>6
    <2> HIDE DEF Ends
    <2> QED
      BY <1>3, <2>7
  <1> HIDE DEF Ends, Reached
  <1> QED
    BY <1>1, <1>4, <1>5 DEF Complete

(***************************************************************************)
(* The arrival of a packet.                                                *)
(***************************************************************************)
LEMMA DataSegments ==
  ASSUME NEW p \in wire, DataArrival(p), NEW f \in Flow
  PROVE  /\ SegmentsOf(f)' = SegmentsOf(f)
         /\ received_seqs'[f] = received_seqs[f] \union InPacket(f, p)
         /\ received_seqs'[f] \subseteq SegmentsOf(f)
  <1>1. /\ wire' = wire \ {p}
        /\ received_seqs' = [g \in Flow |-> received_seqs[g] \union InPacket(g, p)]
    BY DEF DataArrival
  <1>2. received_seqs'[f] = received_seqs[f] \union InPacket(f, p)
    BY <1>1
  <1>3. SegmentsOf(f)' = received_seqs'[f] \union UNION {InPacket(f, q) : q \in wire \ {p}}
    BY <1>1 DEF SegmentsOf, InPacket
  <1>4. UNION {InPacket(f, q) : q \in wire} =
          InPacket(f, p) \union UNION {InPacket(f, q) : q \in wire \ {p}}
    OBVIOUS
  <1> QED
    BY <1>2, <1>3, <1>4 DEF SegmentsOf

LEMMA DataStep ==
  ASSUME HostAssumption, HostInv, NEW p \in wire, DataArrival(p)
  PROVE  HostInv' /\ \A d \in Dsts : DemandOf(d) => DemandOf(d)'
  <1>1. /\ wire' = wire \ {p}
        /\ received_payloads' = [f \in Flow |-> received_payloads[f] + Payload(f, p)]
        /\ failed' \in {"no", "received_payloads"}
        /\ finished' \in [Flow -> BOOLEAN]
        /\ UNCHANGED <<now, flow_arrivals, per_dst_queues, next_seq_no, rts, size_table, schds>>
    BY DEF DataArrival, sender, HostInv, TypeOK
  <1>2. TypeOK
    BY DEF HostInv
  <1>3. ASSUME NEW f \in Flow PROVE FlowOK(f) /\ FlowOK(f)'
    <2>1. SegmentsOf(f)' = SegmentsOf(f)
      BY DataSegments
    <2>2. FlowOK(f)
      BY DEF HostInv
    <2> QED
      BY <1>1, <2>1, <2>2 DEF FlowOK
  <1>4. ASSUME NEW f \in Flow
        PROVE  received_seqs'[f] \subseteq Segments /\ received_payloads'[f] \in Nat
    <2>1. InPacket(f, p) \subseteq Segments /\ received_seqs[f] \subseteq Segments
      BY <1>2 DEF TypeOK
    <2>2. IsFiniteSet(InPacket(f, p))
      <3>1. InPacket(f, p) \subseteq SegmentsOf(f)
        BY DEF SegmentsOf
      <3>2. Tiles(SegmentsOf(f), 0, next_seq_no[f]) /\ next_seq_no[f] \in Nat
        BY <1>2, <1>3 DEF FlowOK, TypeOK
      <3>3. IsFiniteSet(SegmentsOf(f))
        BY <3>2, TilesFinite
      <3> QED
        BY <3>1, <3>3, FS_Subset
    <2>3. Payload(f, p) \in Nat
      <3> DEFINE X == InPacket(f, p)
                 F == [x \in X |-> x.size]
      <3>1. \A x \in X : F[x] \in Nat
        BY <2>1 DEF Segments
      <3> HIDE DEF F, X
      <3>2. SumFunctionOnSet(F, X) \in Nat
        BY <2>2, <3>1, SumFacts DEF X
      <3> QED
        BY <3>2 DEF Payload, Bytes, F, X
    <2>4. received_payloads'[f] = received_payloads[f] + Payload(f, p)
      BY <1>1
    <2>5. received_payloads[f] \in Nat
      BY <1>2 DEF TypeOK
    <2> QED
      BY <2>1, <2>3, <2>4, <2>5, DataSegments
  <1>5. TypeOK'
    <2>1. received_payloads' \in [Flow -> Nat]
      <3>1. received_payloads' = [f \in Flow |-> received_payloads'[f]]
        BY <1>1
      <3> QED
        BY <1>4, <3>1
    <2> QED
      BY <1>1, <1>2, <1>4, <2>1 DEF TypeOK, InPacket, Segments
  <1>6. ASSUME NEW d \in Dsts PROVE QueueOK(d)'
    <2>1. QueueOK(d)
      BY DEF HostInv
    <2> QED
      BY <1>1, <2>1 DEF QueueOK, EntryOK, Distinct
  <1>7. HostInv'
    BY <1>1, <1>3, <1>5, <1>6 DEF HostInv
  <1>8. ASSUME NEW d \in Dsts, DemandOf(d) PROVE DemandOf(d)'
    BY <1>1, <1>8 DEF DemandOf, Queued, Announcing, Granted, SlotBytes
  <1> QED
    BY <1>7, <1>8

LEMMA TickStep ==
  ASSUME HostAssumption, HostInv, Tick
  PROVE  HostInv' /\ \A d \in Dsts : DemandOf(d) => DemandOf(d)'
  <1>1. /\ now' = now + 1 /\ now < MaxSlot
        /\ UNCHANGED <<flow_arrivals, per_dst_queues, next_seq_no, rts, size_table, schds, wire,
                       received_seqs, received_payloads, finished, failed>>
    BY DEF Tick, sender, receiver
  <1>2. TypeOK'
    <2>1. now' \in 0 .. MaxSlot
      BY <1>1 DEF HostInv, TypeOK, HostAssumption
    <2> QED
      BY <1>1, <2>1 DEF HostInv, TypeOK, InPacket, Segments
  <1>3. HostInv'
    BY <1>1, <1>2, SameFlows DEF HostInv
  <1>4. ASSUME NEW d \in Dsts, DemandOf(d) PROVE DemandOf(d)'
    BY <1>1, <1>4 DEF DemandOf, Queued, Announcing, Granted, SlotBytes
  <1> QED
    BY <1>3, <1>4

\* With finished flows: the assertion stops the program before it can be wrong.
LEMMA DataFinishes ==
  ASSUME HostAssumption, HostInv, FinishedWhenComplete, NEW p \in wire, DataArrival(p)
  PROVE  FinishedWhenComplete'
  <1> DEFINE done == {f \in Flow : InPacket(f, p) # {} /\ RecvTill(received_seqs'[f]) = Size[f]}
             sound == {f \in done : received_payloads'[f] = Size[f]}
  <1>1. /\ failed = "no"
        /\ finished' = [f \in Flow |-> finished[f] \/ f \in sound]
        /\ failed' = IF sound = done THEN "no" ELSE "received_payloads"
    BY DEF DataArrival, Running
  <1>2. ASSUME NEW f \in Flow
        PROVE  finished[f] <=> Complete(received_seqs[f], Size[f])
    BY <1>1 DEF FinishedWhenComplete, Running, Complete, In
  <1>3. ASSUME NEW f \in Flow
        PROVE  RecvTill(received_seqs'[f]) = Size[f] <=> Complete(received_seqs'[f], Size[f])
    <2>1. FlowOK(f)
      BY DEF HostInv
    <2>2. \A x \in SegmentsOf(f) : /\ x.begin \in Nat /\ x.size \in Nat \ {0}
                                   /\ x.begin + x.size <= next_seq_no[f]
      BY <2>1 DEF FlowOK, Tiles
    <2>3. PICK n \in Nat, z \in Nat \ {0} : n = next_seq_no[f] /\ z = Size[f] /\ n <= z
      BY <2>1 DEF FlowOK, HostAssumption
    <2>4. \A x \in received_seqs'[f] : /\ x.begin \in Nat /\ x.size \in Nat \ {0}
                                       /\ x.begin + x.size <= z
      BY <2>2, <2>3, DataSegments
    <2> QED
      BY <2>3, <2>4, RecvTillFacts
  <1>4. ASSUME NEW f \in Flow, Complete(received_seqs[f], Size[f])
        PROVE  Complete(received_seqs'[f], Size[f])
    BY <1>4, DataSegments DEF Complete
  <1>5. ASSUME NEW f \in Flow, InPacket(f, p) = {}
        PROVE  received_seqs'[f] = received_seqs[f]
    BY <1>5, DataSegments
  <1> SUFFICES ASSUME failed' = "no", NEW f \in Flow
               PROVE  finished'[f] <=> Complete(received_seqs'[f], Size[f])
    BY DEF FinishedWhenComplete, Running, Complete, In
  <1>6. sound = done
    BY <1>1
  <1>7. finished'[f] <=> finished[f] \/ f \in done
    BY <1>1, <1>6
  <1>8. f \in done <=> InPacket(f, p) # {} /\ RecvTill(received_seqs'[f]) = Size[f]
    OBVIOUS
  <1> HIDE DEF done, sound
  <1> QED
    BY <1>2, <1>3, <1>4, <1>5, <1>7, <1>8

LEMMA HostInitially ==
  ASSUME HostAssumption, Init
  PROVE  HostInv /\ FinishedWhenComplete /\ \A d \in Dsts : DemandOf(d)
  <1>1. TypeOK
    <2>1. \A d \in Dsts : per_dst_queues[d] \in Seq([flow : Flow, remaining : Nat \ {0}])
      BY DEF Init
    <2> QED
      BY <2>1 DEF Init, TypeOK, HostAssumption
  <1>2. ASSUME NEW f \in Flow PROVE FlowOK(f)
    <2>1. SegmentsOf(f) = {}
      BY DEF Init, SegmentsOf
    <2>2. Size[f] \in Nat
      BY DEF HostAssumption
    <2> QED
      BY <2>1, <2>2 DEF FlowOK, Init, Tiles
  <1>3. ASSUME NEW d \in Dsts PROVE QueueOK(d)
    BY DEF Init, QueueOK, Distinct
  <1>4. HostInv
    BY <1>1, <1>2, <1>3, FS_EmptySet DEF HostInv, Init
  <1>5. FinishedWhenComplete
    <2> SUFFICES ASSUME NEW f \in Flow
                 PROVE  ~ \A b \in 0 .. Size[f] - 1 : \E x \in received_seqs[f] : In(b, x)
      BY DEF FinishedWhenComplete, Init, In
    <2>1. 0 \in 0 .. Size[f] - 1 /\ received_seqs[f] = {}
      BY DEF HostAssumption, Init
    <2> QED
      BY <2>1
  <1>6. ASSUME NEW d \in Dsts PROVE DemandOf(d)
    <2>1. Arrived(d) = {}
      BY DEF Init, Arrived
    <2>2. Queued(d) = 0
      <3>1. SumFunctionOnSet(Unsent, {}) = 0
        BY SumFacts, FS_EmptySet
      <3> QED
        BY <1>4, <2>1, <3>1, DemandFacts
    <2>3. PICK z \in Nat, a \in Nat, n \in Nat, m \in Nat :
            /\ z = size_table[d] /\ a = SumFunctionOnSet(Size, Announcing(d))
            /\ n = Cardinality(Granted(d)) /\ m = SlotBytes
      BY <1>4, DemandFacts
    <2>4. n * m \in Nat
      OBVIOUS
    <2>5. 0 <= z + a + n * m
      BY <2>4
    <2> QED
      BY <2>2, <2>3, <2>5 DEF DemandOf
  <1> QED
    BY <1>4, <1>5, <1>6

LEMMA HostStep ==
  ASSUME HostAssumption, HostInv, FinishedWhenComplete, \A d \in Dsts : DemandOf(d), [Next]_vars
  PROVE  HostInv' /\ FinishedWhenComplete' /\ \A d \in Dsts : DemandOf(d)'
  <1>1. CASE UNCHANGED vars
    <2>1. UNCHANGED <<now, flow_arrivals, per_dst_queues, next_seq_no, rts, size_table, schds, wire,
                      received_seqs, received_payloads, finished, failed>>
      BY <1>1 DEF vars, sender, receiver
    <2>2. TypeOK'
      BY <2>1 DEF HostInv, TypeOK, InPacket, Segments
    <2>3. HostInv'
      BY <2>1, <2>2, SameFlows DEF HostInv
    <2>4. FinishedWhenComplete'
      BY <2>1 DEF FinishedWhenComplete, Running
    <2>5. ASSUME NEW d \in Dsts PROVE DemandOf(d)'
      BY <2>1 DEF DemandOf, Queued, Announcing, Granted, SlotBytes
    <2> QED
      BY <2>3, <2>4, <2>5
  <1>2. ASSUME UNCHANGED <<received_seqs, finished, failed>> PROVE FinishedWhenComplete'
    BY <1>2 DEF FinishedWhenComplete, Running
  <1>3. CASE \E f \in Flow : FlowArrival(f)
    BY <1>2, <1>3, ArrivalStep DEF FlowArrival, receiver
  <1>4. CASE \E f \in Flow : ReceiveRts(f)
    BY <1>2, <1>4, RtsStep DEF ReceiveRts, receiver
  <1>5. CASE \E d \in Dsts, s \in now + 1 .. now + T : Grant(d, s)
    BY <1>2, <1>5, GrantStep DEF Grant, receiver
  <1>6. CASE \E g \in schds : ReceiveSchd(g)
    <2>1. PICK g \in schds : ReceiveSchd(g)
      BY <1>6
    <2>2. \A d \in Dsts : DemandOf(d)'
      BY <2>1, SchdDemand
    <2> QED
      BY <1>2, <2>1, <2>2, SchdInv DEF ReceiveSchd, receiver
  <1>7. CASE \E p \in wire : DataArrival(p)
    BY <1>7, DataStep, DataFinishes
  <1>8. CASE Tick
    BY <1>2, <1>8, TickStep DEF Tick, receiver
  <1> QED
    BY <1>1, <1>3, <1>4, <1>5, <1>6, <1>7, <1>8 DEF Next

LEMMA HostAlways ==
  ASSUME HostAssumption
  PROVE  Spec => [](HostInv /\ FinishedWhenComplete /\ \A d \in Dsts : DemandOf(d))
  <1> DEFINE I == HostInv /\ FinishedWhenComplete /\ \A d \in Dsts : DemandOf(d)
  <1>1. Init => I
    BY HostInitially
  <1>2. I /\ [Next]_vars => I'
    <2> SUFFICES ASSUME I, [Next]_vars PROVE I'
      OBVIOUS
    <2>1. HostInv' /\ FinishedWhenComplete' /\ \A d \in Dsts : DemandOf(d)'
      BY HostStep
    <2> QED
      BY <2>1 DEF Dsts
  <1> QED
    BY <1>1, <1>2, PTL DEF Spec

(***************************************************************************)
(* The theorems.                                                           *)
(***************************************************************************)

\* Every variable has its type; in particular entries used up leave the queue and
\* the arbiter's count of bytes does not go below 0 (receive_schd_and_send_data in
\* coresim/node.cpp, the served size of LocalArbiter).
THEOREM HostTyped ==
  ASSUME HostAssumption
  PROVE  Spec => []TypeOK
  <1>1. HostInv => TypeOK
    BY DEF HostInv
  <1> QED
    BY <1>1, HostAlways, PTL

\* No byte is lost, repeated or sent under a wrong number, for any flows, packet and
\* slot sizes, and however the schedules of several destinations overtake each other.
THEOREM BytesAreConserved ==
  ASSUME HostAssumption
  PROVE  Spec => []BytesConserved
  <1>1. HostInv => BytesConserved
    <2> SUFFICES ASSUME HostInv, NEW f \in Flow
                 PROVE  /\ \A b \in 0 .. Size[f] - 1 :
                             Cardinality({x \in SegmentsOf(f) : x.begin <= b /\ b < x.begin + x.size})
                               = IF b < next_seq_no[f] THEN 1 ELSE 0
                        /\ f \notin flow_arrivals /\ next_seq_no[f] < Size[f] =>
                             \E j \in 1 .. Len(per_dst_queues[Dst[f]]) :
                               per_dst_queues[Dst[f]][j] =
                                 [flow |-> f, remaining |-> Size[f] - next_seq_no[f]]
      BY DEF BytesConserved
    <2>1. ASSUME NEW b \in 0 .. Size[f] - 1
          PROVE  Cardinality({x \in SegmentsOf(f) : x.begin <= b /\ b < x.begin + x.size})
                   = IF b < next_seq_no[f] THEN 1 ELSE 0
      <3> DEFINE X == {x \in SegmentsOf(f) : In(b, x)}
      <3>1. PICK n \in Nat : n = next_seq_no[f] /\ Tiles(SegmentsOf(f), 0, n)
        BY DEF HostInv, FlowOK, TypeOK
      <3>2. b \in Nat
        BY DEF HostAssumption
      <3>3. CASE b < n
        <4>1. PICK x \in SegmentsOf(f) : In(b, x)
          BY <3>1, <3>2, <3>3 DEF Tiles
        <4>2. X = {x}
          BY <3>1, <3>2, <4>1 DEF Tiles
        <4> QED
          BY <3>1, <3>3, <4>2, FS_Singleton DEF In
      <3>4. CASE ~(b < n)
        <4>1. ASSUME NEW x \in SegmentsOf(f), In(b, x) PROVE FALSE
          <5>1. x.begin \in Nat /\ x.size \in Nat /\ x.begin + x.size <= n
            BY <3>1 DEF Tiles
          <5> QED
            BY <3>2, <3>4, <4>1, <5>1 DEF In
        <4>2. X = {}
          BY <4>1
        <4> QED
          BY <3>1, <3>4, <4>2, FS_EmptySet DEF In
      <3> QED
        BY <3>3, <3>4
    <2>2. ASSUME f \notin flow_arrivals, next_seq_no[f] < Size[f]
          PROVE  \E j \in 1 .. Len(per_dst_queues[Dst[f]]) :
                   per_dst_queues[Dst[f]][j] = [flow |-> f, remaining |-> Size[f] - next_seq_no[f]]
      <3>1. Dst[f] \in Dsts
        BY DEF Dsts
      <3>2. PICK Q \in Seq(Entries) : Q = per_dst_queues[Dst[f]]
        BY <3>1, QueueFacts
      <3>3. PICK j \in 1 .. Len(Q) : Q[j].flow = f
        BY <2>2, <3>1, <3>2 DEF HostInv, QueueOK
      <3>4. EntryOK(Q[j], Dst[f])
        BY <3>1, <3>2, QueueFacts
      <3>5. Q[j] \in Entries
        BY <3>2
      <3>6. Q[j] = [flow |-> Q[j].flow, remaining |-> Q[j].remaining]
        BY <3>5 DEF Entries
      <3>7. Q[j].remaining = Size[f] - next_seq_no[f]
        BY <3>3, <3>4 DEF EntryOK
      <3> QED
        BY <3>2, <3>3, <3>6, <3>7
    <2> QED
      BY <2>1, <2>2
  <1> QED
    BY <1>1, HostAlways, PTL

\* The arbiter never knows of less than the host has queued, although an RTS races
\* the schedules made for earlier flows of the pair.
THEOREM DemandIsCovered ==
  ASSUME HostAssumption
  PROVE  Spec => []DemandCoversQueue
  <1>1. (\A d \in Dsts : DemandOf(d)) => DemandCoversQueue
    BY DEF DemandOf, DemandCoversQueue, Announcing, Granted
  <1> QED
    BY <1>1, HostAlways, PTL

\* A flow is finished exactly when all its bytes have come, in whatever order; the
\* assertion of receive_data_packet stops the program where it would not be.
THEOREM FinishedIsComplete ==
  ASSUME HostAssumption
  PROVE  Spec => []FinishedWhenComplete
  BY HostAlways, PTL

=============================================================================
