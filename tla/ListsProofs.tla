---------------------------- MODULE ListsProofs ----------------------------
(* What the list operators return, for every argument.                      *)
EXTENDS Lists, Integers, FiniteSetTheorems, TLAPS

(* The rank of a number in a finite set is a position of a list of the set, *)
(* and grows with the number.                                               *)
LEMMA RankBounds ==
  ASSUME NEW S \in SUBSET Nat, IsFiniteSet(S), NEW x \in S
  PROVE  Cardinality({y \in S : y <= x}) \in 1..Cardinality(S)
<1> DEFINE below == {y \in S : y <= x}
<1>1. below \in SUBSET S /\ x \in below
  OBVIOUS
<1>2. IsFiniteSet(below) /\ Cardinality(below) <= Cardinality(S)
  BY <1>1, FS_Subset
<1>3. Cardinality(below) # 0
  BY <1>1, <1>2, FS_EmptySet
<1>4. Cardinality(below) \in Nat /\ Cardinality(S) \in Nat
  BY <1>2, FS_CardinalityType
<1> QED
  BY <1>2, <1>3, <1>4

(* A larger element of a set has more elements up to it. *)
LEMMA RankGrows ==
  ASSUME NEW S \in SUBSET Nat, IsFiniteSet(S), NEW x \in S, NEW z \in S, x < z
  PROVE  Cardinality({y \in S : y <= x}) < Cardinality({y \in S : y <= z})
<1> DEFINE low == {y \in S : y <= x}
           high == {y \in S : y <= z}
<1>1. low \in SUBSET high /\ z \in high /\ z \notin low /\ high \in SUBSET S
  <2>1. \A y \in S : y <= x => y <= z
    OBVIOUS
  <2>2. ~(z <= x) /\ z <= z
    OBVIOUS
  <2> QED
    BY <2>1, <2>2
<1>2. IsFiniteSet(high)
  BY <1>1, FS_Subset
<1>3. /\ IsFiniteSet(low)
      /\ Cardinality(low) <= Cardinality(high)
      /\ Cardinality(high) # Cardinality(low)
  BY <1>1, <1>2, FS_Subset
<1>4. Cardinality(low) \in Nat /\ Cardinality(high) \in Nat
  BY <1>2, <1>3, FS_CardinalityType
<1> QED
  BY <1>3, <1>4

(* Ascending lists every element of a finite set of numbers, in order. *)
LEMMA AscendingLists ==
  ASSUME NEW S \in SUBSET Nat, IsFiniteSet(S)
  PROVE  /\ Cardinality(S) \in Nat
         /\ Ascending(S) \in [1..Cardinality(S) -> S]
         /\ \A x \in S : \E n \in 1..Cardinality(S) : Ascending(S)[n] = x
         /\ \A m, n \in 1..Cardinality(S) :
              m < n => Ascending(S)[m] < Ascending(S)[n]
<1> DEFINE N == Cardinality(S)
           rank == [x \in S |-> Cardinality({y \in S : y <= x})]
<1>1. N \in Nat
  BY FS_CardinalityType
<1>2. rank \in [S -> 1..N]
  BY RankBounds
<1>3. \A x, z \in S : x < z => rank[x] < rank[z]
  BY RankGrows
<1>4. rank \in Injection(S, 1..N)
  <2>1. ASSUME NEW x \in S, NEW z \in S, rank[x] = rank[z]
        PROVE  x = z
    <3>1. x \in Nat /\ z \in Nat /\ rank[x] \in Nat /\ rank[z] \in Nat
      BY <1>1, <1>2
    <3>2. ~(x < z) /\ ~(z < x)
      BY <2>1, <1>3, <3>1
    <3> QED
      BY <3>1, <3>2
  <2> QED
    BY <1>2, <2>1 DEF Injection, IsInjective
<1>5. IsFiniteSet(1..N) /\ Cardinality(1..N) = N
  BY <1>1, FS_Interval
<1>6. rank \in Surjection(S, 1..N)
  BY <1>4, <1>5, FS_Injection
<1>7. \A n \in 1..N : \E x \in S : rank[x] = n
  BY <1>6 DEF Surjection
<1>8. \A n \in 1..N : /\ Ascending(S)[n] \in S
                       /\ Cardinality({y \in S : y <= Ascending(S)[n]}) = n
  BY <1>7, Zenon DEF Ascending
<1>9. \A n \in 1..N : Ascending(S)[n] \in S /\ rank[Ascending(S)[n]] = n
  BY <1>8
<1> HIDE DEF rank
<1>10. Ascending(S) \in [1..N -> S]
  BY <1>9 DEF Ascending
<1> HIDE DEF N
<1>11. \A x \in S : \E n \in 1..N : Ascending(S)[n] = x
  <2> TAKE x \in S
  <2>1. rank[x] \in 1..N
    BY <1>2
  <2>2. rank[Ascending(S)[rank[x]]] = rank[x] /\ Ascending(S)[rank[x]] \in S
    BY <2>1, <1>9
  <2>3. Ascending(S)[rank[x]] = x
    BY <2>2, <1>4 DEF Injection, IsInjective
  <2> QED
    BY <2>1, <2>3
<1>12. \A m, n \in 1..N : m < n => Ascending(S)[m] < Ascending(S)[n]
  <2> SUFFICES ASSUME NEW m \in 1..N, NEW n \in 1..N, m < n
               PROVE  Ascending(S)[m] < Ascending(S)[n]
    OBVIOUS
  <2> DEFINE a == Ascending(S)[m]
             b == Ascending(S)[n]
  <2>1. a \in S /\ b \in S /\ rank[a] = m /\ rank[b] = n
    BY <1>9
  <2> HIDE DEF a, b
  <2>2. a \in Nat /\ b \in Nat
    BY <2>1
  <2>3. ~(b < a) /\ a # b
    BY <2>1, <1>1, <1>3
  <2>4. a < b
    BY <2>2, <2>3
  <2> QED
    BY <2>4 DEF a, b
<1> QED
  BY <1>1, <1>10, <1>11, <1>12 DEF N

(* Every inhabited set of numbers has a least element. *)
LEMMA LeastNumber ==
  ASSUME NEW S \in SUBSET Nat, S # {}
  PROVE  \E m \in S : \A k \in S : m <= k
<1>1. PICK x \in S : TRUE
  OBVIOUS
<1> DEFINE T == {y \in S : y <= x}
           m == Ascending(T)[1]
<1>2. T \in SUBSET Nat /\ x \in T /\ \A y \in T : y <= x
  <2>1. x <= x
    BY <1>1
  <2> QED
    BY <2>1
<1>3. IsFiniteSet(T)
  BY <1>1, <1>2, FS_BoundedSetOfNaturals
<1> HIDE DEF T
<1>4. Cardinality(T) \in Nat /\ Cardinality(T) # 0
  BY <1>2, <1>3, FS_CardinalityType, FS_EmptySet
<1>5. 1 \in 1..Cardinality(T)
  BY <1>4
<1>6. m \in T
  BY <1>2, <1>3, <1>5, AscendingLists
<1>7. ASSUME NEW y \in T PROVE m <= y
  <2>1. PICK n \in 1..Cardinality(T) : Ascending(T)[n] = y
    BY <1>2, <1>3, AscendingLists
  <2>2. CASE n = 1
    BY <2>1, <2>2, <1>2
  <2>3. CASE n # 1
    <3>1. 1 < n
      BY <2>3, <1>4
    <3>2. m < Ascending(T)[n]
      BY <3>1, <1>5, <1>2, <1>3, AscendingLists
    <3>3. m \in Nat /\ y \in Nat /\ m < y
      BY <3>2, <2>1, <1>2, <1>6
    <3> HIDE DEF m
    <3> QED
      BY <3>3
  <2> QED
    BY <2>2, <2>3
<1> HIDE DEF m
<1>8. m \in S /\ m <= x
  BY <1>6, <1>7, <1>2 DEF T
<1>9. ASSUME NEW y \in S PROVE m <= y
  <2>1. CASE y <= x
    BY <2>1, <1>7 DEF T
  <2>2. CASE ~(y <= x)
    BY <2>2, <1>8, <1>1
  <2> QED
    BY <2>1, <2>2
<1> QED
  BY <1>8, <1>9

(* Induction over an interval, for a set given by its elements. *)
LEMMA IntervalInduction ==
  ASSUME NEW n \in Nat, NEW S, 0 \in S, \A k \in 1..n : k - 1 \in S => k \in S
  PROVE  0..n \subseteq S
<1> SUFFICES ASSUME NEW x \in 0..n, x \notin S PROVE FALSE
  OBVIOUS
<1> DEFINE bad == {k \in 0..n : k \notin S}
<1>1. bad \in SUBSET Nat /\ bad # {}
  OBVIOUS
<1> HIDE DEF bad
<1>2. PICK m \in bad : \A k \in bad : m <= k
  BY <1>1, LeastNumber
<1>3. m \in 0..n /\ m \notin S
  BY DEF bad
<1>4. m \in 1..n /\ m - 1 \in 0..n /\ ~(m <= m - 1)
  BY <1>3
<1>5. m - 1 \notin bad
  BY <1>2, <1>4
<1>6. m - 1 \in S
  BY <1>4, <1>5 DEF bad
<1> QED
  BY <1>3, <1>4, <1>6

(* The positions that Ascending gives its elements are their own. *)
LEMMA AscendingOnce ==
  ASSUME NEW S \in SUBSET Nat, IsFiniteSet(S),
         NEW m \in 1..Cardinality(S), NEW n \in 1..Cardinality(S),
         Ascending(S)[m] = Ascending(S)[n]
  PROVE  m = n
<1>1. Cardinality(S) \in Nat
  BY FS_CardinalityType
<1>2. Ascending(S)[m] \in Nat /\ Ascending(S)[n] \in Nat
  BY AscendingLists
<1>3. ~(m < n) /\ ~(n < m)
  BY <1>2, AscendingLists
<1> QED
  BY <1>1, <1>3

(* A list that is not empty has a first element. *)
LEMMA FirstElement ==
  ASSUME NEW T, NEW s \in Seq(T), s # <<>>
  PROVE  1 \in DOMAIN s /\ s[1] \in T
<1>1. Len(s) \in Nat /\ Len(s) # 0 /\ DOMAIN s = 1..Len(s)
  OBVIOUS
<1> QED
  BY <1>1

(* Pick takes each chosen position once, in order. *)
LEMMA PickFacts ==
  ASSUME NEW T, NEW s \in Seq(T), NEW I \in SUBSET DOMAIN s
  PROVE  /\ Pick(s, I) \in Seq(T)
         /\ \E f \in [DOMAIN Pick(s, I) -> I] :
              /\ \A k \in DOMAIN Pick(s, I) : Pick(s, I)[k] = s[f[k]]
              /\ \A i \in I : \E k \in DOMAIN Pick(s, I) : f[k] = i
              /\ \A k, l \in DOMAIN Pick(s, I) : f[k] = f[l] => k = l
<1> DEFINE f == Ascending(I)
           N == Cardinality(I)
<1>1. I \in SUBSET Nat /\ IsFiniteSet(I)
  <2>1. DOMAIN s = 1..Len(s) /\ Len(s) \in Nat
    OBVIOUS
  <2>2. IsFiniteSet(1..Len(s))
    BY <2>1, FS_Interval
  <2> QED
    BY <2>1, <2>2, FS_Subset
<1>2. N \in Nat /\ f \in [1..N -> I] /\ \A i \in I : \E n \in 1..N : f[n] = i
  BY <1>1, AscendingLists
<1>3. \A m, n \in 1..N : f[m] = f[n] => m = n
  BY <1>1, AscendingOnce
<1>4. Pick(s, I) = [k \in DOMAIN f |-> s[f[k]]]
  BY DEF Pick
<1> HIDE DEF f, N
<1>5. DOMAIN Pick(s, I) = 1..N /\ \A k \in 1..N : Pick(s, I)[k] = s[f[k]]
  BY <1>2, <1>4
<1>6. \A k \in 1..N : s[f[k]] \in T
  BY <1>2
<1>7. Pick(s, I) \in Seq(T)
  BY <1>2, <1>4, <1>6
<1>8. /\ f \in [DOMAIN Pick(s, I) -> I]
      /\ \A i \in I : \E k \in DOMAIN Pick(s, I) : f[k] = i
      /\ \A k, l \in DOMAIN Pick(s, I) : f[k] = f[l] => k = l
      /\ \A k \in DOMAIN Pick(s, I) : Pick(s, I)[k] = s[f[k]]
  BY <1>2, <1>3, <1>5
<1> QED
  BY <1>7, <1>8

(* The elements of a concatenation, by position. *)
LEMMA ConcatElements ==
  ASSUME NEW T, NEW s \in Seq(T), NEW t \in Seq(T)
  PROVE  /\ s \o t \in Seq(T)
         /\ \A i \in DOMAIN s : i \in DOMAIN (s \o t) /\ (s \o t)[i] = s[i]
         /\ \A j \in DOMAIN t : /\ Len(s) + j \in DOMAIN (s \o t)
                                /\ (s \o t)[Len(s) + j] = t[j]
         /\ \A k \in DOMAIN (s \o t) :
              \/ k \in DOMAIN s
              \/ \E j \in DOMAIN t : k = Len(s) + j
<1>1. /\ Len(s) \in Nat /\ DOMAIN s = 1..Len(s)
      /\ Len(t) \in Nat /\ DOMAIN t = 1..Len(t)
  OBVIOUS
<1>2. s \o t \in Seq(T) /\ Len(s \o t) = Len(s) + Len(t) /\ DOMAIN (s \o t) = 1..(Len(s) + Len(t))
  BY <1>1
<1>3. \A i \in DOMAIN s : i \in DOMAIN (s \o t) /\ (s \o t)[i] = s[i]
  BY <1>1, <1>2
<1>4. \A j \in DOMAIN t : Len(s) + j \in DOMAIN (s \o t) /\ (s \o t)[Len(s) + j] = t[j]
  BY <1>1, <1>2
<1>5. ASSUME NEW k \in DOMAIN (s \o t), k \notin DOMAIN s
      PROVE  \E j \in DOMAIN t : k = Len(s) + j
  <2>1. k - Len(s) \in 1..Len(t) /\ k = Len(s) + (k - Len(s))
    BY <1>1, <1>2, <1>5
  <2> QED
    BY <2>1, <1>1
<1> QED
  BY <1>2, <1>3, <1>4, <1>5

-----------------------------------------------------------------------------
(* Products and quotients.                                                  *)

(* Natural numbers are closed under products. *)
LEMMA ProductType ==
  ASSUME NEW a \in Nat, NEW n \in Nat
  PROVE  a * n \in Nat
OBVIOUS

(* One more factor adds at least n. *)
LEMMA ProductGrows ==
  ASSUME NEW a \in Nat, NEW b \in Nat, NEW n \in Nat, a < b
  PROVE  a * n + n <= b * n
<1>1. b * n = a * n + n + (b - a - 1) * n
  OBVIOUS
<1>2. b - a - 1 \in Nat
  OBVIOUS
<1>3. (b - a - 1) * n \in Nat
  BY <1>2, ProductType
<1> QED
  BY <1>1, <1>3, ProductType

(* Quotient and remainder. *)
LEMMA DivMod ==
  ASSUME NEW a \in Nat, NEW n \in Nat \ {0}
  PROVE  /\ a \div n \in Nat
         /\ a % n \in 0..(n - 1)
         /\ a = (a \div n) * n + (a % n)
OBVIOUS

(* A number is written with a remainder below n in one way; the quotient. *)
LEMMA QuotientUnique ==
  ASSUME NEW q \in Nat, NEW n \in Nat \ {0}, NEW r \in 0..(n - 1)
  PROVE  (q * n + r) \div n = q
<1> DEFINE a == q * n + r
           p == a \div n
<1>1. a \in Nat /\ q * n \in Nat
  BY ProductType
<1>2. a = q * n + r
  OBVIOUS
<1> HIDE DEF a
<1>3. p \in Nat /\ p * n <= a /\ a < p * n + n /\ p * n \in Nat
  <2> DEFINE m == a % n
  <2>1. p \in Nat /\ m \in 0..(n - 1) /\ a = p * n + m
    BY <1>1, DivMod
  <2> HIDE DEF p, m
  <2>2. p * n \in Nat
    BY <2>1, ProductType
  <2> QED
    BY <2>1, <2>2
<1> HIDE DEF p
<1>4. ~(p < q)
  <2> SUFFICES ASSUME p < q PROVE FALSE
    OBVIOUS
  <2>1. p * n + n <= q * n
    BY <1>3, ProductGrows
  <2> QED
    BY <2>1, <1>1, <1>2, <1>3
<1>5. ~(q < p)
  <2> SUFFICES ASSUME q < p PROVE FALSE
    OBVIOUS
  <2>1. q * n + n <= p * n
    BY <1>3, ProductGrows
  <2> QED
    BY <2>1, <1>1, <1>2, <1>3
<1>6. p = q
  BY <1>3, <1>4, <1>5
<1> QED
  BY <1>6 DEF p, a

(* ... and the remainder. *)
LEMMA RemainderUnique ==
  ASSUME NEW q \in Nat, NEW n \in Nat \ {0}, NEW r \in 0..(n - 1)
  PROVE  (q * n + r) % n = r
<1> DEFINE a == q * n + r
<1>1. q * n \in Nat /\ a \in Nat /\ a = q * n + r
  BY ProductType
<1>2. a \div n = q
  BY QuotientUnique
<1> HIDE DEF a
<1>3. a % n \in 0..(n - 1) /\ a = (a \div n) * n + (a % n)
  BY <1>1, DivMod
<1>4. a % n = r
  BY <1>1, <1>2, <1>3
<1> QED
  BY <1>4 DEF a

(* A number names its row and its column in rows of n. *)
LEMMA RowUnique ==
  ASSUME NEW p \in Nat, NEW q \in Nat, NEW n \in Nat \ {0},
         NEW i \in 1..n, NEW j \in 1..n, p * n + i = q * n + j
  PROVE  p = q /\ i = j
<1>1. p * n \in Nat /\ q * n \in Nat
  BY ProductType
<1>2. ~(p < q)
  <2> SUFFICES ASSUME p < q PROVE FALSE
    OBVIOUS
  <2>1. p * n + n <= q * n
    BY ProductGrows
  <2> QED
    BY <2>1, <1>1
<1>3. ~(q < p)
  <2> SUFFICES ASSUME q < p PROVE FALSE
    OBVIOUS
  <2>1. q * n + n <= p * n
    BY ProductGrows
  <2> QED
    BY <2>1, <1>1
<1>4. p = q
  BY <1>2, <1>3
<1> QED
  BY <1>1, <1>4

-----------------------------------------------------------------------------
(* Chunk cuts a list into pieces of at most n, none of them empty.          *)

(* The number of pieces of n that L elements need. *)
LEMMA ChunkCount ==
  ASSUME NEW L \in Nat, NEW n \in Nat \ {0}
  PROVE  LET C == (L + n - 1) \div n
         IN /\ C \in Nat
            /\ C * n \in Nat
            /\ L <= C * n
            /\ C * n < L + n
            /\ L = 0 <=> C = 0
<1> DEFINE a == L + n - 1
           C == a \div n
           r == a % n
<1>1. a \in Nat /\ a = L + n - 1
  OBVIOUS
<1>2. C \in Nat /\ r \in 0..(n - 1) /\ a = C * n + r /\ C * n \in Nat
  BY <1>1, DivMod, ProductType
<1> HIDE DEF C, r, a
<1>3. L <= C * n /\ C * n < L + n
  BY <1>1, <1>2
<1>4. L = 0 => C = 0
  <2> SUFFICES ASSUME L = 0, C # 0 PROVE FALSE
    OBVIOUS
  <2>1. 0 * n + n <= C * n
    BY <1>2, ProductGrows
  <2> QED
    BY <2>1, <1>2, <1>3
<1>5. C = 0 => L = 0
  BY <1>3
<1> QED
  BY <1>2, <1>3, <1>4, <1>5 DEF C, a

(* A piece has between 1 and n elements, those of the list in its place. *)
LEMMA ChunkPiece ==
  ASSUME NEW T, NEW s \in Seq(T), NEW n \in Nat \ {0}, NEW k \in DOMAIN Chunk(s, n)
  PROVE  /\ k \in Nat \ {0}
         /\ Chunk(s, n)[k] \in Seq(T)
         /\ Len(Chunk(s, n)[k]) \in 1..n
         /\ \A j \in DOMAIN Chunk(s, n)[k] :
              /\ j \in 1..n
              /\ (k - 1) * n + j \in DOMAIN s
              /\ Chunk(s, n)[k][j] = s[(k - 1) * n + j]
<1> DEFINE C == (Len(s) + n - 1) \div n
           lo == (k - 1) * n
           hi == IF k * n < Len(s) THEN k * n ELSE Len(s)
<1>1. Len(s) \in Nat /\ DOMAIN s = 1..Len(s)
  OBVIOUS
<1>2. C \in Nat /\ C * n \in Nat /\ C * n < Len(s) + n
  BY <1>1, ChunkCount
<1>3. k \in 1..C /\ Chunk(s, n)[k] = SubSeq(s, lo + 1, hi)
  BY DEF Chunk
<1> HIDE DEF C
<1>4. k - 1 \in Nat /\ k \in Nat \ {0} /\ k - 1 < C
  BY <1>2, <1>3
<1>5. lo \in Nat /\ lo + n <= C * n /\ k * n = lo + n
  BY <1>4, <1>2, ProductGrows, ProductType
<1> HIDE DEF lo
<1>6. lo < Len(s)
  BY <1>5, <1>2, <1>1
<1>7. hi \in Nat /\ lo < hi /\ hi <= Len(s) /\ hi <= lo + n
  BY <1>6, <1>5, <1>1
<1> HIDE DEF hi
<1>8. /\ SubSeq(s, lo + 1, hi) \in Seq(T)
      /\ Len(SubSeq(s, lo + 1, hi)) = hi - lo
      /\ \A j \in 1..(hi - lo) : SubSeq(s, lo + 1, hi)[j] = s[lo + j]
  BY <1>1, <1>5, <1>7
<1>9. hi - lo \in 1..n
  BY <1>5, <1>7
<1>10. \A j \in 1..(hi - lo) : j \in 1..n /\ lo + j \in 1..Len(s)
  BY <1>1, <1>5, <1>7, <1>9
<1>11. DOMAIN SubSeq(s, lo + 1, hi) = 1..(hi - lo)
  BY <1>8
<1> QED
  BY <1>1, <1>3, <1>4, <1>8, <1>9, <1>10, <1>11 DEF lo

(* Every element of the list is in some piece. *)
LEMMA ChunkCovers ==
  ASSUME NEW T, NEW s \in Seq(T), NEW n \in Nat \ {0}, NEW i \in DOMAIN s
  PROVE  \E k \in DOMAIN Chunk(s, n) : \E j \in DOMAIN Chunk(s, n)[k] :
           i = (k - 1) * n + j
<1> DEFINE C == (Len(s) + n - 1) \div n
           q == (i - 1) \div n
           k == q + 1
           j == ((i - 1) % n) + 1
           hi == IF k * n < Len(s) THEN k * n ELSE Len(s)
<1>1. Len(s) \in Nat /\ i \in 1..Len(s)
  OBVIOUS
<1>2. C \in Nat /\ C * n \in Nat /\ Len(s) <= C * n
  BY <1>1, ChunkCount
<1>3. q \in Nat /\ j \in 1..n /\ i = q * n + j /\ q * n \in Nat
  <2> DEFINE a == i - 1
             r == a % n
  <2>1. a \in Nat /\ i = a + 1
    BY <1>1
  <2> HIDE DEF a
  <2>2. a \div n \in Nat /\ r \in 0..(n - 1) /\ a = (a \div n) * n + r
    BY <2>1, DivMod
  <2>3. q = a \div n /\ j = r + 1
    BY DEF a
  <2> HIDE DEF r, q, j
  <2>4. q * n \in Nat
    BY <2>2, <2>3, ProductType
  <2> QED
    BY <2>1, <2>2, <2>3, <2>4
<1> HIDE DEF C, q, j
<1>4. q < C
  <2> SUFFICES ASSUME ~(q < C) PROVE FALSE
    OBVIOUS
  <2>1. C * n <= q * n
    <3>1. CASE C = q
      BY <3>1, <1>2
    <3>2. CASE C < q
      BY <3>2, <1>2, <1>3, ProductGrows
    <3> QED
      BY <3>1, <3>2, <1>2, <1>3
  <2> QED
    BY <2>1, <1>1, <1>2, <1>3
<1>5. k \in 1..C /\ k \in Nat /\ k - 1 = q /\ k * n = q * n + n
  BY <1>2, <1>3, <1>4
<1> HIDE DEF k
<1>6. k \in DOMAIN Chunk(s, n) /\ Chunk(s, n)[k] = SubSeq(s, q * n + 1, hi)
  BY <1>5 DEF Chunk, C
<1>7. hi \in Nat /\ q * n < hi /\ hi <= Len(s) /\ j <= hi - q * n
  BY <1>1, <1>3, <1>5
<1> HIDE DEF hi
<1>8. Len(SubSeq(s, q * n + 1, hi)) = hi - q * n
  BY <1>1, <1>3, <1>7
<1>9. SubSeq(s, q * n + 1, hi) \in Seq(T)
  BY <1>1, <1>3, <1>7
<1>10. j \in DOMAIN Chunk(s, n)[k]
  BY <1>3, <1>6, <1>7, <1>8, <1>9
<1> QED
  BY <1>3, <1>5, <1>6, <1>10

(* The pieces are lists, and a list with elements has a piece. *)
LEMMA ChunkType ==
  ASSUME NEW T, NEW s \in Seq(T), NEW n \in Nat \ {0}
  PROVE  /\ Chunk(s, n) \in Seq(Seq(T))
         /\ s # <<>> => Chunk(s, n) # <<>>
<1> DEFINE C == (Len(s) + n - 1) \div n
           piece(k) == SubSeq(s, (k - 1) * n + 1, IF k * n < Len(s) THEN k * n ELSE Len(s))
<1>1. Len(s) \in Nat
  OBVIOUS
<1>2. C \in Nat /\ (Len(s) = 0 <=> C = 0)
  BY <1>1, ChunkCount
<1>3. Chunk(s, n) = [k \in 1..C |-> piece(k)]
  BY DEF Chunk
<1>4. \A k \in DOMAIN Chunk(s, n) : Chunk(s, n)[k] \in Seq(T)
  BY ChunkPiece
<1> HIDE DEF C, piece
<1>5. DOMAIN Chunk(s, n) = 1..C
  BY <1>3
<1>6. \A k \in 1..C : piece(k) \in Seq(T)
  BY <1>3, <1>4, <1>5
<1>7. Chunk(s, n) \in Seq(Seq(T))
  BY <1>2, <1>3, <1>6
<1>8. s # <<>> => C # 0
  BY <1>2
<1>9. C # 0 => 1 \in DOMAIN Chunk(s, n)
  BY <1>2, <1>5
<1>10. C # 0 => Chunk(s, n) # <<>>
  BY <1>9
<1> QED
  BY <1>7, <1>8, <1>10

(* No two places of the pieces hold the same position of the list. *)
LEMMA ChunkOnce ==
  ASSUME NEW T, NEW s \in Seq(T), NEW n \in Nat \ {0},
         NEW k \in DOMAIN Chunk(s, n), NEW i \in DOMAIN Chunk(s, n)[k],
         NEW l \in DOMAIN Chunk(s, n), NEW j \in DOMAIN Chunk(s, n)[l],
         (k - 1) * n + i = (l - 1) * n + j
  PROVE  k = l /\ i = j
<1>1. k \in Nat \ {0} /\ l \in Nat \ {0} /\ i \in 1..n /\ j \in 1..n
  BY ChunkPiece
<1>2. k - 1 \in Nat /\ l - 1 \in Nat
  BY <1>1
<1>3. k - 1 = l - 1 /\ i = j
  BY <1>1, <1>2, RowUnique
<1> QED
  BY <1>1, <1>3
=============================================================================
