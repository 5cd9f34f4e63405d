---------------------- MODULE ProfileCompositesProofs ----------------------
(***************************************************************************)
(* The composite devices of the profile, for every host and every limit:   *)
(* how the shared counters are packed into sets, which trays keep their    *)
(* device, and which meshes are published.                                 *)
(***************************************************************************)
EXTENDS ProfileProofs

(* The packing after a tray of the given size. *)
Step(at, size) ==
  LET b == BeginTray(at, size)
  IN [set |-> SetAt(b, size), fill |-> ((b.fill + size - 1) % MaxCountersPerSet) + 1]

Origin == [set |-> 0, fill |-> 0]

Extends(g, trays, m) ==
  g = [k \in 0..m |-> IF k = 0 THEN Origin ELSE Step(g[k - 1], Len(trays[k].bundles))]

(* The packing can be carried on tray by tray, for any number of trays. *)
LEMMA PackingExists ==
  ASSUME NEW trays, NEW n \in Nat
  PROVE  \E g : Extends(g, trays, n)
<1> DEFINE S == {m \in 0..n : \E g : Extends(g, trays, m)}
<1>1. 0 \in S
  <2> DEFINE g == [k \in 0..0 |-> Origin]
  <2>1. Extends(g, trays, 0)
    BY DEF Extends
  <2>2. \E f : Extends(f, trays, 0)
    BY <2>1
  <2> QED
    BY <2>2
<1>2. ASSUME NEW m \in 1..n, m - 1 \in S PROVE m \in S
  <2>1. PICK f : Extends(f, trays, m - 1)
    BY <1>2
  <2> DEFINE g == [k \in 0..m |-> IF k = m THEN Step(f[m - 1], Len(trays[m].bundles)) ELSE f[k]]
             e == [k \in 0..m |-> IF k = 0 THEN Origin ELSE Step(g[k - 1], Len(trays[k].bundles))]
  <2>2. m - 1 \in 0..m /\ m - 1 # m /\ m # 0 /\ m \in 0..m
    OBVIOUS
  <2>3. \A k \in 0..(m - 1) : f[k] = IF k = 0 THEN Origin ELSE Step(f[k - 1], Len(trays[k].bundles))
    BY <2>1 DEF Extends
  <2>4. ASSUME NEW k \in 0..m PROVE g[k] = e[k]
    <3>1. CASE k = m
      BY <2>2, <3>1
    <3>2. CASE k # m
      <4>1. k \in 0..(m - 1) /\ (k # 0 => k - 1 \in 0..m /\ k - 1 # m)
        BY <3>2
      <4>2. g[k] = f[k]
        BY <3>2
      <4>3. k # 0 => g[k - 1] = f[k - 1]
        BY <4>1
      <4> HIDE DEF g
      <4> QED
        BY <2>3, <4>1, <4>2, <4>3
    <3> QED
      BY <3>1, <3>2
  <2>5. g = e
    BY <2>4, Zenon
  <2>6. Extends(g, trays, m)
    BY <2>5 DEF Extends
  <2>7. \E f_1 : Extends(f_1, trays, m)
    BY <2>6
  <2> QED
    BY <2>7
<1> HIDE DEF S
<1>3. 0..n \subseteq S
  BY <1>1, <1>2, IntervalInduction
<1>4. n \in S
  BY <1>3
<1> QED
  BY <1>4 DEF S

(* The packing satisfies the equation that defines it. *)
LEMMA PackedEquation ==
  ASSUME NEW T, NEW trays \in Seq(T)
  PROVE  /\ Packed(trays)[0] = Origin
         /\ \A k \in 1..Len(trays) :
              Packed(trays)[k] = Step(Packed(trays)[k - 1], Len(trays[k].bundles))
<1>1. Len(trays) \in Nat
  OBVIOUS
<1>2. \E g : Extends(g, trays, Len(trays))
  BY <1>1, PackingExists, Zenon
<1>3. Packed(trays) = CHOOSE g : Extends(g, trays, Len(trays))
  BY DEF Packed, Extends, Step, Origin
<1>4. Extends(Packed(trays), trays, Len(trays))
  BY <1>2, <1>3
<1> QED
  BY <1>1, <1>4 DEF Extends

-----------------------------------------------------------------------------
(* Counting the counters in a row: a counter's set is its position divided *)
(* by the size of a set.                                                   *)

M == MaxCountersPerSet

Filling == [set : Nat, fill : 0..M]

(* The first position that is free, if the set of the filling is not full. *)
End(at) == at.set * M + at.fill

(* A set holds at least one counter. *)
LEMMA MIsPositive == M \in Nat \ {0}
BY LimitsAssumption DEF M

(* A state of the packing ends at a natural position. *)
LEMMA EndType ==
  ASSUME NEW at \in Filling
  PROVE  at.set \in Nat /\ at.fill \in 0..M /\ at.set * M \in Nat /\ End(at) \in Nat
<1>1. at.set \in Nat /\ at.fill \in 0..M
  BY DEF Filling
<1>2. at.set * M \in Nat
  BY <1>1, MIsPositive, ProductType
<1> QED
  BY <1>1, <1>2, MIsPositive DEF End

(* A tray begins where the last one ended or at a new set, and either fits *)
(* or begins at a set's first counter.                                     *)
LEMMA BeginTrayFacts ==
  ASSUME NEW at \in Filling, NEW size \in Nat \ {0}
  PROVE  LET b == BeginTray(at, size)
         IN /\ b \in Filling
            /\ End(at) <= End(b)
            /\ b.fill = 0 \/ b.fill + size <= M
            /\ \/ b = at
               \/ at.fill # 0 /\ b.set = at.set + 1 /\ b.fill = 0
<1>1. at.set \in Nat /\ at.fill \in 0..M /\ at.set * M \in Nat /\ M \in Nat \ {0}
  BY EndType, MIsPositive
<1>2. CASE at.fill > 0 /\ at.fill + size > M
  <2> DEFINE b == [set |-> at.set + 1, fill |-> 0]
  <2>1. BeginTray(at, size) = b
    BY <1>2 DEF BeginTray, M
  <2>2. b \in Filling
    BY <1>1 DEF Filling
  <2>3. (at.set + 1) * M = at.set * M + M
    BY <1>1
  <2>4. End(at) <= End(b)
    BY <1>1, <2>3 DEF End
  <2>5. at.fill # 0 /\ b.set = at.set + 1 /\ b.fill = 0
    BY <1>1, <1>2
  <2> QED
    BY <2>1, <2>2, <2>4, <2>5
<1>3. CASE ~(at.fill > 0 /\ at.fill + size > M)
  <2>1. BeginTray(at, size) = at
    BY <1>3 DEF BeginTray, M
  <2>2. at.fill = 0 \/ at.fill + size <= M
    BY <1>1, <1>3
  <2>3. End(at) <= End(at)
    BY EndType
  <2> QED
    BY <2>1, <2>2, <2>3
<1> QED
  BY <1>2, <1>3

(* The set of a counter is its position divided by the size of a set. *)
LEMMA SetAtFacts ==
  ASSUME NEW b \in Filling, NEW j \in Nat \ {0}
  PROVE  /\ SetAt(b, j) = (End(b) + j - 1) \div M
         /\ SetAt(b, j) \in Nat
         /\ SetAt(b, j) * M + ((b.fill + j - 1) % M) = End(b) + j - 1
         /\ (b.fill + j - 1) % M \in 0..(M - 1)
<1> DEFINE a == b.fill + j - 1
           q == a \div M
           r == a % M
           s == b.set
<1>1. s \in Nat /\ b.fill \in 0..M /\ s * M \in Nat /\ M \in Nat \ {0} /\ End(b) = s * M + b.fill
  BY EndType, MIsPositive DEF End
<1>2. a \in Nat /\ a = b.fill + j - 1
  BY <1>1
<1>3. SetAt(b, j) = s + q
  BY DEF SetAt, M
<1> HIDE DEF a, s
<1>4. q \in Nat /\ r \in 0..(M - 1) /\ a = q * M + r
  BY <1>1, <1>2, DivMod, Zenon
<1> HIDE DEF q, r
<1>5. q * M \in Nat /\ (s + q) * M = s * M + q * M
  BY <1>1, <1>4, ProductType
<1>6. End(b) + j - 1 = (s + q) * M + r /\ s + q \in Nat
  BY <1>1, <1>2, <1>4, <1>5
<1>7. ((s + q) * M + r) \div M = s + q
  BY <1>1, <1>4, <1>6, QuotientUnique, Zenon
<1> QED
  BY <1>3, <1>4, <1>6, <1>7 DEF a, r

(* A tray moves the end of the packing on by its size. *)
LEMMA StepFacts ==
  ASSUME NEW at \in Filling, NEW size \in Nat \ {0}
  PROVE  /\ Step(at, size) \in Filling
         /\ Step(at, size).fill \in 1..M
         /\ End(Step(at, size)) = End(BeginTray(at, size)) + size
<1> DEFINE b == BeginTray(at, size)
           r == (b.fill + size - 1) % M
           n == Step(at, size)
<1>1. b \in Filling
  BY BeginTrayFacts
<1>2. n = [set |-> SetAt(b, size), fill |-> r + 1]
  BY DEF Step, M
<1> HIDE DEF b
<1>3. /\ SetAt(b, size) \in Nat /\ r \in 0..(M - 1)
      /\ SetAt(b, size) * M + r = End(b) + size - 1
  BY <1>1, SetAtFacts
<1>4. End(b) \in Nat /\ M \in Nat \ {0} /\ SetAt(b, size) * M \in Nat
  BY <1>1, <1>3, EndType, MIsPositive, ProductType
<1> HIDE DEF r, n
<1>5. n.set = SetAt(b, size) /\ n.fill = r + 1 /\ r + 1 \in 1..M /\ r + 1 \in 0..M
  BY <1>2, <1>3, <1>4
<1>6. n \in Filling
  BY <1>2, <1>3, <1>5 DEF Filling
<1>7. End(n) = End(b) + size
  BY <1>3, <1>4, <1>5 DEF End
<1> QED
  BY <1>5, <1>6, <1>7 DEF n, b

-----------------------------------------------------------------------------
(* The packing of the trays of a host.                                      *)

Size(h, k) == Len(TraysOfHost(h)[k].bundles)

(* The position of a tray's first counter. *)
First(h, k) == End(BeginTray(Packed(TraysOfHost(h))[k - 1], Size(h, k)))

(* Every tray of a host has at least one bundle. *)
LEMMA TraySizes ==
  ASSUME NEW h \in Hosts
  PROVE  /\ Len(TraysOfHost(h)) \in Nat
         /\ DOMAIN TraysOfHost(h) = 1..Len(TraysOfHost(h))
         /\ \A k \in 1..Len(TraysOfHost(h)) :
              Size(h, k) \in Nat \ {0} /\ DOMAIN TraysOfHost(h)[k].bundles = 1..Size(h, k)
<1> DEFINE G == TraysOfHost(h)
<1>1. G \in Seq([trayID : Nat, bundles : Seq(Anchored(h.asics))])
  BY TraysFacts
<1> HIDE DEF G
<1>2. Len(G) \in Nat /\ DOMAIN G = 1..Len(G)
  BY <1>1
<1>3. ASSUME NEW k \in 1..Len(G)
      PROVE  Len(G[k].bundles) \in Nat \ {0} /\ DOMAIN G[k].bundles = 1..Len(G[k].bundles)
  <2> DEFINE b == G[k].bundles
  <2>1. b \in Seq(Anchored(h.asics)) /\ 1 \in DOMAIN b
    BY <1>2, TrayMembers DEF G
  <2> HIDE DEF b
  <2>2. Len(b) \in Nat /\ DOMAIN b = 1..Len(b)
    BY <2>1
  <2>3. Len(b) # 0
    BY <2>1, <2>2
  <2> QED
    BY <2>2, <2>3 DEF b
<1> QED
  BY <1>2, <1>3 DEF G, Size

(* What the packing of a host's trays looks like after each of them. *)
LEMMA PackedFacts ==
  ASSUME NEW h \in Hosts
  PROVE  LET P == Packed(TraysOfHost(h))
             n == Len(TraysOfHost(h))
         IN /\ \A k \in 0..n : P[k] \in Filling
            /\ P[0] = Origin
            /\ \A k \in 1..n : /\ P[k] = Step(P[k - 1], Size(h, k))
                               /\ P[k].fill \in 1..M
                               /\ End(P[k - 1]) <= First(h, k)
                               /\ End(P[k]) = First(h, k) + Size(h, k)
<1> DEFINE G == TraysOfHost(h)
           P == Packed(G)
           n == Len(G)
           S == {k \in 0..n : P[k] \in Filling}
<1>1. G \in Seq([trayID : Nat, bundles : Seq(Anchored(h.asics))])
  BY TraysFacts
<1>2. n \in Nat /\ \A k \in 1..n : Size(h, k) \in Nat \ {0}
  BY TraySizes
<1>3. P[0] = Origin /\ \A k \in 1..n : P[k] = Step(P[k - 1], Size(h, k))
  BY <1>1, PackedEquation DEF Size
<1> HIDE DEF G, P, n
<1>4. 0 \in S
  <2>1. Origin \in Filling
    BY MIsPositive DEF Origin, Filling
  <2> QED
    BY <1>2, <1>3, <2>1
<1>5. \A k \in 1..n : k - 1 \in S => k \in S
  <2> TAKE k \in 1..n
  <2> HAVE k - 1 \in S
  <2>1. P[k] \in Filling
    BY <1>2, <1>3, StepFacts
  <2>2. k \in 0..n
    BY <1>2
  <2> QED
    BY <2>1, <2>2
<1>6. \A k \in 0..n : P[k] \in Filling
  <2>1. 0..n \subseteq S
    <3> HIDE DEF S
    <3> QED
      BY <1>2, <1>4, <1>5, IntervalInduction
  <2> QED
    BY <2>1
<1>7. ASSUME NEW k \in 1..n
      PROVE  /\ P[k].fill \in 1..M
             /\ End(P[k - 1]) <= End(BeginTray(P[k - 1], Size(h, k)))
             /\ End(P[k]) = End(BeginTray(P[k - 1], Size(h, k))) + Size(h, k)
  <2>1. k - 1 \in 0..n
    BY <1>2
  <2>2. P[k - 1] \in Filling
    BY <1>6, <2>1
  <2> QED
    BY <1>2, <1>3, <2>2, StepFacts, BeginTrayFacts, Zenon
<1> QED
  BY <1>3, <1>6, <1>7 DEF G, P, n, First

(* The position of the j-th counter of the k-th tray. *)
Position(h, k, j) == First(h, k) + j - 1

(* Later trays end at later positions. *)
LEMMA EndGrows ==
  ASSUME NEW h \in Hosts, NEW l \in 0..Len(TraysOfHost(h)), NEW m \in 0..Len(TraysOfHost(h)),
         l <= m
  PROVE  End(Packed(TraysOfHost(h))[l]) <= End(Packed(TraysOfHost(h))[m])
<1> DEFINE n == Len(TraysOfHost(h))
           E(k) == End(Packed(TraysOfHost(h))[k])
           S == {k \in 0..n : l <= k => E(l) <= E(k)}
<1>1. n \in Nat /\ \A k \in 0..n : E(k) \in Nat
  BY PackedFacts, EndType, TraySizes
<1>2. \A k \in 1..n : E(k - 1) <= E(k)
  <2> TAKE k \in 1..n
  <2>1. E(k - 1) <= First(h, k) /\ E(k) = First(h, k) + Size(h, k)
    BY PackedFacts
  <2>2. Size(h, k) \in Nat
    BY TraySizes
  <2>3. First(h, k) \in Nat
    <3>1. k - 1 \in 0..n
      BY <1>1
    <3>2. Packed(TraysOfHost(h))[k - 1] \in Filling
      BY <3>1, PackedFacts
    <3>3. BeginTray(Packed(TraysOfHost(h))[k - 1], Size(h, k)) \in Filling
      BY <3>2, TraySizes, BeginTrayFacts
    <3> QED
      BY <3>3, EndType DEF First
  <2>4. k - 1 \in 0..n
    BY <1>1
  <2>5. E(k - 1) \in Nat
    BY <1>1, <2>4
  <2> HIDE DEF E
  <2> QED
    BY <2>1, <2>2, <2>3, <2>5
<1> HIDE DEF E, n
<1>3. 0 \in S
  <2>1. l \in 0..n
    BY DEF n
  <2> QED
    BY <1>1, <2>1
<1>4. \A k \in 1..n : k - 1 \in S => k \in S
  <2> TAKE k \in 1..n
  <2> HAVE k - 1 \in S
  <2>1. l \in 0..n
    BY DEF n
  <2>2. E(k - 1) <= E(k) /\ k - 1 \in 0..n /\ k \in 0..n
    BY <1>1, <1>2
  <2>3. E(l) \in Nat /\ E(k - 1) \in Nat /\ E(k) \in Nat
    BY <1>1, <2>1, <2>2
  <2>4. CASE l = k
    BY <2>2, <2>3, <2>4
  <2>5. CASE l # k
    BY <1>1, <2>1, <2>2, <2>3, <2>5
  <2> QED
    BY <2>4, <2>5
<1>5. 0..n \subseteq S
  <2> HIDE DEF S
  <2> QED
    BY <1>1, <1>3, <1>4, IntervalInduction, Zenon
<1>6. m \in 0..n
  BY DEF n
<1>7. E(l) <= E(m)
  BY <1>5, <1>6
<1> QED
  BY <1>7 DEF E

(* A counter's set is its position divided by the size of a set. *)
LEMMA CounterFacts ==
  ASSUME NEW h \in Hosts, NEW k \in 1..Len(TraysOfHost(h)), NEW j \in 1..Size(h, k)
  PROVE  LET s == CounterSetAt(TraysOfHost(h), <<k, j>>)
         IN /\ Position(h, k, j) \in Nat
            /\ First(h, k) \in Nat
            /\ s \in Nat
            /\ s = Position(h, k, j) \div M
            /\ \E r \in 0..(M - 1) : Position(h, k, j) = s * M + r
            /\ Position(h, k, j) < End(Packed(TraysOfHost(h))[k])
<1> DEFINE P == Packed(TraysOfHost(h))
           b == BeginTray(P[k - 1], Size(h, k))
           s == CounterSetAt(TraysOfHost(h), <<k, j>>)
           r == (b.fill + j - 1) % M
<1>1. Size(h, k) \in Nat \ {0} /\ j \in Nat \ {0} /\ k - 1 \in 0..Len(TraysOfHost(h))
  BY TraySizes
<1>2. b \in Filling
  BY <1>1, PackedFacts, BeginTrayFacts, Zenon
<1>3. s = SetAt(b, j)
  BY DEF CounterSetAt, Size
<1>4. First(h, k) = End(b) /\ Position(h, k, j) = End(b) + j - 1
  BY DEF First, Position
<1>5. End(P[k]) = End(b) + Size(h, k)
  BY <1>4, PackedFacts
<1> HIDE DEF P, b, s
<1>6. End(b) \in Nat
  BY <1>2, EndType
<1>7. /\ s \in Nat /\ s = (End(b) + j - 1) \div M /\ s * M + r = End(b) + j - 1
      /\ r \in 0..(M - 1)
  BY <1>1, <1>2, <1>3, SetAtFacts
<1>8. Position(h, k, j) \in Nat /\ Position(h, k, j) < End(P[k])
  BY <1>1, <1>4, <1>5, <1>6
<1> HIDE DEF r
<1>9. \E x \in 0..(M - 1) : Position(h, k, j) = s * M + x
  BY <1>4, <1>7
<1> QED
  BY <1>4, <1>6, <1>7, <1>8, <1>9 DEF P, s

(* No position is taken twice. *)
LEMMA PositionOnce ==
  ASSUME NEW h \in Hosts,
         NEW k \in 1..Len(TraysOfHost(h)), NEW i \in 1..Size(h, k),
         NEW l \in 1..Len(TraysOfHost(h)), NEW j \in 1..Size(h, l),
         Position(h, k, i) = Position(h, l, j)
  PROVE  k = l /\ i = j
<1> DEFINE n == Len(TraysOfHost(h))
<1>1. ASSUME NEW a \in 1..n, NEW x \in 1..Size(h, a), NEW b \in 1..n, NEW y \in 1..Size(h, b),
             a < b
      PROVE  Position(h, a, x) < Position(h, b, y)
  <2> DEFINE E(c) == End(Packed(TraysOfHost(h))[c])
  <2>1. a \in 0..n /\ b - 1 \in 0..n /\ a <= b - 1
    BY <1>1, TraySizes
  <2>2. E(a) <= E(b - 1)
    BY <2>1, EndGrows
  <2>3. Position(h, a, x) \in Nat /\ Position(h, a, x) < E(a)
    BY CounterFacts, Zenon
  <2>4. E(b - 1) <= First(h, b)
    BY PackedFacts
  <2>5. First(h, b) \in Nat
    BY CounterFacts, Zenon
  <2>6. y \in Nat \ {0} /\ Position(h, b, y) = First(h, b) + y - 1
    BY TraySizes DEF Position
  <2>7. E(a) \in Nat /\ E(b - 1) \in Nat
    BY <2>1, PackedFacts, EndType
  <2> HIDE DEF E
  <2> QED
    BY <2>2, <2>3, <2>4, <2>5, <2>6, <2>7
<1>2. Position(h, k, i) \in Nat /\ First(h, k) \in Nat
  BY CounterFacts, Zenon
<1>3. k = l
  <2>1. k \in Nat /\ l \in Nat
    BY TraySizes
  <2>2. ~(k < l)
    BY <1>1, <1>2
  <2>3. ~(l < k)
    BY <1>1, <1>2
  <2> QED
    BY <2>1, <2>2, <2>3
<1>4. i \in Nat /\ j \in Nat
  BY TraySizes
<1> QED
  BY <1>2, <1>3, <1>4 DEF Position

-----------------------------------------------------------------------------
(* The layout: which set each chip's counter is in.                         *)

(* The places of the counters are the bundles of the trays. *)
LEMMA PlaceFacts ==
  ASSUME NEW h \in Hosts
  PROVE  LET G == TraysOfHost(h)
         IN /\ \A p \in CounterPlaces(G) : \E k \in 1..Len(G) : \E j \in 1..Size(h, k) : p = <<k, j>>
            /\ \A k \in 1..Len(G) : \A j \in 1..Size(h, k) : <<k, j>> \in CounterPlaces(G)
<1> DEFINE G == TraysOfHost(h)
<1>1. DOMAIN G = 1..Len(G)
  BY TraySizes
<1>2. CounterPlaces(G) = UNION {{<<k, j>> : j \in 1..Size(h, k)} : k \in 1..Len(G)}
  BY <1>1 DEF CounterPlaces, Size
<1> HIDE DEF G
<1>3. \A k \in 1..Len(G) : \A j \in 1..Size(h, k) : <<k, j>> \in CounterPlaces(G)
  BY <1>2
<1>4. ASSUME NEW p \in CounterPlaces(G)
      PROVE  \E k \in 1..Len(G) : \E j \in 1..Size(h, k) : p = <<k, j>>
  <2>1. PICK k \in 1..Len(G) : p \in {<<k, j>> : j \in 1..Size(h, k)}
    BY <1>2
  <2> QED
    BY <2>1
<1> QED
  BY <1>3, <1>4 DEF G

(* A chip has one place. *)
LEMMA ChipOnce ==
  ASSUME NEW h \in Hosts,
         NEW k \in 1..Len(TraysOfHost(h)), NEW i \in 1..Size(h, k),
         NEW l \in 1..Len(TraysOfHost(h)), NEW j \in 1..Size(h, l),
         ChipAt(TraysOfHost(h), <<k, i>>) = ChipAt(TraysOfHost(h), <<l, j>>)
  PROVE  k = l /\ i = j
<1> DEFINE G == TraysOfHost(h)
           a == G[k].bundles[i].mmio
           b == G[l].bundles[j].mmio
<1>1. /\ k \in DOMAIN G /\ l \in DOMAIN G
      /\ i \in DOMAIN G[k].bundles /\ j \in DOMAIN G[l].bundles
  BY TraySizes
<1>2. a.chip = b.chip
  BY DEF ChipAt
<1>3. a \in Mmio(h.asics) /\ b \in Mmio(h.asics) /\ a.tray = G[k].trayID /\ b.tray = G[l].trayID
  BY <1>1, TrayMembers
<1>4. a = b
  BY <1>2, <1>3, MmioFacts
<1>5. k = l
  <2>1. \A t, u \in DOMAIN G : G[t].trayID = G[u].trayID => t = u
    BY TraysFacts, Zenon
  <2>2. G[k].trayID = G[l].trayID
    BY <1>3, <1>4
  <2> HIDE DEF G
  <2> QED
    BY <1>1, <2>1, <2>2
<1> QED
  BY <1>1, <1>2, <1>5, TrayMembers

(* setByChip has the chips of all places, with the sets of those places. *)
LEMMA LayoutValues ==
  ASSUME NEW h \in Hosts, TrayDevices \/ MeshDevices
  PROVE  LET G == TraysOfHost(h)
             L == LayoutOf(h)
         IN /\ \A k \in 1..Len(G) : \A j \in 1..Size(h, k) :
                 /\ ChipAt(G, <<k, j>>) \in DOMAIN L
                 /\ L[ChipAt(G, <<k, j>>)] = CounterSetAt(G, <<k, j>>)
            /\ \A c \in DOMAIN L : \E k \in 1..Len(G) : \E j \in 1..Size(h, k) :
                 c = ChipAt(G, <<k, j>>)
<1> DEFINE G == TraysOfHost(h)
           L == LayoutOf(h)
           Q == CounterPlaces(G)
           D == {ChipAt(G, p) : p \in Q}
           place(c) == CHOOSE p \in Q : ChipAt(G, p) = c
<1>1. L = [c \in D |-> CounterSetAt(G, place(c))]
  BY DEF LayoutOf, CounterLayout, BuildChipCounterSets, TraysOfHost
<1>2. DOMAIN L = D
  BY <1>1
<1>3. ASSUME NEW k \in 1..Len(G), NEW j \in 1..Size(h, k)
      PROVE  ChipAt(G, <<k, j>>) \in D /\ L[ChipAt(G, <<k, j>>)] = CounterSetAt(G, <<k, j>>)
  <2> DEFINE c == ChipAt(G, <<k, j>>)
  <2>1. <<k, j>> \in Q
    BY PlaceFacts
  <2>2. place(c) \in Q /\ ChipAt(G, place(c)) = c
    BY <2>1
  <2> HIDE DEF place
  <2>3. PICK l \in 1..Len(G) : \E i \in 1..Size(h, l) : place(c) = <<l, i>>
    BY <2>2, PlaceFacts
  <2>4. PICK i \in 1..Size(h, l) : place(c) = <<l, i>>
    BY <2>3
  <2>5. k = l /\ j = i
    BY <2>2, <2>4, ChipOnce
  <2>6. c \in D
    BY <2>1
  <2>7. L[c] = CounterSetAt(G, place(c))
    <3> HIDE DEF c, D
    <3> QED
      BY <1>1, <2>6
  <2> QED
    BY <2>4, <2>5, <2>6, <2>7
<1>4. ASSUME NEW c \in D PROVE \E k \in 1..Len(G) : \E j \in 1..Size(h, k) : c = ChipAt(G, <<k, j>>)
  <2>1. PICK p \in Q : c = ChipAt(G, p)
    OBVIOUS
  <2>2. PICK k \in 1..Len(G) : \E j \in 1..Size(h, k) : p = <<k, j>>
    BY PlaceFacts
  <2> QED
    BY <2>1, <2>2
<1> HIDE DEF D
<1> QED
  BY <1>2, <1>3, <1>4

(* The sets are filled one after the other: none is left out. *)
LEMMA SetsInUse ==
  ASSUME NEW h \in Hosts, NEW m \in 0..Len(TraysOfHost(h)), NEW s \in Nat,
         LET at == Packed(TraysOfHost(h))[m]
         IN s < at.set \/ (s = at.set /\ at.fill # 0)
  PROVE  \E k \in 1..Len(TraysOfHost(h)) : \E j \in 1..Size(h, k) :
           CounterSetAt(TraysOfHost(h), <<k, j>>) = s
<1> DEFINE G == TraysOfHost(h)
           P == Packed(G)
           n == Len(G)
           U == \E k \in 1..n : \E j \in 1..Size(h, k) : CounterSetAt(G, <<k, j>>) = s
           Below(at) == s < at.set \/ (s = at.set /\ at.fill # 0)
           S == {k \in 0..n : Below(P[k]) => U}
<1>1. n \in Nat /\ \A k \in 0..n : P[k] \in Filling
  BY TraySizes, PackedFacts
<1>2. 0 \in S
  <2>1. P[0].set = 0 /\ P[0].fill = 0
    BY PackedFacts DEF Origin
  <2>2. ~Below(P[0])
    BY <2>1
  <2>3. 0 \in 0..n
    BY <1>1
  <2> HIDE DEF Below, U
  <2> QED
    BY <2>2, <2>3
<1>3. ASSUME NEW k \in 1..n, Below(P[k]), ~Below(P[k - 1]) PROVE U
  <2> DEFINE at == P[k - 1]
             size == Size(h, k)
             b == BeginTray(at, size)
             j == s * M - End(b) + 1
             e == SetAt(b, size)
             r == (b.fill + size - 1) % M
  <2>1. size \in Nat \ {0} /\ k - 1 \in 0..n
    BY <1>1, TraySizes
  <2>2. at \in Filling
    BY <1>1, <2>1
  <2>3. /\ b \in Filling
        /\ b = at \/ (at.fill # 0 /\ b.set = at.set + 1 /\ b.fill = 0)
    BY <2>1, <2>2, BeginTrayFacts, Zenon
  <2>4. P[k].set = e
    <3>1. P[k] = Step(at, size)
      BY PackedFacts
    <3>2. Step(at, size).set = e
      BY DEF Step
    <3> QED
      BY <3>1, <3>2
  <2>5. CounterSetAt(G, <<k, j>>) = SetAt(b, j)
    BY DEF CounterSetAt, Size
  <2>6. s <= e
    <3>1. k \in 0..n
      BY <1>1
    <3>2. P[k].set \in Nat
      BY <1>1, <3>1, EndType
    <3>3. e \in Nat /\ (s < e \/ s = e)
      BY <1>3, <2>4, <3>2
    <3> HIDE DEF e
    <3> QED
      BY <3>3
  <2>7. b.set <= s /\ (s = b.set => b.fill = 0)
    <3> HIDE DEF b, at
    <3>1. at.set \in Nat /\ b.set \in Nat /\ at.fill \in Nat
      BY <2>2, <2>3, EndType
    <3>2. ~(s < at.set) /\ ~(s = at.set /\ at.fill # 0)
      BY <1>3 DEF at
    <3> QED
      BY <2>3, <3>1, <3>2
  <2> HIDE DEF b, at, e, size
  <2>8. /\ e \in Nat /\ e * M + r = End(b) + size - 1 /\ r \in 0..(M - 1)
    BY <2>1, <2>3, SetAtFacts, Zenon DEF e
  <2> HIDE DEF r
  <2>9. /\ s * M \in Nat /\ e * M \in Nat /\ b.set * M \in Nat /\ b.set \in Nat
        /\ b.fill \in 0..M /\ M \in Nat \ {0} /\ End(b) = b.set * M + b.fill
    BY <2>3, <2>8, EndType, ProductType, MIsPositive DEF End
  <2>10. End(b) <= s * M
    <3>1. CASE s = b.set
      BY <2>7, <2>9, <3>1
    <3>2. CASE s # b.set
      <4>1. b.set < s
        BY <2>7, <2>9, <3>2
      <4>2. b.set * M + M <= s * M
        BY <2>9, <4>1, ProductGrows, Zenon
      <4> DEFINE x == b.set * M
                 y == s * M
      <4>3. x \in Nat /\ y \in Nat /\ x + M <= y /\ End(b) = x + b.fill
        BY <2>9, <4>2
      <4> HIDE DEF x, y
      <4>4. End(b) <= y
        BY <2>9, <4>3
      <4> QED
        BY <4>4 DEF y
    <3> QED
      BY <3>1, <3>2
  <2>11. s * M <= e * M
    <3>1. CASE s = e
      BY <2>9, <3>1
    <3>2. CASE s # e
      <4>1. s * M + M <= e * M
        BY <2>6, <2>8, <2>9, <3>2, ProductGrows
      <4> QED
        BY <2>9, <4>1
    <3> QED
      BY <3>1, <3>2
  <2>12. j \in 1..size /\ End(b) + j - 1 = s * M + 0 /\ j \in Nat \ {0}
    <3> DEFINE x == s * M
               y == e * M
               z == End(b)
    <3>1. x \in Nat /\ y \in Nat /\ z \in Nat /\ z <= x /\ x <= y /\ y + r = z + size - 1
      BY <2>3, <2>8, <2>9, <2>10, <2>11, EndType
    <3> HIDE DEF x, y, z
    <3>2. /\ x - z + 1 \in 1..size /\ z + (x - z + 1) - 1 = x + 0 /\ x - z + 1 \in Nat \ {0}
      BY <2>1, <2>8, <3>1
    <3> QED
      BY <3>2 DEF x, z
  <2>13. SetAt(b, j) = s
    <3>1. SetAt(b, j) = (End(b) + j - 1) \div M
      <4> HIDE DEF j
      <4> QED
        BY <2>3, <2>12, SetAtFacts
    <3>2. 0 \in 0..(M - 1)
      BY <2>9
    <3>3. (s * M + 0) \div M = s
      BY <2>9, <3>2, QuotientUnique
    <3> HIDE DEF j
    <3> QED
      BY <2>12, <3>1, <3>3
  <2> HIDE DEF j
  <2> QED
    BY <2>5, <2>12, <2>13, Zenon DEF size
<1> HIDE DEF Below, U
<1>4. \A k \in 1..n : k - 1 \in S => k \in S
  BY <1>1, <1>3
<1>5. 0..n \subseteq S
  <2> HIDE DEF S
  <2> QED
    BY <1>1, <1>2, <1>4, IntervalInduction, Zenon
<1>6. Below(P[m])
  BY DEF Below
<1>7. U
  BY <1>5, <1>6
<1> QED
  BY <1>7 DEF U

(* The sets in use are numbered from 0 without a gap. *)
LEMMA SetNumbers ==
  ASSUME NEW h \in Hosts, LayoutOf(h) # NoCounters
  PROVE  LET L == LayoutOf(h)
         IN \E top \in Nat : {L[c] : c \in DOMAIN L} = 0..top
<1> DEFINE G == TraysOfHost(h)
           L == LayoutOf(h)
           n == Len(G)
           at == Packed(G)[n]
           used == {L[c] : c \in DOMAIN L}
<1>1. TrayDevices \/ MeshDevices
  BY LayoutDomain
<1>2. n \in Nat /\ n # 0
  <2>1. n \in Nat
    BY TraySizes
  <2>2. DOMAIN L # {}
    BY NoCountersFacts, Zenon
  <2>3. \E k \in 1..n : TRUE
    BY <1>1, <2>2, LayoutValues
  <2> QED
    BY <2>1, <2>3
<1>3. at \in Filling /\ at.fill \in 1..M
  <2>1. n \in 0..n /\ n \in 1..n
    BY <1>2
  <2> QED
    BY <2>1, PackedFacts
<1>4. at.set \in Nat /\ at.set * M \in Nat /\ End(at) = at.set * M + at.fill /\ M \in Nat \ {0}
  BY <1>3, EndType, MIsPositive DEF End
<1>5. ASSUME NEW k \in 1..n, NEW j \in 1..Size(h, k)
      PROVE  CounterSetAt(G, <<k, j>>) \in 0..at.set
  <2> DEFINE s == CounterSetAt(G, <<k, j>>)
             x == Position(h, k, j)
  <2>1. s \in Nat /\ x \in Nat /\ x < End(Packed(G)[k]) /\ \E r \in 0..(M - 1) : x = s * M + r
    BY CounterFacts
  <2>2. k \in 0..n /\ n \in 0..n /\ k <= n
    BY <1>2
  <2>3. End(Packed(G)[k]) <= End(at) /\ End(Packed(G)[k]) \in Nat
    BY <2>2, EndGrows, EndType, PackedFacts
  <2> HIDE DEF s, x, at, n
  <2>4. PICK r \in 0..(M - 1) : x = s * M + r
    BY <2>1
  <2>5. s * M \in Nat
    BY <1>4, <2>1, ProductType
  <2>6. s * M < at.set * M + M
    BY <1>3, <1>4, <2>1, <2>3, <2>4, <2>5
  <2>7. CASE at.set < s
    <3>1. at.set * M + M <= s * M
      BY <1>4, <2>1, <2>7, ProductGrows
    <3> QED
      BY <1>4, <2>5, <2>6, <3>1
  <2>8. CASE ~(at.set < s)
    <3>1. s \in 0..at.set
      BY <1>4, <2>1, <2>8
    <3> QED
      BY <3>1 DEF s
  <2> QED
    BY <2>7, <2>8
<1>6. ASSUME NEW s \in 0..at.set
      PROVE  \E k \in 1..n : \E j \in 1..Size(h, k) : CounterSetAt(G, <<k, j>>) = s
  <2>1. n \in 0..n /\ s \in Nat /\ (s < at.set \/ (s = at.set /\ at.fill # 0))
    BY <1>2, <1>3, <1>4
  <2> QED
    BY <2>1, SetsInUse
<1>7. /\ \A k \in 1..n : \A j \in 1..Size(h, k) :
           ChipAt(G, <<k, j>>) \in DOMAIN L /\ L[ChipAt(G, <<k, j>>)] = CounterSetAt(G, <<k, j>>)
      /\ \A c \in DOMAIN L : \E k \in 1..n : \E j \in 1..Size(h, k) : c = ChipAt(G, <<k, j>>)
  BY <1>1, LayoutValues
<1> HIDE DEF G, L, n, at
<1>8. used \subseteq 0..at.set
  <2> SUFFICES ASSUME NEW c \in DOMAIN L PROVE L[c] \in 0..at.set
    OBVIOUS
  <2>1. PICK k \in 1..n : \E j \in 1..Size(h, k) : c = ChipAt(G, <<k, j>>)
    BY <1>7
  <2>2. PICK j \in 1..Size(h, k) : c = ChipAt(G, <<k, j>>)
    BY <2>1
  <2> QED
    BY <1>5, <1>7, <2>2
<1>9. ASSUME NEW s \in 0..at.set PROVE s \in used
  <2>1. PICK k \in 1..n : \E j \in 1..Size(h, k) : CounterSetAt(G, <<k, j>>) = s
    BY <1>6
  <2>2. PICK j \in 1..Size(h, k) : CounterSetAt(G, <<k, j>>) = s
    BY <2>1
  <2> QED
    BY <1>7, <2>2
<1>10. used = 0..at.set
  <2> HIDE DEF used
  <2> QED
    BY <1>8, <1>9, Zenon
<1> QED
  BY <1>4, <1>10 DEF L

(* A set holds at most as many counters as it may. *)
LEMMA SetCapacity ==
  ASSUME NEW h \in Hosts, LayoutOf(h) # NoCounters, NEW s \in Nat
  PROVE  Cardinality({c \in DOMAIN LayoutOf(h) : LayoutOf(h)[c] = s}) <= M
<1> DEFINE G == TraysOfHost(h)
           L == LayoutOf(h)
           n == Len(G)
           S == {c \in DOMAIN L : L[c] = s}
           T == 0..(M - 1)
           At(c, r) == \E k \in 1..n : \E j \in 1..Size(h, k) :
                         c = ChipAt(G, <<k, j>>) /\ Position(h, k, j) = s * M + r
           f == [c \in S |-> CHOOSE r \in T : At(c, r)]
<1>1. TrayDevices \/ MeshDevices
  BY LayoutDomain
<1>2. ASSUME NEW c \in S PROVE \E r \in T : At(c, r)
  <2>1. PICK k \in 1..n : \E j \in 1..Size(h, k) : c = ChipAt(G, <<k, j>>)
    BY <1>1, LayoutValues
  <2>2. PICK j \in 1..Size(h, k) : c = ChipAt(G, <<k, j>>)
    BY <2>1
  <2>3. CounterSetAt(G, <<k, j>>) = s
    BY <1>1, <2>2, LayoutValues
  <2>4. PICK r \in T : Position(h, k, j) = s * M + r
    BY <2>3, CounterFacts
  <2> QED
    BY <2>2, <2>4, Zenon
<1>3. ASSUME NEW c \in DOMAIN L, NEW d \in DOMAIN L, NEW r \in T, At(c, r), At(d, r) PROVE c = d
  <2>1. PICK k \in 1..n : \E j \in 1..Size(h, k) :
          c = ChipAt(G, <<k, j>>) /\ Position(h, k, j) = s * M + r
    BY <1>3
  <2>2. PICK i \in 1..Size(h, k) : c = ChipAt(G, <<k, i>>) /\ Position(h, k, i) = s * M + r
    BY <2>1
  <2>3. PICK l \in 1..n : \E j \in 1..Size(h, l) :
          d = ChipAt(G, <<l, j>>) /\ Position(h, l, j) = s * M + r
    BY <1>3
  <2>4. PICK j \in 1..Size(h, l) : d = ChipAt(G, <<l, j>>) /\ Position(h, l, j) = s * M + r
    BY <2>3
  <2>5. k = l /\ i = j
    BY <2>2, <2>4, PositionOnce
  <2> QED
    BY <2>2, <2>4, <2>5
<1> HIDE DEF At
<1>4. \A c \in S : f[c] \in T /\ At(c, f[c])
  BY <1>2
<1>5. f \in Injection(S, T)
  <2>1. f \in [S -> T]
    <3>1. f = [c \in S |-> f[c]]
      OBVIOUS
    <3> HIDE DEF f
    <3> QED
      BY <1>4, <3>1
  <2> HIDE DEF f, T
  <2>2. \A c, d \in S : f[c] = f[d] => c = d
    BY <1>3, <1>4
  <2> HIDE DEF S
  <2> QED
    BY <2>1, <2>2 DEF Injection, IsInjective
<1>6. IsFiniteSet(T) /\ Cardinality(T) = M
  <2>1. M \in Nat \ {0} /\ M - 1 \in Int /\ 0 \in Int
    BY MIsPositive
  <2>2. Cardinality(0..(M - 1)) = IF 0 > M - 1 THEN 0 ELSE (M - 1) - 0 + 1
    BY <2>1, FS_Interval
  <2> QED
    BY <2>1, <2>2, FS_Interval
<1> HIDE DEF f, S, T
<1>7. Cardinality(S) <= Cardinality(T)
  BY <1>5, <1>6, FS_Injection
<1> QED
  BY <1>6, <1>7 DEF S

(* Each of the published sets holds counters, and not too many. *)
LEMMA SetsAreFit ==
  ASSUME NEW h \in Hosts, LayoutOf(h) # NoCounters
  PROVE  LET L == LayoutOf(h)
             sets == CounterSets(L)
         IN /\ \A k \in DOMAIN sets : Cardinality(sets[k]) \in 1..M
            /\ \A k \in DOMAIN sets : sets[k] \subseteq DOMAIN L /\ k \in Nat
            /\ \A k \in DOMAIN sets : \A c \in DOMAIN L : c \in sets[k] <=> L[c] = k - 1
            /\ \A c \in DOMAIN L : L[c] \in Nat /\ L[c] + 1 \in DOMAIN sets
<1> DEFINE L == LayoutOf(h)
           sets == CounterSets(L)
           used == {L[c] : c \in DOMAIN L}
<1>1. PICK top \in Nat : used = 0..top
  BY SetNumbers
<1>2. Cardinality(used) = top + 1
  <2>1. Cardinality(0..top) = IF 0 > top THEN 0 ELSE top - 0 + 1
    BY FS_Interval
  <2>2. Cardinality(0..top) = top + 1
    <3> HIDE DEF used
    <3> QED
      BY <2>1
  <2> HIDE DEF used
  <2> QED
    BY <1>1, <2>2
<1>3. sets = [k \in 1..(top + 1) |-> {c \in DOMAIN L : L[c] = k - 1}]
  BY <1>2 DEF CounterSets
<1>4. DOMAIN sets = 1..(top + 1)
  BY <1>3
<1> HIDE DEF sets
<1>5. ASSUME NEW k \in DOMAIN sets
      PROVE  /\ Cardinality(sets[k]) \in 1..M
             /\ \A c \in DOMAIN L : c \in sets[k] <=> L[c] = k - 1
             /\ sets[k] \subseteq DOMAIN L
             /\ k \in Nat
  <2>1. k - 1 \in 0..top /\ k - 1 \in Nat /\ k \in Nat
    BY <1>4
  <2>2. sets[k] = {c \in DOMAIN L : L[c] = k - 1}
    BY <1>3, <1>4
  <2>3. Cardinality(sets[k]) <= M
    BY <2>1, <2>2, SetCapacity
  <2>4. sets[k] \subseteq DOMAIN L /\ \A c \in DOMAIN L : c \in sets[k] <=> L[c] = k - 1
    BY <2>2
  <2>5. sets[k] # {}
    BY <1>1, <2>1, <2>2
  <2>6. IsFiniteSet(sets[k])
    BY <2>4, LayoutFinite, FS_Subset, Zenon
  <2>7. Cardinality(sets[k]) \in Nat /\ Cardinality(sets[k]) # 0
    BY <2>5, <2>6, FS_CardinalityType, FS_EmptySet
  <2>8. Cardinality(sets[k]) \in 1..M
    BY <2>3, <2>7, MIsPositive
  <2> QED
    BY <2>1, <2>4, <2>8
<1>6. ASSUME NEW c \in DOMAIN L PROVE L[c] \in Nat /\ L[c] + 1 \in DOMAIN sets
  <2>1. L[c] \in 0..top
    BY <1>1
  <2> HIDE DEF L
  <2> QED
    BY <1>4, <2>1
<1> QED
  BY <1>5, <1>6 DEF sets

(* No unit draws on more counter sets than a device may. *)
LEMMA UnitConsumes ==
  ASSUME NEW h \in Hosts, LayoutOf(h) # NoCounters, NEW u, IsUnit(h, u)
  PROVE  /\ ChipsOf(u.bundles) \subseteq DOMAIN LayoutOf(h)
         /\ Cardinality({LayoutOf(h)[c] : c \in ChipsOf(u.bundles)}) <= MaxSetsPerDevice
<1> DEFINE L == LayoutOf(h)
<1>1. CASE IsChip(h, u)
  <2>1. PICK k \in DOMAIN BundlesOf(h) : u = ChipDevice(BundlesOf(h)[k])
    BY <1>1 DEF IsChip
  <2> DEFINE x == BundlesOf(h)[k].mmio.chip
  <2>2. u.bundles = <<BundlesOf(h)[k]>>
    BY <2>1 DEF ChipDevice
  <2>3. ChipsOf(u.bundles) = {x}
    BY <2>2 DEF ChipsOf
  <2>4. x \in ChipSet(h)
    BY BundlesFacts DEF ChipSet
  <2>5. DOMAIN L = ChipSet(h)
    BY LayoutDomain
  <2>6. {L[c] : c \in {x}} = {L[x]}
    OBVIOUS
  <2>7. Cardinality({L[x]}) = 1
    BY FS_Singleton, Zenon
  <2>8. 1 <= MaxSetsPerDevice
    BY LimitsAssumption
  <2> HIDE DEF x, L
  <2> QED
    BY <2>3, <2>4, <2>5, <2>6, <2>7, <2>8 DEF L
<1>2. CASE IsTray(h, u)
  <2>1. PICK t \in DOMAIN TraysOfHost(h) : /\ CanConsume(L, TraysOfHost(h)[t].bundles)
                                           /\ u = TrayDevice(TraysOfHost(h)[t])
    BY <1>2 DEF IsTray
  <2>2. TrayDevice(TraysOfHost(h)[t]).bundles = TraysOfHost(h)[t].bundles
    BY DEF TrayDevice
  <2>3. CanConsume(L, u.bundles)
    BY <2>1, <2>2
  <2> QED
    BY <2>3 DEF CanConsume
<1>3. CASE IsMesh(h, u)
  <2> DEFINE members(m) == ResolveMesh(RevCMeshes[m], BundlesOf(h))
  <2>1. PICK m \in ResolvedMeshes(h, BundlesOf(h), L) : u = MeshDevice(RevCMeshes[m], members(m))
    BY <1>3 DEF IsMesh
  <2>2. MeshDevice(RevCMeshes[m], members(m)).bundles = members(m)
    BY DEF MeshDevice
  <2>3. CanConsume(L, members(m))
    BY DEF ResolvedMeshes
  <2>4. CanConsume(L, u.bundles)
    BY <2>1, <2>2, <2>3
  <2> QED
    BY <2>4 DEF CanConsume
<1> QED
  BY <1>1, <1>2, <1>3 DEF IsUnit

PublishedSets ==
  LET carriers == {k \in DOMAIN slices : slices[k].sharedCounters # <<>>}
  IN UNION {{slices[k].sharedCounters[j] : j \in DOMAIN slices[k].sharedCounters} :
              k \in carriers}

(* The slices carry exactly the counter sets of the layout. *)
LEMMA PublishedSetsFacts ==
  ASSUME Applied
  PROVE  LET sets == CounterSets(LayoutOf(host))
         IN PublishedSets = {sets[p] : p \in DOMAIN sets}
<1> DEFINE U == UnitsOf(host)
           L == LayoutOf(host)
           sets == CounterSets(L)
           D == DeviceList(U, L)
           T == {Device(U[k], L) : k \in DOMAIN U}
<1>1. host \in Hosts /\ slices = BuildSlices(D, sets)
  BY DEF Applied
<1>2. U \in Seq(UnitSet(host))
  BY <1>1, UnitsFacts
<1>3. D \in Seq(T)
  <2> HIDE DEF U, L
  <2>1. Len(U) \in Nat /\ DOMAIN U = 1..Len(U)
    BY <1>2
  <2>2. D \in [1..Len(U) -> T]
    BY <2>1 DEF DeviceList
  <2> HIDE DEF D, T
  <2> QED
    BY <2>1, <2>2
<1>4. sets \in Seq(SUBSET DOMAIN L)
  BY <1>1, CounterSetsType
<1> DEFINE X == BuildSlices(D, sets)
           S == SUBSET DOMAIN L
<1>5. /\ \A k \in DOMAIN slices : \A i \in DOMAIN slices[k].sharedCounters :
           \E p \in DOMAIN sets : slices[k].sharedCounters[i] = sets[p]
      /\ \A p \in DOMAIN sets : \E k \in DOMAIN slices :
           \E i \in DOMAIN slices[k].sharedCounters : slices[k].sharedCounters[i] = sets[p]
  <2> HIDE DEF D, T, sets, S
  <2>1. sets \in Seq(S)
    BY <1>4 DEF S
  <2>2. /\ \A k \in DOMAIN X : \A i \in DOMAIN X[k].sharedCounters :
             \E p \in DOMAIN sets : X[k].sharedCounters[i] = sets[p]
        /\ \A p \in DOMAIN sets : \E k \in DOMAIN X :
             \E i \in DOMAIN X[k].sharedCounters : X[k].sharedCounters[i] = sets[p]
    BY <1>3, <2>1, SlicesFacts
  <2> HIDE DEF X
  <2>3. slices = X
    BY <1>1 DEF X
  <2> QED
    BY <2>2, <2>3
<1> HIDE DEF D, T, sets
<1>6. ASSUME NEW x \in PublishedSets PROVE \E p \in DOMAIN sets : x = sets[p]
  <2>1. PICK k \in DOMAIN slices :
          x \in {slices[k].sharedCounters[j] : j \in DOMAIN slices[k].sharedCounters}
    BY DEF PublishedSets
  <2>2. PICK j \in DOMAIN slices[k].sharedCounters : x = slices[k].sharedCounters[j]
    BY <2>1
  <2> QED
    BY <1>5, <2>2
<1>7. ASSUME NEW p \in DOMAIN sets PROVE sets[p] \in PublishedSets
  <2>1. PICK k \in DOMAIN slices :
          \E i \in DOMAIN slices[k].sharedCounters : slices[k].sharedCounters[i] = sets[p]
    BY <1>5
  <2>2. PICK i \in DOMAIN slices[k].sharedCounters : slices[k].sharedCounters[i] = sets[p]
    BY <2>1
  <2>3. slices[k].sharedCounters # <<>>
    BY <2>2
  <2>4. sets[p] \in {slices[k].sharedCounters[j] : j \in DOMAIN slices[k].sharedCounters}
    BY <2>2
  <2> QED
    BY <2>3, <2>4 DEF PublishedSets
<1> QED
  BY <1>6, <1>7 DEF sets

(* What buildChipCounterSets and chipCounterConsumption publish, the       *)
(* apiserver accepts: no set is empty or over-full, each counter a device  *)
(* draws on is in the set it names, no device draws on too many sets.      *)
THEOREM CountersAreAccepted == Spec => []CountersAreWellFormed
<1>1. Derived => CountersAreWellFormed
  <2> SUFFICES ASSUME Derived PROVE CountersAreWellFormed
    OBVIOUS
  <2> DEFINE S == PublishedSets
             Goal == /\ \A s \in S : Cardinality(s) \in 1..MaxCountersPerSet
                     /\ \A s, t \in S : s # t => s \cap t = {}
                     /\ \A d \in Published :
                          /\ \A c \in d.counters : \E s \in S : c[2] \in s
                          /\ Cardinality({c[1] : c \in d.counters}) <= MaxSetsPerDevice
                     /\ \A d, e \in Published : \A c \in d.counters, f \in e.counters :
                          c[1] = f[1] <=> \E s \in S : {c[2], f[2]} \subseteq s
  <2>1. CASE Fresh
    <3>1. Published = {}
      BY <2>1, FreshPublished
    <3>2. PublishedSets = {}
      BY <2>1 DEF Fresh, PublishedSets
    <3>3. Goal
      BY <3>1, <3>2
    <3> QED
      BY <3>3, Zenon DEF CountersAreWellFormed, PublishedSets
  <2>2. CASE Applied
    <3> DEFINE U == UnitsOf(host)
               L == LayoutOf(host)
               sets == CounterSets(L)
    <3>1. host \in Hosts
      BY <2>2 DEF Applied
    <3>2. Published = {Device(U[k], L) : k \in DOMAIN U}
      BY <2>2, PublishedFacts
    <3>3. S = {sets[p] : p \in DOMAIN sets}
      BY <2>2, PublishedSetsFacts
    <3>4. CASE L = NoCounters
      <4>1. sets = <<>>
        BY <3>1, <3>4, NoCountersFacts
      <4>2. S = {}
        BY <3>3, <4>1
      <4>3. \A k \in DOMAIN U : Device(U[k], L).counters = {}
        BY <3>4 DEF Device, Consumption
      <4>4. \A d \in Published : d.counters = {}
        BY <3>2, <4>3
      <4>5. Cardinality({}) <= MaxSetsPerDevice
        BY FS_EmptySet, LimitsAssumption
      <4>6. ASSUME NEW d \in Published PROVE Cardinality({c[1] : c \in d.counters}) <= MaxSetsPerDevice
        <5>1. {c[1] : c \in d.counters} = {}
          BY <4>4
        <5> QED
          BY <4>5, <5>1, Zenon
      <4> HIDE DEF S
      <4>7. Goal
        BY <4>2, <4>4, <4>6
      <4> QED
        BY <4>7, Zenon DEF S, CountersAreWellFormed, PublishedSets
    <3>5. CASE L # NoCounters
      <4>1. /\ \A k \in DOMAIN sets : Cardinality(sets[k]) \in 1..M
            /\ \A c \in DOMAIN L : L[c] \in Nat /\ L[c] + 1 \in DOMAIN sets
        BY <3>1, <3>5, SetsAreFit
      <4>2. \A k \in DOMAIN sets : sets[k] \subseteq DOMAIN L /\ k \in Nat
        BY <3>1, <3>5, SetsAreFit
      <4>3. \A k \in DOMAIN sets : \A c \in DOMAIN L : c \in sets[k] <=> L[c] = k - 1
        BY <3>1, <3>5, SetsAreFit
      <4>4. \A k \in DOMAIN U : /\ ChipsOf(U[k].bundles) \subseteq DOMAIN L
                                /\ Cardinality({L[c] : c \in ChipsOf(U[k].bundles)}) <= MaxSetsPerDevice
        BY <3>1, <3>5, UnitsFacts, UnitConsumes, Zenon
      <4>5. \A k \in DOMAIN U : Device(U[k], L).counters = {<<L[c], c>> : c \in ChipsOf(U[k].bundles)}
        BY <3>5 DEF Device, Consumption
      <4> HIDE DEF S, U, L, sets
      <4>6. ASSUME NEW d \in Published
            PROVE  /\ \A c \in d.counters : c[2] \in DOMAIN L /\ c[1] = L[c[2]]
                   /\ Cardinality({c[1] : c \in d.counters}) <= MaxSetsPerDevice
        <5>1. PICK k \in DOMAIN U : d = Device(U[k], L)
          BY <3>2
        <5> DEFINE X == ChipsOf(U[k].bundles)
        <5>2. d.counters = {<<L[c], c>> : c \in X} /\ X \subseteq DOMAIN L
          BY <4>4, <4>5, <5>1, Zenon
        <5>3. Cardinality({L[c] : c \in X}) <= MaxSetsPerDevice
          BY <4>4
        <5> HIDE DEF X
        <5>4. {c[1] : c \in d.counters} = {L[c] : c \in X}
          <6> DEFINE Q == {c[1] : c \in d.counters}
                     R == {L[c] : c \in X}
          <6>1. ASSUME NEW c \in d.counters PROVE c[1] \in R
            <7>1. PICK x \in X : c = <<L[x], x>>
              BY <5>2
            <7> QED
              BY <7>1
          <6>2. ASSUME NEW x \in X PROVE L[x] \in Q
            <7>1. <<L[x], x>> \in d.counters /\ <<L[x], x>>[1] = L[x]
              BY <5>2
            <7> QED
              BY <7>1
          <6>3. Q \subseteq R
            BY <6>1
          <6>4. R \subseteq Q
            BY <6>2
          <6> HIDE DEF Q, R
          <6>5. Q = R
            BY <6>3, <6>4, Zenon
          <6> QED
            BY <6>5 DEF Q, R
        <5>5. \A c \in d.counters : c[2] \in DOMAIN L /\ c[1] = L[c[2]]
          BY <5>2
        <5> QED
          BY <5>3, <5>4, <5>5, Zenon
      <4>7. \A s \in S : Cardinality(s) \in 1..MaxCountersPerSet
        BY <3>3, <4>1 DEF M
      <4>8. ASSUME NEW s \in S, NEW t \in S, NEW c \in s, c \in t PROVE s = t
        <5>1. PICK p \in DOMAIN sets : s = sets[p]
          BY <3>3
        <5>2. PICK q \in DOMAIN sets : t = sets[q]
          BY <3>3
        <5>3. c \in DOMAIN L /\ c \in sets[p] /\ c \in sets[q]
          BY <4>8, <4>2, <5>1, <5>2
        <5>4. L[c] = p - 1 /\ L[c] = q - 1 /\ p \in Nat /\ q \in Nat
          BY <4>2, <4>3, <5>3
        <5>5. p = q
          BY <5>4
        <5> QED
          BY <5>1, <5>2, <5>5
      <4>9. \A s, t \in S : s # t => s \cap t = {}
        BY <4>8
      <4>10. ASSUME NEW c \in DOMAIN L PROVE c \in sets[L[c] + 1] /\ sets[L[c] + 1] \in S
        <5>1. L[c] \in Nat /\ L[c] + 1 \in DOMAIN sets
          BY <4>1
        <5> DEFINE p == L[c] + 1
        <5>2. L[c] = p - 1 /\ p \in DOMAIN sets
          BY <5>1
        <5> HIDE DEF p
        <5>3. c \in sets[p]
          BY <4>3, <5>2
        <5>4. sets[p] \in S
          BY <3>3, <5>2
        <5> QED
          BY <5>3, <5>4 DEF p
      <4>11. ASSUME NEW x \in DOMAIN L, NEW y \in DOMAIN L
            PROVE  L[x] = L[y] <=> \E s \in S : {x, y} \subseteq s
        <5>1. ASSUME L[x] = L[y] PROVE \E s \in S : {x, y} \subseteq s
          BY <4>10, <5>1
        <5>2. ASSUME NEW s \in S, {x, y} \subseteq s PROVE L[x] = L[y]
          <6>1. PICK p \in DOMAIN sets : s = sets[p]
            BY <3>3
          <6> QED
            BY <4>3, <5>2, <6>1
        <5> QED
          BY <5>1, <5>2
      <4>12. \A d \in Published : \A c \in d.counters : \E s \in S : c[2] \in s
        BY <4>6, <4>10, Zenon
      <4>13. ASSUME NEW d \in Published, NEW e \in Published, NEW c \in d.counters, NEW f \in e.counters
             PROVE  c[1] = f[1] <=> \E s \in S : {c[2], f[2]} \subseteq s
        <5>1. c[2] \in DOMAIN L /\ c[1] = L[c[2]] /\ f[2] \in DOMAIN L /\ f[1] = L[f[2]]
          BY <4>6, Zenon
        <5> QED
          BY <4>11, <5>1
      <4>14. Goal
        BY <4>6, <4>7, <4>9, <4>12, <4>13
      <4> QED
        BY <4>14, Zenon DEF S, CountersAreWellFormed, PublishedSets
    <3> QED
      BY <3>4, <3>5
  <2> QED
    BY <2>1, <2>2 DEF Derived
<1> QED
  BY <1>1, PublicationIsDerived, PTL

-----------------------------------------------------------------------------
(* Trays.                                                                   *)

(* A tray has a bundle for each of its MMIO chips. *)
LEMMA TraySize ==
  ASSUME NEW h \in Hosts, NEW t \in 1..Len(TraysOfHost(h))
  PROVE  Cardinality(Mmio(OnTray(h.asics, TraysOfHost(h)[t].trayID))) = Size(h, t)
<1> DEFINE b == TraysOfHost(h)[t].bundles
           id == TraysOfHost(h)[t].trayID
           size == Size(h, t)
           X == Mmio(OnTray(h.asics, id))
           f == [j \in 1..size |-> b[j].mmio]
<1>1. t \in DOMAIN TraysOfHost(h) /\ size \in Nat /\ DOMAIN b = 1..size
  BY TraySizes
<1>2. /\ \A j \in DOMAIN b : b[j].mmio \in Mmio(h.asics) /\ b[j].mmio.tray = id
      /\ \A a \in Mmio(h.asics) : a.tray = id => \E j \in DOMAIN b : b[j] = Bundle(h.asics, a)
      /\ \A i, j \in DOMAIN b : b[i].mmio.chip = b[j].mmio.chip => i = j
  BY <1>1, TrayMembers
<1>3. X = {a \in Mmio(h.asics) : a.tray = id}
  BY DEF Mmio, OnTray
<1> HIDE DEF b, id, size, X
<1>4. f \in [1..size -> X]
  BY <1>1, <1>2, <1>3
<1>5. \A i, j \in 1..size : f[i] = f[j] => i = j
  BY <1>1, <1>2
<1>6. ASSUME NEW a \in X PROVE \E j \in 1..size : f[j] = a
  <2>1. PICK j \in DOMAIN b : b[j] = Bundle(h.asics, a)
    BY <1>2, <1>3
  <2>2. Bundle(h.asics, a).mmio = a
    BY DEF Bundle
  <2> QED
    BY <1>1, <2>1, <2>2
<1> HIDE DEF f
<1>7. f \in Bijection(1..size, X)
  BY <1>4, <1>5, <1>6 DEF Bijection, Injection, Surjection, IsInjective
<1>8. ExistsBijection(1..size, X)
  BY <1>7 DEF ExistsBijection
<1>9. Cardinality(X) = size
  BY <1>1, <1>8, FS_CountingElements
<1> QED
  BY <1>9 DEF X, size, id

(* The sets that n counters in a row need, starting with a new one. *)
LEMMA SetsNeeded ==
  ASSUME NEW n \in Nat \ {0}, NEW D \in Nat \ {0}
  PROVE  (n - 1) \div M + 1 <= D <=> n <= D * M
<1> DEFINE a == n - 1
           q == a \div M
           r == a % M
<1>1. a \in Nat /\ M \in Nat \ {0}
  BY MIsPositive
<1> HIDE DEF a
<1>2. q \in Nat /\ r \in 0..(M - 1) /\ a = q * M + r
  BY <1>1, DivMod, Zenon
<1> HIDE DEF q, r
<1>3. n = q * M + r + 1 /\ q * M \in Nat /\ D * M \in Nat
  BY <1>1, <1>2, ProductType DEF a
<1>4. CASE q < D
  <2>1. q * M + M <= D * M
    BY <1>1, <1>2, <1>4, ProductGrows
  <2>2. q + 1 <= D
    BY <1>2, <1>4
  <2>3. n <= D * M
    BY <1>1, <1>2, <1>3, <2>1
  <2> QED
    BY <2>2, <2>3 DEF q, a
<1>5. CASE ~(q < D)
  <2>1. D * M <= q * M
    <3>1. CASE D = q
      BY <1>3, <3>1
    <3>2. CASE D # q
      <4>1. D < q
        BY <1>2, <1>5, <3>2
      <4>2. D * M + M <= q * M
        BY <1>1, <1>2, <4>1, ProductGrows
      <4> QED
        BY <1>1, <1>3, <4>2
    <3> QED
      BY <3>1, <3>2
  <2>2. ~(q + 1 <= D)
    BY <1>2, <1>5
  <2>3. ~(n <= D * M)
    BY <1>2, <1>3, <2>1
  <2> QED
    BY <2>2, <2>3 DEF q, a
<1> QED
  BY <1>4, <1>5

(* Wherever its neighbours' counters end, a tray's counters are in as few  *)
(* sets as hold them.                                                      *)
LEMMA TraySets ==
  ASSUME NEW h \in Hosts, NEW t \in 1..Len(TraysOfHost(h))
  PROVE  LET sets == {CounterSetAt(TraysOfHost(h), <<t, j>>) : j \in 1..Size(h, t)}
         IN Cardinality(sets) <= MaxSetsPerDevice <=> Size(h, t) <= MaxSetsPerDevice * M
<1> DEFINE G == TraysOfHost(h)
           size == Size(h, t)
           b == BeginTray(Packed(G)[t - 1], size)
           W == {CounterSetAt(G, <<t, j>>) : j \in 1..size}
           D == MaxSetsPerDevice
           q == (size - 1) \div M
<1>1. /\ size \in Nat \ {0} /\ t - 1 \in 0..Len(G) /\ M \in Nat \ {0} /\ D \in Nat \ {0}
  BY TraySizes, MIsPositive, LimitsAssumption
<1>2. b \in Filling /\ (b.fill = 0 \/ b.fill + size <= M)
  BY <1>1, PackedFacts, BeginTrayFacts, Zenon
<1>3. \A j \in 1..size : CounterSetAt(G, <<t, j>>) = SetAt(b, j)
  BY DEF CounterSetAt, Size
<1>4. W = {SetAt(b, j) : j \in 1..size}
  BY <1>3, Zenon
<1>5. b.set \in Nat /\ b.fill \in 0..M
  BY <1>2, EndType
<1>6. \A j \in 1..size : SetAt(b, j) = b.set + (b.fill + j - 1) \div M
  BY DEF SetAt, M
<1> HIDE DEF b, G, size, W, D
<1>7. CASE b.fill = 0
  <2>1. q \in Nat /\ q * M \in Nat /\ \E r \in 0..(M - 1) : size - 1 = q * M + r
    <3> DEFINE a == size - 1
    <3>1. a \in Nat
      BY <1>1
    <3> HIDE DEF a
    <3>2. a \div M \in Nat /\ a % M \in 0..(M - 1) /\ a = (a \div M) * M + (a % M)
      BY <1>1, <3>1, DivMod, Zenon
    <3>3. (a \div M) * M \in Nat
      BY <1>1, <3>2, ProductType, Zenon
    <3> QED
      BY <3>2, <3>3 DEF a
  <2> HIDE DEF q
  <2>2. ASSUME NEW j \in 1..size PROVE SetAt(b, j) \in b.set..(b.set + q)
    <3> DEFINE a == j - 1
               p == a \div M
               r == a % M
    <3>1. a \in Nat /\ a <= size - 1
      BY <1>1
    <3>2. SetAt(b, j) = b.set + p
      <4>1. b.fill + j - 1 = a
        BY <1>1, <1>7
      <4> QED
        BY <1>6, <4>1
    <3> HIDE DEF a
    <3>3. p \in Nat /\ r \in 0..(M - 1) /\ a = p * M + r
      BY <1>1, <3>1, DivMod, Zenon
    <3> HIDE DEF p, r
    <3>4. p * M \in Nat
      BY <1>1, <3>3, ProductType
    <3>5. p <= q
      <4> SUFFICES ASSUME q < p PROVE FALSE
        BY <2>1, <3>3
      <4>1. q * M + M <= p * M
        BY <1>1, <2>1, <3>3, ProductGrows
      <4>2. PICK x \in 0..(M - 1) : size - 1 = q * M + x
        BY <2>1
      <4> QED
        BY <1>1, <2>1, <3>1, <3>3, <3>4, <4>1, <4>2
    <3> QED
      BY <1>5, <2>1, <3>2, <3>3, <3>5
  <2>3. ASSUME NEW s \in b.set..(b.set + q) PROVE \E j \in 1..size : SetAt(b, j) = s
    <3> DEFINE p == s - b.set
               j == p * M + 1
    <3>1. p \in 0..q /\ p \in Nat /\ b.set + p = s
      BY <1>5, <2>1
    <3> HIDE DEF p
    <3>2. p * M \in Nat
      BY <1>1, <3>1, ProductType
    <3>3. p * M <= q * M
      <4>1. CASE p = q
        BY <2>1, <4>1
      <4>2. CASE p # q
        <5>1. p * M + M <= q * M
          BY <1>1, <2>1, <3>1, <4>2, ProductGrows
        <5> QED
          BY <1>1, <2>1, <3>2, <5>1
      <4> QED
        BY <4>1, <4>2
    <3>4. PICK x \in 0..(M - 1) : size - 1 = q * M + x
      BY <2>1
    <3>5. j \in 1..size
      BY <1>1, <2>1, <3>2, <3>3, <3>4
    <3>6. b.fill + j - 1 = p * M + 0
      BY <1>7, <3>2
    <3>7. (p * M + 0) \div M = p
      <4>1. 0 \in 0..(M - 1)
        BY <1>1
      <4> QED
        BY <1>1, <3>1, <4>1, QuotientUnique
    <3> HIDE DEF j
    <3>8. SetAt(b, j) = s
      BY <1>6, <3>1, <3>5, <3>6, <3>7
    <3> QED
      BY <3>5, <3>8
  <2>4. W = b.set..(b.set + q)
    BY <1>4, <2>2, <2>3
  <2>5. Cardinality(W) = q + 1
    <3> DEFINE lo == b.set
               hi == b.set + q
    <3>1. lo \in Int /\ hi \in Int /\ hi = lo + q /\ q \in Nat
      BY <1>5, <2>1
    <3>2. W = lo..hi
      BY <2>4
    <3> HIDE DEF lo, hi
    <3>3. Cardinality(lo..hi) = IF lo > hi THEN 0 ELSE hi - lo + 1
      BY <3>1, FS_Interval
    <3>4. ~(lo > hi) /\ hi - lo + 1 = q + 1
      BY <3>1
    <3> QED
      BY <3>2, <3>3, <3>4
  <2>6. q + 1 <= D <=> size <= D * M
    BY <1>1, SetsNeeded DEF q
  <2> QED
    BY <2>5, <2>6 DEF W, D, size, G
<1>8. CASE b.fill # 0
  <2>1. b.fill + size <= M
    BY <1>2, <1>8
  <2>2. ASSUME NEW j \in 1..size PROVE SetAt(b, j) = b.set
    <3> DEFINE a == b.fill + j - 1
    <3>1. a \in 0..(M - 1)
      BY <1>1, <1>5, <1>8, <2>1
    <3>2. a = 0 * M + a
      BY <1>1, <3>1
    <3> HIDE DEF a
    <3>3. (0 * M + a) \div M = 0
      BY <1>1, <3>1, QuotientUnique
    <3>4. a \div M = 0
      BY <3>2, <3>3
    <3>5. SetAt(b, j) = b.set + a \div M
      BY <1>6 DEF a
    <3> QED
      BY <1>5, <3>4, <3>5
  <2>3. 1 \in 1..size
    BY <1>1
  <2>4. W = {b.set}
    BY <1>4, <2>2, <2>3
  <2>5. Cardinality(W) = 1
    BY <2>4, FS_Singleton, Zenon
  <2>6. size <= M /\ M <= D * M
    <3>1. size <= M
      BY <1>1, <1>5, <2>1
    <3>2. 0 * M + M <= D * M
      BY <1>1, ProductGrows
    <3>3. 0 * M = 0
      BY <1>1
    <3> QED
      BY <1>1, <3>1, <3>2, <3>3
  <2>7. D * M \in Nat
    BY <1>1, ProductType
  <2>8. 1 <= D /\ size <= D * M
    BY <1>1, <2>6, <2>7
  <2> QED
    BY <2>5, <2>8 DEF W, D, size, G
<1> QED
  BY <1>7, <1>8

(* A tray can declare its exclusion exactly when it fits the sets of one *)
(* device.                                                               *)
LEMMA TrayConsumes ==
  ASSUME NEW h \in Hosts, TrayDevices, NEW t \in 1..Len(TraysOfHost(h))
  PROVE  CanConsume(LayoutOf(h), TraysOfHost(h)[t].bundles)
         <=> Size(h, t) <= MaxSetsPerDevice * M
<1> DEFINE G == TraysOfHost(h)
           L == LayoutOf(h)
           b == G[t].bundles
           chips == ChipsOf(b)
           size == Size(h, t)
           A == {L[c] : c \in chips}
           B == {CounterSetAt(G, <<t, j>>) : j \in 1..size}
<1>1. size \in Nat \ {0} /\ DOMAIN b = 1..size
  BY TraySizes
<1>2. \A j \in 1..size : /\ ChipAt(G, <<t, j>>) \in DOMAIN L
                         /\ L[ChipAt(G, <<t, j>>)] = CounterSetAt(G, <<t, j>>)
  BY LayoutValues
<1>3. \A j \in 1..size : ChipAt(G, <<t, j>>) = b[j].mmio.chip
  BY DEF ChipAt
<1>4. chips = {b[j].mmio.chip : j \in 1..size}
  BY <1>1 DEF ChipsOf
<1>5. L # NoCounters
  <2>1. 1 \in 1..size
    BY <1>1
  <2>2. DOMAIN L # {}
    BY <1>2, <2>1, Zenon
  <2> QED
    BY <2>2, NoCountersFacts
<1>6. CanConsume(L, b) <=> chips \subseteq DOMAIN L /\ Cardinality(A) <= MaxSetsPerDevice
  BY <1>5 DEF CanConsume
<1>7. Cardinality(B) <= MaxSetsPerDevice <=> size <= MaxSetsPerDevice * M
  BY TraySets
<1> HIDE DEF G, L, b, chips, size
<1>8. chips \subseteq DOMAIN L
  BY <1>2, <1>3, <1>4, Zenon
<1>9. A = B
  <2>1. ASSUME NEW c \in chips PROVE L[c] \in B
    <3>1. PICK j \in 1..size : c = b[j].mmio.chip
      BY <1>4
    <3> QED
      BY <1>2, <1>3, <3>1
  <2>2. ASSUME NEW j \in 1..size PROVE CounterSetAt(G, <<t, j>>) \in A
    <3>1. b[j].mmio.chip \in chips
      BY <1>4
    <3>2. L[b[j].mmio.chip] = CounterSetAt(G, <<t, j>>)
      BY <1>2, <1>3
    <3> QED
      BY <3>1, <3>2
  <2>3. A \subseteq B /\ B \subseteq A
    BY <2>1, <2>2, Zenon
  <2> HIDE DEF A, B
  <2> QED
    BY <2>3, Zenon
<1> HIDE DEF A, B
<1> QED
  BY <1>6, <1>7, <1>8, <1>9 DEF G, L, b, size

(* A tray is published exactly when buildChipCounterSets could place its   *)
(* chips in the sets one device may draw on: the trays packed before it    *)
(* never cost a tray its device.                                           *)
THEOREM NoTrayIsLost == Spec => []TraysAreKept
<1>1. Derived => TraysAreKept
  <2> SUFFICES ASSUME Derived, TrayDevices, NEW a \in Mmio(host.asics)
               PROVE  <<"tt-tray", a.tray>> \in DOMAIN unitByDevice
                        <=> Cardinality(Mmio(OnTray(host.asics, a.tray)))
                              <= MaxSetsPerDevice * MaxCountersPerSet
    BY Zenon DEF TraysAreKept
  <2>1. CASE Fresh
    BY <2>1 DEF Fresh, NoHost, Mmio
  <2>2. CASE Applied
    <3> DEFINE U == UnitsOf(host)
               G == TraysOfHost(host)
               L == LayoutOf(host)
    <3>1. host \in Hosts
      BY <2>2 DEF Applied
    <3>2. DOMAIN unitByDevice = {U[k].name : k \in DOMAIN U}
      BY <2>2, PublishedFacts
    <3>3. PICK t \in DOMAIN G : G[t].trayID = a.tray
      BY <3>1, TrayOfChip
    <3>4. t \in 1..Len(G)
      BY <3>1, TraySizes
    <3>5. CanConsume(L, G[t].bundles) <=> Size(host, t) <= MaxSetsPerDevice * MaxCountersPerSet
      BY <3>1, <3>4, TrayConsumes DEF M
    <3>6. Cardinality(Mmio(OnTray(host.asics, a.tray))) = Size(host, t)
      BY <3>1, <3>3, <3>4, TraySize
    <3>7. ASSUME CanConsume(L, G[t].bundles) PROVE <<"tt-tray", a.tray>> \in DOMAIN unitByDevice
      <4>1. IsUnit(host, TrayDevice(G[t]))
        BY <3>7 DEF IsUnit, IsTray
      <4>2. PICK k \in DOMAIN U : U[k] = TrayDevice(G[t])
        BY <3>1, <4>1, UnitsFacts
      <4>3. U[k].name = <<"tt-tray", a.tray>>
        BY <3>3, <4>2 DEF TrayDevice
      <4> QED
        BY <3>2, <4>3
    <3>8. ASSUME <<"tt-tray", a.tray>> \in DOMAIN unitByDevice PROVE CanConsume(L, G[t].bundles)
      <4>1. PICK k \in DOMAIN U : U[k].name = <<"tt-tray", a.tray>>
        BY <3>2, <3>8
      <4>2. U[k].name[1] = "tt-tray"
        BY <4>1
      <4>3. IsTray(host, U[k])
        BY <3>1, <4>2, UnitsFacts
      <4>4. PICK s \in DOMAIN G : CanConsume(L, G[s].bundles) /\ U[k] = TrayDevice(G[s])
        BY <4>3 DEF IsTray
      <4>5. \A x, y \in DOMAIN G : G[x].trayID = G[y].trayID => x = y
        BY <3>1, TraysFacts, Zenon
      <4> HIDE DEF G, L, U
      <4>6. TrayDevice(G[s]).name = <<"tt-tray", G[s].trayID>>
        BY DEF TrayDevice
      <4>7. <<"tt-tray", G[s].trayID>> = <<"tt-tray", a.tray>>
        BY <4>1, <4>4, <4>6
      <4>8. G[s].trayID = a.tray
        BY <4>7
      <4>9. s = t
        BY <3>3, <4>5, <4>8
      <4> QED
        BY <4>4, <4>9
    <3> QED
      BY <3>5, <3>6, <3>7, <3>8
  <2> QED
    BY <2>1, <2>2 DEF Derived
<1> QED
  BY <1>1, PublicationIsDerived, PTL

-----------------------------------------------------------------------------
(* The rectangle of a mesh: row-major positions against cells.              *)

(* A grouping is a rectangle of more than one chip. *)
LEMMA MeshShape ==
  ASSUME NEW m \in DOMAIN RevCMeshes
  PROVE  LET d == RevCMeshes[m]
         IN /\ d.rows \in Nat \ {0} /\ d.cols \in Nat \ {0}
            /\ d.rows > 1 \/ d.cols > 1
            /\ Len(d.slots) = d.rows * d.cols
            /\ Len(d.slots) \in Nat /\ DOMAIN d.slots = 1..Len(d.slots)
            /\ d.rows * d.cols \in Nat
<1> DEFINE T == [slug : STRING \ {"tt", "tt-tray"}, rows : Nat, cols : Nat,
                 slots : Seq([tray : Nat, loc : Nat \ {0}])]
           d == RevCMeshes[m]
<1>1. RevCMeshes \in Seq(T)
  BY MeshesAssumption
<1>2. Len(d.slots) > 1 /\ Len(d.slots) = d.rows * d.cols
  BY MeshesAssumption, Zenon
<1> HIDE DEF T
<1>3. d \in T
  BY <1>1
<1>4. d.rows \in Nat /\ d.cols \in Nat /\ d.slots \in Seq([tray : Nat, loc : Nat \ {0}])
  BY <1>3 DEF T
<1> DEFINE a == d.rows
           b == d.cols
<1>5. a \in Nat /\ b \in Nat /\ a * b > 1
  BY <1>2, <1>4
<1>6. a # 0 /\ b # 0
  <2> HIDE DEF a, b
  <2>1. a = 0 => a * b = 0
    BY <1>5
  <2>2. b = 0 => a * b = 0
    BY <1>5
  <2> QED
    BY <1>5, <2>1, <2>2
<1>7. a > 1 \/ b > 1
  <2> HIDE DEF a, b
  <2>1. a = 1 /\ b = 1 => a * b = 1
    OBVIOUS
  <2> QED
    BY <1>5, <1>6, <2>1
<1> QED
  BY <1>2, <1>4, <1>5, <1>6, <1>7, ProductType

(* Row and column of a cell, from its position in the list of slots. *)
LEMMA CellPosition ==
  ASSUME NEW rows \in Nat \ {0}, NEW cols \in Nat \ {0}, NEW x \in 1..rows, NEW y \in 1..cols
  PROVE  LET i == (x - 1) * cols + y
         IN /\ i \in 1..(rows * cols)
            /\ i - 1 \in 0..(rows * cols - 1)
            /\ (i - 1) \div cols = x - 1
            /\ (i - 1) % cols = y - 1
            /\ x * cols + y = i + cols
<1> DEFINE q == x - 1
           r == y - 1
<1>1. q \in Nat /\ r \in 0..(cols - 1) /\ q < rows /\ x = q + 1 /\ y = r + 1
  OBVIOUS
<1> HIDE DEF q, r
<1>2. q * cols \in Nat /\ rows * cols \in Nat
  BY <1>1, ProductType
<1>3. q * cols + cols <= rows * cols
  BY <1>1, ProductGrows
<1>4. (q * cols + r) \div cols = q /\ (q * cols + r) % cols = r
  BY <1>1, QuotientUnique, RemainderUnique
<1>5. (q + 1) * cols = q * cols + cols
  BY <1>1
<1>6. (q * cols + y) - 1 = q * cols + r
  BY <1>1, <1>2
<1> DEFINE i == q * cols + y
<1>7. i \in 1..(rows * cols) /\ i - 1 \in 0..(rows * cols - 1)
  BY <1>1, <1>2, <1>3
<1>8. x * cols + y = i + cols
  BY <1>1, <1>2, <1>5
<1>9. (i - 1) \div cols = q /\ (i - 1) % cols = r
  BY <1>4, <1>6
<1> QED
  BY <1>7, <1>8, <1>9 DEF q, r

(* The pairs that unlinkedNeighbours checks are the pairs of cells that    *)
(* are side by side.                                                       *)
LEMMA Rectangle ==
  ASSUME NEW m \in DOMAIN RevCMeshes
  PROVE  LET d == RevCMeshes[m]
         IN /\ \A c \in Cells(d) : Index(d, c) \in DOMAIN d.slots
            /\ \A c, e \in Cells(d) :
                 Adjacent(c, e) => <<Index(d, c) - 1, Index(d, e) - 1>> \in Neighbours(d)
            /\ \A p \in Neighbours(d) : \E c, e \in Cells(d) :
                 Adjacent(c, e) /\ Index(d, c) = p[1] + 1 /\ Index(d, e) = p[2] + 1
            /\ \E c, e \in Cells(d) : Adjacent(c, e)
<1> DEFINE d == RevCMeshes[m]
           rows == d.rows
           cols == d.cols
           N == Len(d.slots)
           pos == 0..(N - 1)
<1>1. /\ rows \in Nat \ {0} /\ cols \in Nat \ {0} /\ (rows > 1 \/ cols > 1)
      /\ N = rows * cols /\ N \in Nat /\ DOMAIN d.slots = 1..N
  BY MeshShape
<1>2. Neighbours(d) = {p \in pos \X pos :
                         \/ (p[1] % cols) + 1 < cols /\ p[2] = p[1] + 1
                         \/ (p[1] \div cols) + 1 < rows /\ p[2] = p[1] + cols}
  BY DEF Neighbours
<1>3. Cells(d) = (1..rows) \X (1..cols) /\ \A c : Index(d, c) = (c[1] - 1) * cols + c[2]
  BY DEF Cells, Index
<1> HIDE DEF d, rows, cols, N
<1>4. ASSUME NEW c \in Cells(d)
      PROVE  /\ c[1] \in 1..rows /\ c[2] \in 1..cols
             /\ Index(d, c) \in 1..N /\ Index(d, c) - 1 \in pos
             /\ (Index(d, c) - 1) \div cols = c[1] - 1
             /\ (Index(d, c) - 1) % cols = c[2] - 1
             /\ c[1] * cols + c[2] = Index(d, c) + cols
  <2> DEFINE x == c[1]
             y == c[2]
  <2>1. x \in 1..rows /\ y \in 1..cols /\ Index(d, c) = (x - 1) * cols + y
    BY <1>3
  <2> DEFINE i == (x - 1) * cols + y
  <2> HIDE DEF x, y
  <2>2. /\ i \in 1..(rows * cols) /\ i - 1 \in 0..(rows * cols - 1)
        /\ (i - 1) \div cols = x - 1 /\ (i - 1) % cols = y - 1 /\ x * cols + y = i + cols
    BY <1>1, <2>1, CellPosition
  <2>3. Index(d, c) = i
    BY <2>1
  <2> HIDE DEF i
  <2> QED
    BY <1>1, <2>1, <2>2, <2>3, Zenon DEF x, y
<1>5. ASSUME NEW c \in Cells(d), NEW e \in Cells(d), Adjacent(c, e)
      PROVE  <<Index(d, c) - 1, Index(d, e) - 1>> \in Neighbours(d)
  <2> DEFINE i == Index(d, c) - 1
             j == Index(d, e) - 1
  <2>1. i \in pos /\ j \in pos /\ i \div cols = c[1] - 1 /\ i % cols = c[2] - 1
    BY <1>4
  <2>2. c[1] \in 1..rows /\ c[2] \in 1..cols /\ e[1] \in 1..rows /\ e[2] \in 1..cols
    BY <1>4
  <2>3. CASE c[1] = e[1] /\ c[2] + 1 = e[2]
    <3>1. Index(d, e) = (c[1] - 1) * cols + (c[2] + 1) /\ Index(d, c) = (c[1] - 1) * cols + c[2]
      BY <1>3, <2>3
    <3>2. (c[1] - 1) * cols \in Nat
      BY <1>1, <2>2, ProductType
    <3>3. j = i + 1
      BY <2>2, <3>1, <3>2
    <3>4. (i % cols) + 1 < cols
      BY <1>1, <2>1, <2>2, <2>3
    <3> HIDE DEF i, j
    <3> QED
      BY <1>2, <2>1, <3>3, <3>4 DEF i, j
  <2>4. CASE c[2] = e[2] /\ c[1] + 1 = e[1]
    <3>1. e[1] - 1 = c[1]
      BY <2>2, <2>4
    <3>2. Index(d, e) = c[1] * cols + c[2]
      BY <1>3, <2>4, <3>1
    <3>3. Index(d, e) = Index(d, c) + cols
      BY <1>4, <3>2
    <3>4. Index(d, c) \in Nat
      BY <1>1, <1>4
    <3>5. j = i + cols
      BY <1>1, <3>3, <3>4
    <3>6. (i \div cols) + 1 < rows
      <4>1. (c[1] - 1) + 1 < rows
        BY <1>1, <2>2, <2>4
      <4> HIDE DEF i
      <4> QED
        BY <2>1, <4>1
    <3> HIDE DEF i, j
    <3> QED
      BY <1>2, <2>1, <3>5, <3>6 DEF i, j
  <2> QED
    BY <1>5, <2>3, <2>4 DEF Adjacent
<1>6. ASSUME NEW p \in Neighbours(d)
      PROVE  \E c, e \in Cells(d) :
               Adjacent(c, e) /\ Index(d, c) = p[1] + 1 /\ Index(d, e) = p[2] + 1
  <2> DEFINE i == p[1]
             q == i \div cols
             r == i % cols
             c == <<q + 1, r + 1>>
  <2>1. /\ i \in 0..(N - 1)
        /\ \/ (i % cols) + 1 < cols /\ p[2] = i + 1
           \/ (i \div cols) + 1 < rows /\ p[2] = i + cols
    BY <1>2
  <2> HIDE DEF i
  <2>2. q \in Nat /\ r \in 0..(cols - 1) /\ i = q * cols + r
    <3>1. i \in Nat
      BY <1>1, <2>1
    <3> QED
      BY <1>1, <3>1, DivMod, Zenon
  <2>3. \/ r + 1 < cols /\ p[2] = i + 1
        \/ q + 1 < rows /\ p[2] = i + cols
    BY <2>1
  <2> HIDE DEF q, r
  <2>4. q * cols \in Nat /\ rows * cols \in Nat
    BY <1>1, <2>2, ProductType
  <2>5. q < rows
    <3> SUFFICES ASSUME ~(q < rows) PROVE FALSE
      OBVIOUS
    <3>1. CASE q = rows
      BY <1>1, <2>1, <2>2, <2>4, <3>1
    <3>2. CASE q # rows
      <4>1. rows < q
        BY <1>1, <2>2, <3>2
      <4>2. rows * cols + cols <= q * cols
        BY <1>1, <2>2, <4>1, ProductGrows
      <4> QED
        BY <1>1, <2>1, <2>2, <2>4, <4>2
    <3> QED
      BY <3>1, <3>2
  <2>6. c \in Cells(d) /\ c[1] = q + 1 /\ c[2] = r + 1
    BY <1>1, <1>3, <2>2, <2>5
  <2>7. Index(d, c) = i + 1
    <3>1. Index(d, c) = ((q + 1) - 1) * cols + (r + 1)
      BY <1>3, <2>6
    <3>2. (q + 1) - 1 = q
      BY <2>2
    <3> QED
      BY <2>2, <2>4, <3>1, <3>2
  <2>8. CASE r + 1 < cols /\ p[2] = i + 1
    <3> DEFINE e == <<q + 1, r + 2>>
    <3>1. e \in Cells(d) /\ e[1] = q + 1 /\ e[2] = r + 2
      BY <1>1, <1>3, <2>2, <2>5, <2>8
    <3>2. Adjacent(c, e)
      BY <2>2, <2>6, <3>1 DEF Adjacent
    <3>3. Index(d, e) = ((q + 1) - 1) * cols + (r + 2)
      BY <1>3, <3>1
    <3>4. (q + 1) - 1 = q
      BY <2>2
    <3>5. Index(d, e) = p[2] + 1
      BY <2>1, <2>2, <2>4, <2>8, <3>3, <3>4
    <3> HIDE DEF c, e
    <3> QED
      BY <2>6, <2>7, <3>1, <3>2, <3>5 DEF i
  <2>9. CASE q + 1 < rows /\ p[2] = i + cols
    <3> DEFINE e == <<q + 2, r + 1>>
    <3>1. e \in Cells(d) /\ e[1] = q + 2 /\ e[2] = r + 1
      BY <1>1, <1>3, <2>2, <2>9
    <3>2. Adjacent(c, e)
      BY <2>2, <2>6, <3>1 DEF Adjacent
    <3>3. Index(d, e) = ((q + 2) - 1) * cols + (r + 1)
      BY <1>3, <3>1
    <3>4. (q + 2) - 1 = q + 1 /\ (q + 1) * cols = q * cols + cols
      BY <1>1, <2>2
    <3>5. Index(d, e) = q * cols + cols + (r + 1)
      BY <3>3, <3>4
    <3>6. p[2] = q * cols + r + cols
      BY <2>2, <2>9
    <3>7. Index(d, e) = p[2] + 1
      BY <1>1, <2>2, <2>4, <3>5, <3>6
    <3> HIDE DEF c, e
    <3> QED
      BY <2>6, <2>7, <3>1, <3>2, <3>7 DEF i
  <2> QED
    BY <2>3, <2>8, <2>9
<1>7. \E c, e \in Cells(d) : Adjacent(c, e)
  <2> DEFINE c == <<1, 1>>
             e == IF cols > 1 THEN <<1, 2>> ELSE <<2, 1>>
  <2>1. c \in Cells(d) /\ e \in Cells(d)
    BY <1>1, <1>3
  <2>2. Adjacent(c, e)
    BY DEF Adjacent
  <2> HIDE DEF c, e
  <2> QED
    BY <2>1, <2>2
<1>8. \A c \in Cells(d) : Index(d, c) \in DOMAIN d.slots
  BY <1>1, <1>4
<1> QED
  BY <1>5, <1>6, <1>7, <1>8 DEF d

-----------------------------------------------------------------------------
(* Slots and links.                                                         *)

(* A link connects two chips in either direction. *)
LEMMA LinkFacts ==
  ASSUME NEW h \in Hosts, NEW x, NEW y
  PROVE  {x, y} \in LinkSet(h) <=> <<x, y>> \in h.connections \/ <<y, x>> \in h.connections
<1>1. h.connections \subseteq Nat \X Nat
  BY HostsAssumption
<1>2. ASSUME {x, y} \in LinkSet(h)
      PROVE  <<x, y>> \in h.connections \/ <<y, x>> \in h.connections
  <2>1. PICK c \in h.connections : {x, y} = {c[1], c[2]}
    BY <1>2 DEF LinkSet
  <2>2. c = <<c[1], c[2]>>
    BY <1>1
  <2>3. (x = c[1] /\ y = c[2]) \/ (x = c[2] /\ y = c[1])
    BY <2>1
  <2> QED
    BY <2>2, <2>3
<1>3. ASSUME <<x, y>> \in h.connections PROVE {x, y} \in LinkSet(h)
  BY <1>3 DEF LinkSet
<1>4. ASSUME <<y, x>> \in h.connections PROVE {x, y} \in LinkSet(h)
  <2>1. {y, x} \in LinkSet(h)
    BY <1>4 DEF LinkSet
  <2>2. {y, x} = {x, y}
    OBVIOUS
  <2> QED
    BY <2>1, <2>2
<1> QED
  BY <1>2, <1>3, <1>4

(* When some MMIO chip is in a first place, the guessed base is right. *)
LEMMA BaseFacts ==
  ASSUME NEW h \in Hosts, ReportsBase(h), BundlesOf(h) # <<>>
  PROVE  LocationBase(BundlesOf(h)) = h.base /\ h.base \in Nat
<1> DEFINE B == BundlesOf(h)
           base == LocationBase(B)
<1>1. base \in Nat
  BY LocationBaseFacts
<1>2. PICK k \in DOMAIN B : B[k].mmio.loc = base
  BY LocationBaseFacts
<1>3. \A j \in DOMAIN B : base <= B[j].mmio.loc
  BY LocationBaseFacts
<1>4. B[k].mmio \in Mmio(h.asics)
  BY BundlesFacts
<1>5. PICK a \in Mmio(h.asics) : a.loc = h.base /\ \A b \in Mmio(h.asics) : a.loc <= b.loc
  BY <1>4 DEF ReportsBase
<1>6. PICK j \in DOMAIN B : B[j] = Bundle(h.asics, a)
  BY BundlesFacts, Zenon
<1>7. B[j].mmio = a
  BY <1>6 DEF Bundle
<1>8. a.loc \in Nat
  BY MmioFacts DEF ASIC
<1>9. base <= a.loc /\ a.loc <= base
  BY <1>2, <1>3, <1>4, <1>5, <1>7
<1> HIDE DEF base
<1>10. a.loc = base
  BY <1>1, <1>8, <1>9
<1> QED
  BY <1>1, <1>5, <1>10 DEF base

(* The chips in a slot's place: at most one. *)
Place(h, slot) ==
  {a \in Mmio(h.asics) : a.tray = slot.tray /\ a.loc + 1 = slot.loc + h.base}

(* When the base is right, a slot resolves to the chip in its place. *)
LEMMA SlotFacts ==
  ASSUME NEW h \in Hosts, ReportsBase(h), NEW slot \in [tray : Nat, loc : Nat \ {0}]
  PROVE  /\ BundlesOf(h) # <<>> /\ Lookup(BundlesOf(h), slot) # {} <=> Place(h, slot) # {}
         /\ \A k \in DOMAIN BundlesOf(h) : k \in Lookup(BundlesOf(h), slot) =>
              Place(h, slot) = {BundlesOf(h)[k].mmio}
<1> DEFINE B == BundlesOf(h)
<1>1. slot.loc \in Nat \ {0} /\ \A a \in Mmio(h.asics) : a.loc \in Nat
  BY MmioFacts DEF ASIC
<1>2. ASSUME B # <<>>, NEW k \in DOMAIN B
      PROVE  k \in Lookup(B, slot) <=> B[k].mmio \in Place(h, slot)
  <2>1. B[k].mmio \in Mmio(h.asics)
    BY BundlesFacts
  <2>2. LocationBase(B) = h.base /\ h.base \in Nat
    BY <1>2, BaseFacts
  <2>3. B[k].mmio.loc = slot.loc - 1 + LocationBase(B) <=> B[k].mmio.loc + 1 = slot.loc + h.base
    <3> DEFINE x == B[k].mmio.loc
               y == slot.loc
               z == h.base
    <3>1. x \in Nat /\ y \in Nat \ {0} /\ z \in Nat
      BY <1>1, <2>1, <2>2
    <3> HIDE DEF x, y, z
    <3>2. x = y - 1 + z <=> x + 1 = y + z
      BY <3>1
    <3> QED
      BY <2>2, <3>2 DEF x, y, z
  <2> QED
    BY <2>1, <2>3 DEF Lookup, Place
<1>3. \A a, b \in Place(h, slot) : a = b
  <2> TAKE a, b \in Place(h, slot)
  <2>1. a \in Mmio(h.asics) /\ b \in Mmio(h.asics) /\ a.tray = b.tray /\ a.loc + 1 = b.loc + 1
    BY DEF Place
  <2>2. a.loc = b.loc
    BY <1>1, <2>1
  <2> QED
    BY <2>1, <2>2, MmioFacts
<1>4. ASSUME NEW k \in DOMAIN B, k \in Lookup(B, slot) PROVE Place(h, slot) = {B[k].mmio}
  <2>1. B # <<>>
    BY <1>4
  <2>2. B[k].mmio \in Place(h, slot)
    BY <1>2, <1>4, <2>1
  <2> QED
    BY <1>3, <2>2
<1>5. ASSUME B # <<>>, Lookup(B, slot) # {} PROVE Place(h, slot) # {}
  <2>1. PICK k \in DOMAIN B : k \in Lookup(B, slot)
    BY <1>5 DEF Lookup
  <2> QED
    BY <1>4, <2>1
<1>6. ASSUME NEW a \in Place(h, slot) PROVE B # <<>> /\ Lookup(B, slot) # {}
  <2>1. a \in Mmio(h.asics)
    BY DEF Place
  <2>2. PICK k \in DOMAIN B : B[k] = Bundle(h.asics, a)
    BY <2>1, BundlesFacts, Zenon
  <2>3. B[k].mmio = a
    BY <2>2 DEF Bundle
  <2>4. B # <<>>
    BY <2>2
  <2>5. k \in Lookup(B, slot)
    BY <1>2, <2>3, <2>4
  <2> QED
    BY <2>4, <2>5
<1> QED
  BY <1>4, <1>5, <1>6

(* IsCabled, of a host. *)
CabledOn(h, d) ==
  LET at(n) == {a \in Mmio(h.asics) :
                  /\ a.tray = d.slots[n].tray
                  /\ a.loc + 1 = d.slots[n].loc + h.base
                  /\ a.board = "galaxy-blackhole"}
  IN /\ \A n \in DOMAIN d.slots : at(n) # {}
     /\ \A c, e \in Cells(d) : Adjacent(c, e) =>
          \E a \in at(Index(d, c)), b \in at(Index(d, e)) :
            <<a.chip, b.chip>> \in h.connections \/ <<b.chip, a.chip>> \in h.connections

(* resolveMesh accepts the meshes that are cabled. *)
LEMMA ResolvesCabled ==
  ASSUME NEW h \in Hosts, ReportsBase(h), NEW m \in DOMAIN RevCMeshes
  PROVE  BundlesOf(h) # <<>> /\ Resolves(RevCMeshes[m], BundlesOf(h), LinkSet(h))
         <=> CabledOn(h, RevCMeshes[m])
<1> DEFINE B == BundlesOf(h)
           d == RevCMeshes[m]
           N == DOMAIN d.slots
           member(n) == B[CHOOSE k \in Lookup(B, d.slots[n]) : TRUE]
           at(n) == {a \in Mmio(h.asics) :
                       /\ a.tray = d.slots[n].tray
                       /\ a.loc + 1 = d.slots[n].loc + h.base
                       /\ a.board = "galaxy-blackhole"}
           good(n) == /\ B # <<>> /\ Lookup(B, d.slots[n]) # {}
                      /\ member(n).mmio.board = "galaxy-blackhole"
           linked(x, y) == <<x, y>> \in h.connections \/ <<y, x>> \in h.connections
<1>1. \A n \in N : d.slots[n] \in [tray : Nat, loc : Nat \ {0}]
  <2>1. d.slots \in Seq([tray : Nat, loc : Nat \ {0}])
    BY MeshType
  <2> DEFINE slots == d.slots
             T == [tray : Nat, loc : Nat \ {0}]
  <2>2. slots \in Seq(T)
    BY <2>1
  <2> HIDE DEF slots, T
  <2>3. \A n \in DOMAIN slots : slots[n] \in T
    BY <2>2
  <2> QED
    BY <2>3 DEF slots, T
<1>2. 1 \in N
  <2>1. d.slots \in Seq([tray : Nat, loc : Nat \ {0}]) /\ d.slots # <<>>
    BY MeshType
  <2> QED
    BY <2>1, FirstElement
<1>3. ASSUME NEW n \in N PROVE at(n) = {a \in Place(h, d.slots[n]) : a.board = "galaxy-blackhole"}
  BY DEF Place
<1>4. ASSUME NEW n \in N, Lookup(B, d.slots[n]) # {} PROVE Place(h, d.slots[n]) = {member(n).mmio}
  <2> DEFINE k == CHOOSE k \in Lookup(B, d.slots[n]) : TRUE
  <2>1. k \in Lookup(B, d.slots[n])
    BY <1>4
  <2>2. k \in DOMAIN B
    BY <2>1, Zenon DEF Lookup
  <2> HIDE DEF k
  <2>3. Place(h, d.slots[n]) = {B[k].mmio}
    BY <1>1, <2>1, <2>2, SlotFacts
  <2> QED
    BY <2>3 DEF k
<1>5. ASSUME NEW n \in N PROVE at(n) # {} <=> good(n)
  <2>1. B # <<>> /\ Lookup(B, d.slots[n]) # {} <=> Place(h, d.slots[n]) # {}
    BY <1>1, SlotFacts
  <2> HIDE DEF at, member
  <2> QED
    BY <1>3, <1>4, <2>1, Zenon
<1>6. ASSUME NEW n \in N, good(n) PROVE at(n) = {member(n).mmio}
  <2> HIDE DEF at, member
  <2> QED
    BY <1>3, <1>4, <1>6, Zenon
<1>7. B # <<>> /\ Resolves(d, B, LinkSet(h))
      <=> /\ \A n \in N : good(n)
          /\ \A p \in Neighbours(d) :
               {member(p[1] + 1).mmio.chip, member(p[2] + 1).mmio.chip} \in LinkSet(h)
  <2>1. Resolves(d, B, LinkSet(h))
        <=> /\ \A n \in N : Lookup(B, d.slots[n]) # {}
            /\ \A n \in N : member(n).mmio.board = "galaxy-blackhole"
            /\ \A p \in Neighbours(d) :
                 {member(p[1] + 1).mmio.chip, member(p[2] + 1).mmio.chip} \in LinkSet(h)
    BY DEF Resolves
  <2> HIDE DEF member, N, d, B
  <2> QED
    BY <1>2, <2>1
<1>8. CabledOn(h, d)
      <=> /\ \A n \in N : at(n) # {}
          /\ \A c, e \in Cells(d) : Adjacent(c, e) =>
               \E a \in at(Index(d, c)), b \in at(Index(d, e)) : linked(a.chip, b.chip)
  BY DEF CabledOn
<1>9. \A x, y : {x, y} \in LinkSet(h) <=> linked(x, y)
  BY LinkFacts, Zenon
<1>10. /\ \A c \in Cells(d) : Index(d, c) \in N
       /\ \A c, e \in Cells(d) :
            Adjacent(c, e) => <<Index(d, c) - 1, Index(d, e) - 1>> \in Neighbours(d)
       /\ \A p \in Neighbours(d) : \E c, e \in Cells(d) :
            Adjacent(c, e) /\ Index(d, c) = p[1] + 1 /\ Index(d, e) = p[2] + 1
  BY Rectangle
<1>11. N \subseteq Nat
  BY MeshShape
<1> HIDE DEF B, d, N, member, at, linked, good
<1>12. ASSUME \A n \in N : good(n),
              \A p \in Neighbours(d) :
                {member(p[1] + 1).mmio.chip, member(p[2] + 1).mmio.chip} \in LinkSet(h),
              NEW c \in Cells(d), NEW e \in Cells(d), Adjacent(c, e)
       PROVE  \E a \in at(Index(d, c)), b \in at(Index(d, e)) : linked(a.chip, b.chip)
  <2> DEFINE i == Index(d, c)
             j == Index(d, e)
             p == <<i - 1, j - 1>>
  <2>1. i \in N /\ j \in N /\ p \in Neighbours(d)
    BY <1>10, <1>12
  <2>2. p[1] + 1 = i /\ p[2] + 1 = j
    <3>1. i \in Nat /\ j \in Nat
      BY <1>11, <2>1, Zenon
    <3>2. p[1] = i - 1 /\ p[2] = j - 1
      OBVIOUS
    <3> HIDE DEF i, j, p
    <3> QED
      BY <3>1, <3>2
  <2>3. {member(i).mmio.chip, member(j).mmio.chip} \in LinkSet(h)
    BY <1>12, <2>1, <2>2
  <2>4. at(i) = {member(i).mmio} /\ at(j) = {member(j).mmio}
    BY <1>6, <1>12, <2>1
  <2>5. linked(member(i).mmio.chip, member(j).mmio.chip)
    BY <1>9, <2>3
  <2> HIDE DEF i, j
  <2>6. \E a \in at(i), b \in at(j) : linked(a.chip, b.chip)
    BY <2>4, <2>5
  <2> QED
    BY <2>6 DEF i, j
<1>13. ASSUME \A n \in N : good(n),
              \A c, e \in Cells(d) : Adjacent(c, e) =>
                \E a \in at(Index(d, c)), b \in at(Index(d, e)) : linked(a.chip, b.chip),
              NEW p \in Neighbours(d)
       PROVE  {member(p[1] + 1).mmio.chip, member(p[2] + 1).mmio.chip} \in LinkSet(h)
  <2>1. PICK c, e \in Cells(d) : Adjacent(c, e) /\ Index(d, c) = p[1] + 1 /\ Index(d, e) = p[2] + 1
    BY <1>10
  <2> DEFINE i == Index(d, c)
             j == Index(d, e)
  <2>2. PICK a \in at(i), b \in at(j) : linked(a.chip, b.chip)
    BY <1>13, <2>1
  <2>3. i \in N /\ j \in N
    BY <1>10
  <2>4. at(i) = {member(i).mmio} /\ at(j) = {member(j).mmio}
    BY <1>6, <1>13, <2>3
  <2>5. a = member(i).mmio /\ b = member(j).mmio
    BY <2>2, <2>4
  <2>6. {member(i).mmio.chip, member(j).mmio.chip} \in LinkSet(h)
    BY <1>9, <2>2, <2>5
  <2> QED
    BY <2>1, <2>6
<1>14. CabledOn(h, d) <=> B # <<>> /\ Resolves(d, B, LinkSet(h))
  <2>1. ASSUME CabledOn(h, d) PROVE B # <<>> /\ Resolves(d, B, LinkSet(h))
    <3>1. \A n \in N : good(n)
      BY <1>5, <1>8, <2>1
    <3>2. \A p \in Neighbours(d) :
            {member(p[1] + 1).mmio.chip, member(p[2] + 1).mmio.chip} \in LinkSet(h)
      BY <1>8, <1>13, <2>1, <3>1
    <3> QED
      BY <1>7, <3>1, <3>2
  <2>2. ASSUME B # <<>>, Resolves(d, B, LinkSet(h)) PROVE CabledOn(h, d)
    <3>1. \A n \in N : good(n)
      BY <1>7, <2>2
    <3>2. \A n \in N : at(n) # {}
      BY <1>5, <3>1
    <3>3. \A p \in Neighbours(d) :
            {member(p[1] + 1).mmio.chip, member(p[2] + 1).mmio.chip} \in LinkSet(h)
      BY <1>7, <2>2
    <3>4. \A c, e \in Cells(d) : Adjacent(c, e) =>
            \E a \in at(Index(d, c)), b \in at(Index(d, e)) : linked(a.chip, b.chip)
      BY <1>12, <3>1, <3>3
    <3> QED
      BY <1>8, <3>2, <3>4
  <2> QED
    BY <2>1, <2>2
<1> QED
  BY <1>14 DEF B, d

-----------------------------------------------------------------------------
(* The counter sets of a mesh.                                              *)

(* Each tray's counters fit one set. *)
SmallTrays(h) ==
  \A a \in Mmio(h.asics) : Cardinality(Mmio(OnTray(h.asics, a.tray))) <= MaxCountersPerSet

(* The chips of a tray that fits a set have their counters in one set. *)
LEMMA OneSetPerTray ==
  ASSUME NEW h \in Hosts, SmallTrays(h), TrayDevices \/ MeshDevices,
         NEW a \in Mmio(h.asics), NEW b \in Mmio(h.asics), a.tray = b.tray
  PROVE  LayoutOf(h)[a.chip] = LayoutOf(h)[b.chip]
<1> DEFINE G == TraysOfHost(h)
           L == LayoutOf(h)
<1>1. PICK t \in DOMAIN G : G[t].trayID = a.tray
  BY TrayOfChip
<1>2. t \in 1..Len(G) /\ Size(h, t) \in Nat \ {0} /\ DOMAIN G[t].bundles = 1..Size(h, t)
  BY TraySizes
<1>3. Size(h, t) <= M
  BY <1>1, <1>2, TraySize DEF SmallTrays, M
<1> DEFINE size == Size(h, t)
           at == BeginTray(Packed(G)[t - 1], size)
<1>4. at \in Filling /\ (at.fill = 0 \/ at.fill + size <= M)
  <2>1. t - 1 \in 0..Len(G)
    BY <1>2
  <2>2. Packed(G)[t - 1] \in Filling
    BY <2>1, PackedFacts
  <2> QED
    BY <1>2, <2>2, BeginTrayFacts, Zenon
<1>5. ASSUME NEW j \in 1..size PROVE CounterSetAt(G, <<t, j>>) = at.set
  <2> DEFINE x == at.fill + j - 1
  <2>1. CounterSetAt(G, <<t, j>>) = SetAt(at, j)
    BY DEF CounterSetAt, Size
  <2>2. SetAt(at, j) = at.set + x \div M
    BY DEF SetAt, M
  <2>3. at.set \in Nat /\ at.fill \in 0..M /\ M \in Nat \ {0}
    BY <1>4, EndType, MIsPositive
  <2> HIDE DEF at, size
  <2>4. x \in 0..(M - 1)
    BY <1>2, <1>3, <1>4, <2>3 DEF size
  <2>5. x = 0 * M + x
    BY <2>3, <2>4
  <2> HIDE DEF x
  <2>6. (0 * M + x) \div M = 0
    BY <2>3, <2>4, QuotientUnique
  <2>7. x \div M = 0
    BY <2>5, <2>6
  <2> QED
    BY <2>1, <2>2, <2>3, <2>7
<1>6. ASSUME NEW c \in Mmio(h.asics), c.tray = a.tray PROVE L[c.chip] = at.set
  <2>1. PICK j \in DOMAIN G[t].bundles : G[t].bundles[j] = Bundle(h.asics, c)
    BY <1>1, <1>6, TrayMembers
  <2>2. Bundle(h.asics, c).mmio = c
    BY DEF Bundle
  <2>3. j \in 1..size
    BY <1>2
  <2>4. ChipAt(G, <<t, j>>) = c.chip
    BY <2>1, <2>2 DEF ChipAt
  <2>5. L[ChipAt(G, <<t, j>>)] = CounterSetAt(G, <<t, j>>)
    BY <1>2, LayoutValues
  <2> QED
    BY <1>5, <2>3, <2>4, <2>5
<1> QED
  BY <1>6

(* What a definition resolves to. *)
LEMMA MemberFacts ==
  ASSUME NEW h \in Hosts, NEW m \in DOMAIN RevCMeshes,
         Resolves(RevCMeshes[m], BundlesOf(h), LinkSet(h))
  PROVE  LET members == ResolveMesh(RevCMeshes[m], BundlesOf(h))
             slots == RevCMeshes[m].slots
         IN /\ DOMAIN members = DOMAIN slots
            /\ \A n \in DOMAIN slots : members[n].mmio \in Mmio(h.asics)
            /\ \A n \in DOMAIN slots : members[n].mmio.tray = slots[n].tray
<1> DEFINE B == BundlesOf(h)
           slots == RevCMeshes[m].slots
           members == ResolveMesh(RevCMeshes[m], B)
           place(n) == CHOOSE k \in Lookup(B, slots[n]) : TRUE
<1>1. members = [n \in DOMAIN slots |-> B[place(n)]]
  BY DEF ResolveMesh
<1>2. DOMAIN members = DOMAIN slots
  BY <1>1
<1>3. ASSUME NEW n \in DOMAIN slots
      PROVE  members[n].mmio \in Mmio(h.asics) /\ members[n].mmio.tray = slots[n].tray
  <2>1. Lookup(B, slots[n]) # {}
    BY DEF Resolves
  <2>2. place(n) \in Lookup(B, slots[n])
    BY <2>1
  <2> HIDE DEF place
  <2>3. place(n) \in DOMAIN B /\ B[place(n)].mmio.tray = slots[n].tray
    BY <2>2 DEF Lookup
  <2>4. B[place(n)].mmio \in Mmio(h.asics)
    BY <2>3, BundlesFacts
  <2>5. members[n] = B[place(n)]
    BY <1>1
  <2> QED
    BY <2>3, <2>4, <2>5
<1> QED
  BY <1>2, <1>3

(* A mesh draws on one set for each of its trays, at most. *)
LEMMA MeshConsumes ==
  ASSUME NEW h \in Hosts, SmallTrays(h), MeshDevices, NEW m \in DOMAIN RevCMeshes,
         Resolves(RevCMeshes[m], BundlesOf(h), LinkSet(h))
  PROVE  CanConsume(LayoutOf(h), ResolveMesh(RevCMeshes[m], BundlesOf(h)))
<1> DEFINE L == LayoutOf(h)
           slots == RevCMeshes[m].slots
           members == ResolveMesh(RevCMeshes[m], BundlesOf(h))
           N == DOMAIN slots
           value(n) == L[members[n].mmio.chip]
           T == {slots[n].tray : n \in N}
           S == {value(n) : n \in N}
           choice(t) == CHOOSE n \in N : slots[n].tray = t
           f == [t \in T |-> value(choice(t))]
           tray == [n \in N |-> slots[n].tray]
<1>1. /\ DOMAIN members = N
      /\ \A n \in N : members[n].mmio \in Mmio(h.asics)
      /\ \A n \in N : members[n].mmio.tray = slots[n].tray
  BY MemberFacts
<1>2. DOMAIN L = ChipSet(h)
  BY LayoutDomain
<1>3. ASSUME NEW i \in N, NEW j \in N, slots[i].tray = slots[j].tray PROVE value(i) = value(j)
  <2>1. members[i].mmio.tray = members[j].mmio.tray
    BY <1>1, <1>3
  <2> QED
    BY <1>1, <2>1, OneSetPerTray, Zenon
<1>4. Cardinality(T) <= MaxSetsPerDevice
  BY MeshesAssumption, Zenon
<1>5. IsFiniteSet(T)
  <2>1. Len(slots) \in Nat /\ N = 1..Len(slots)
    BY MeshShape
  <2>2. IsFiniteSet(1..Len(slots))
    BY <2>1, FS_Interval
  <2> HIDE DEF N, slots
  <2>3. tray \in Surjection(N, T)
    BY DEF Surjection
  <2> HIDE DEF T, tray
  <2> QED
    BY <2>1, <2>2, <2>3, FS_Surjection
<1>6. ChipsOf(members) = {members[n].mmio.chip : n \in N}
  BY <1>1 DEF ChipsOf
<1> HIDE DEF L, slots, members, N
<1>7. ChipsOf(members) \subseteq DOMAIN L
  BY <1>1, <1>2, <1>6 DEF ChipSet
<1>8. {L[c] : c \in ChipsOf(members)} = S
  BY <1>6
<1> HIDE DEF value
<1>9. ASSUME NEW t \in T PROVE choice(t) \in N /\ slots[choice(t)].tray = t
  OBVIOUS
<1> HIDE DEF choice
<1>10. f \in [T -> S]
  BY <1>9
<1>11. ASSUME NEW n \in N PROVE \E t \in T : f[t] = value(n)
  <2> DEFINE t == slots[n].tray
  <2>1. t \in T
    OBVIOUS
  <2>2. f[t] = value(choice(t)) /\ choice(t) \in N /\ slots[choice(t)].tray = slots[n].tray
    BY <1>9, <2>1
  <2> HIDE DEF t
  <2>3. value(choice(t)) = value(n)
    BY <1>3, <2>2
  <2> QED
    BY <2>1, <2>2, <2>3
<1> HIDE DEF f, T
<1>12. f \in Surjection(T, S)
  BY <1>10, <1>11 DEF Surjection
<1> HIDE DEF S
<1>13. Cardinality(S) <= Cardinality(T) /\ IsFiniteSet(S)
  BY <1>5, <1>12, FS_Surjection
<1>14. Cardinality(S) \in Nat /\ Cardinality(T) \in Nat /\ MaxSetsPerDevice \in Nat
  BY <1>5, <1>13, FS_CardinalityType, LimitsAssumption
<1>15. Cardinality(S) <= MaxSetsPerDevice
  BY <1>4, <1>13, <1>14
<1>16. CanConsume(L, members)
  BY <1>7, <1>8, <1>15 DEF CanConsume
<1> QED
  BY <1>16 DEF L, members

(* Two groupings of one shape that start with the same chip are the same. *)
LEMMA MeshNamesItself ==
  ASSUME NEW h \in Hosts, ReportsBase(h),
         NEW l \in ResolvedMeshes(h, BundlesOf(h), LayoutOf(h)), NEW m \in DOMAIN RevCMeshes,
         RevCMeshes[l].slug = RevCMeshes[m].slug,
         LET first == ResolveMesh(RevCMeshes[l], BundlesOf(h))[1].mmio
         IN /\ first.tray = RevCMeshes[m].slots[1].tray
            /\ first.loc + 1 = RevCMeshes[m].slots[1].loc + h.base
  PROVE  l = m
<1> DEFINE B == BundlesOf(h)
           first == ResolveMesh(RevCMeshes[l], B)[1].mmio
           s == RevCMeshes[l].slots[1]
           t == RevCMeshes[m].slots[1]
           T == [tray : Nat, loc : Nat \ {0}]
<1>1. l \in DOMAIN RevCMeshes /\ B # <<>>
  BY ResolvedFacts
<1>2. /\ RevCMeshes[l].slots \in Seq(T) /\ RevCMeshes[l].slots # <<>>
      /\ RevCMeshes[m].slots \in Seq(T) /\ RevCMeshes[m].slots # <<>>
  BY <1>1, MeshType
<1>3. 1 \in DOMAIN RevCMeshes[l].slots /\ s \in T /\ t \in T
  <2> HIDE DEF T
  <2> QED
    BY <1>2, FirstElement
<1>4. PICK k \in DOMAIN B : /\ ResolveMesh(RevCMeshes[l], B)[1] = B[k]
                            /\ B[k].mmio.tray = s.tray
                            /\ B[k].mmio.loc = s.loc - 1 + LocationBase(B)
  BY <1>3, ResolvedFacts, Zenon
<1>5. LocationBase(B) = h.base /\ h.base \in Nat
  BY <1>1, BaseFacts
<1>6. first.tray = s.tray /\ first.loc = s.loc - 1 + h.base
  BY <1>4, <1>5
<1>7. first.tray = t.tray /\ first.loc + 1 = t.loc + h.base
  OBVIOUS
<1> HIDE DEF first, s, t
<1>8. s.loc \in Nat \ {0} /\ t.loc \in Nat \ {0}
  BY <1>3
<1>9. s.loc = t.loc
  <2> DEFINE x == s.loc
             y == t.loc
             z == first.loc
  <2>1. x \in Nat \ {0} /\ y \in Nat \ {0} /\ z = x - 1 + h.base /\ z + 1 = y + h.base
    BY <1>6, <1>7, <1>8
  <2> HIDE DEF x, y, z
  <2>2. x = y
    BY <1>5, <2>1
  <2> QED
    BY <2>2 DEF x, y
<1>10. s = t
  <2>1. s = [tray |-> s.tray, loc |-> s.loc] /\ t = [tray |-> t.tray, loc |-> t.loc]
    BY <1>3
  <2>2. s.tray = t.tray
    BY <1>6, <1>7
  <2> QED
    BY <1>9, <2>1, <2>2
<1> QED
  BY <1>1, <1>10, MeshesAssumption DEF s, t

(* The chips of a resolved mesh, when the base is right. *)
LEMMA MembersInPlace ==
  ASSUME NEW h \in Hosts, ReportsBase(h), NEW l \in ResolvedMeshes(h, BundlesOf(h), LayoutOf(h)),
         NEW n \in DOMAIN RevCMeshes[l].slots
  PROVE  LET members == ResolveMesh(RevCMeshes[l], BundlesOf(h))
             slot == RevCMeshes[l].slots[n]
         IN members[n].mmio.tray = slot.tray /\ members[n].mmio.loc + 1 = slot.loc + h.base
<1> DEFINE B == BundlesOf(h)
           d == RevCMeshes[l]
           members == ResolveMesh(d, B)
<1>1. PICK j \in DOMAIN B : /\ members[n] = B[j]
                            /\ B[j].mmio.tray = d.slots[n].tray
                            /\ B[j].mmio.loc = d.slots[n].loc - 1 + LocationBase(B)
  BY ResolvedFacts, Zenon
<1>2. LocationBase(B) = h.base /\ h.base \in Nat
  BY BaseFacts, ResolvedFacts
<1> DEFINE x == d.slots[n].loc
           y == B[j].mmio.loc
<1>3. x \in Nat \ {0}
  <2> DEFINE T == [tray : Nat, loc : Nat \ {0}]
             slots == d.slots
  <2>1. slots \in Seq(T)
    BY MeshType, ResolvedFacts
  <2>2. n \in DOMAIN slots
    OBVIOUS
  <2> HIDE DEF slots, T
  <2>3. slots[n] \in T
    BY <2>1, <2>2
  <2> QED
    BY <2>3 DEF slots, T
<1>4. y = x - 1 + h.base
  BY <1>1, <1>2
<1> HIDE DEF x, y
<1>5. y + 1 = x + h.base
  BY <1>2, <1>3, <1>4
<1> QED
  BY <1>1, <1>5, Zenon DEF x, y

(* Whatever the base, a resolved mesh is a rectangle of linked chips. *)
LEMMA MembersLinked ==
  ASSUME host \in Hosts,
         NEW l \in ResolvedMeshes(host, BundlesOf(host), LayoutOf(host))
  PROVE  IsRectangle(ResolveMesh(RevCMeshes[l], BundlesOf(host)), RevCMeshes[l])
<1> DEFINE B == BundlesOf(host)
           d == RevCMeshes[l]
           N == DOMAIN d.slots
           members == ResolveMesh(d, B)
           member(n) == B[CHOOSE k \in Lookup(B, d.slots[n]) : TRUE]
<1>1. l \in DOMAIN RevCMeshes /\ DOMAIN members = N
  BY ResolvedFacts
<1>2. Len(d.slots) = d.rows * d.cols /\ Len(d.slots) \in Nat /\ N = 1..Len(d.slots)
  BY <1>1, MeshShape
<1>3. Len(members) = d.rows * d.cols
  BY <1>1, <1>2
<1>4. \A n \in N : members[n] = member(n)
  BY DEF ResolveMesh
<1>5. /\ \A n \in N : member(n).mmio.board = "galaxy-blackhole"
      /\ \A p \in Neighbours(d) :
           {member(p[1] + 1).mmio.chip, member(p[2] + 1).mmio.chip} \in LinkSet(host)
  <2>1. Resolves(d, B, LinkSet(host))
    BY DEF ResolvedMeshes
  <2> QED
    BY <2>1, Zenon DEF Resolves
<1>6. ASSUME NEW c \in Cells(d), NEW e \in Cells(d), Adjacent(c, e)
      PROVE  Linked(members[Index(d, c)].mmio, members[Index(d, e)].mmio)
  <2> DEFINE i == Index(d, c)
             j == Index(d, e)
             p == <<i - 1, j - 1>>
  <2>1. i \in N /\ j \in N /\ p \in Neighbours(d)
    BY <1>1, <1>6, Rectangle
  <2>2. p[1] + 1 = i /\ p[2] + 1 = j
    <3>1. i \in Nat /\ j \in Nat
      BY <1>2, <2>1
    <3>2. p[1] = i - 1 /\ p[2] = j - 1
      OBVIOUS
    <3> HIDE DEF i, j, p
    <3> QED
      BY <3>1, <3>2
  <2> HIDE DEF i, j, p, member, members
  <2>3. {members[i].mmio.chip, members[j].mmio.chip} \in LinkSet(host)
    BY <1>4, <1>5, <2>1, <2>2
  <2>4. Linked(members[i].mmio, members[j].mmio)
    BY <2>3, LinkFacts DEF Linked
  <2> QED
    BY <2>4 DEF i, j
<1> HIDE DEF member, members, d, N
<1>7. \A n \in DOMAIN members : members[n].mmio.board = "galaxy-blackhole"
  BY <1>1, <1>4, <1>5
<1>8. IsRectangle(members, d)
  BY <1>3, <1>6, <1>7, Zenon DEF IsRectangle
<1> QED
  BY <1>8 DEF members, d

(* A device that is named after neither a chip nor a tray is a mesh.  *)
LEMMA PublishedMesh ==
  ASSUME Applied, NEW n \in DOMAIN unitByDevice, n[1] # "tt", n[1] # "tt-tray"
  PROVE  /\ MeshDevices /\ host.revC
         /\ \E l \in ResolvedMeshes(host, BundlesOf(host), LayoutOf(host)) :
              /\ n[1] = RevCMeshes[l].slug
              /\ unitByDevice[n] = ResolveMesh(RevCMeshes[l], BundlesOf(host))
<1> DEFINE U == UnitsOf(host)
           B == BundlesOf(host)
           members(l) == ResolveMesh(RevCMeshes[l], B)
<1>1. host \in Hosts
  BY DEF Applied
<1>2. /\ DOMAIN unitByDevice = {U[k].name : k \in DOMAIN U}
      /\ \A k \in DOMAIN U : unitByDevice[U[k].name] = U[k].bundles
  BY PublishedFacts
<1>3. PICK k \in DOMAIN U : n = U[k].name
  BY <1>2
<1>4. IsMesh(host, U[k])
  <2>1. IsUnit(host, U[k]) /\ U[k].name[1] # "tt" /\ U[k].name[1] # "tt-tray"
    BY <1>1, <1>3, UnitsFacts, Zenon
  <2>2. ~IsChip(host, U[k]) /\ ~IsTray(host, U[k])
    BY <1>1, <2>1, UnitsFacts
  <2> QED
    BY <2>1, <2>2 DEF IsUnit
<1>5. MeshDevices /\ host.revC
  BY <1>4 DEF IsMesh
<1>6. PICK l \in ResolvedMeshes(host, B, LayoutOf(host)) :
        U[k] = MeshDevice(RevCMeshes[l], members(l))
  BY <1>4 DEF IsMesh
<1>7. unitByDevice[n] = U[k].bundles
  BY <1>2, <1>3
<1>8. /\ MeshDevice(RevCMeshes[l], members(l)).name[1] = RevCMeshes[l].slug
      /\ MeshDevice(RevCMeshes[l], members(l)).bundles = members(l)
  BY DEF MeshDevice
<1>9. n[1] = RevCMeshes[l].slug /\ unitByDevice[n] = members(l)
  BY <1>3, <1>6, <1>7, <1>8, Zenon
<1> QED
  BY <1>5, <1>9

(* Where the host reports the first place of a tray and no tray has more   *)
(* chips than a counter set holds, buildMeshDevices publishes a mesh       *)
(* exactly when the host is a rev C and cabled as the grouping claims.     *)
THEOREM MeshesFollowCables == Spec => [](SmallTrays(host) => MeshesAreCabled)
<1>1. Derived => (SmallTrays(host) => MeshesAreCabled)
  <2> SUFFICES ASSUME Derived, ReportsBase(host), SmallTrays(host), NEW m \in DOMAIN RevCMeshes
               PROVE  (\E n \in DOMAIN unitByDevice :
                         n[1] = RevCMeshes[m].slug /\ Serves(unitByDevice[n], RevCMeshes[m]))
                        <=> MeshDevices /\ host.revC /\ IsCabled(RevCMeshes[m])
    BY DEF MeshesAreCabled
  <2>1. CASE Fresh
    <3>1. ~host.revC
      BY <2>1 DEF Fresh, NoHost
    <3> QED
      BY <2>1, <3>1, FreshPublished
  <2>2. CASE Applied
    <3> DEFINE U == UnitsOf(host)
               B == BundlesOf(host)
               L == LayoutOf(host)
               d == RevCMeshes[m]
               members(l) == ResolveMesh(RevCMeshes[l], B)
    <3>1. host \in Hosts
      BY <2>2 DEF Applied
    <3>2. DOMAIN unitByDevice = {U[k].name : k \in DOMAIN U}
      BY <2>2, PublishedFacts
    <3>3. \A k \in DOMAIN U : unitByDevice[U[k].name] = U[k].bundles
      BY <2>2, PublishedFacts
    <3>4. IsCabled(d) <=> CabledOn(host, d)
      BY Zenon DEF IsCabled, CabledOn, Linked
    <3>5. B # <<>> /\ Resolves(d, B, LinkSet(host)) <=> CabledOn(host, d)
      BY <3>1, ResolvesCabled
    <3>6. d.slug # "tt" /\ d.slug # "tt-tray" /\ 1 \in DOMAIN d.slots
      <4>1. d.slug # "tt" /\ d.slug # "tt-tray"
        BY MeshType
      <4>2. d.slots \in Seq([tray : Nat, loc : Nat \ {0}]) /\ d.slots # <<>>
        BY MeshType
      <4>3. 1 \in DOMAIN d.slots
        BY <4>2, FirstElement
      <4> QED
        BY <4>1, <4>3
    <3>7. ASSUME NEW n \in DOMAIN unitByDevice, n[1] = d.slug, Serves(unitByDevice[n], d)
          PROVE  MeshDevices /\ host.revC /\ IsCabled(d)
      <4>1. n[1] # "tt" /\ n[1] # "tt-tray"
        BY <3>6, <3>7
      <4>2. PICK l \in ResolvedMeshes(host, B, L) :
              n[1] = RevCMeshes[l].slug /\ unitByDevice[n] = members(l)
        BY <2>2, <4>1, PublishedMesh
      <4>3. MeshDevices /\ host.revC
        BY <2>2, <4>1, PublishedMesh
      <4>4. 1 \in DOMAIN members(l)
        <5>1. members(l) \in Seq(Anchored(host.asics)) /\ members(l) # <<>>
          BY <3>1, ResolvedFacts
        <5> QED
          BY <5>1, FirstElement
      <4>5. /\ members(l)[1].mmio.tray = d.slots[1].tray
            /\ members(l)[1].mmio.loc + 1 = d.slots[1].loc + host.base
        BY <3>7, <4>2, <4>4 DEF Serves
      <4>6. l = m
        <5>1. RevCMeshes[l].slug = d.slug
          BY <3>7, <4>2
        <5> QED
          BY <3>1, <4>5, <5>1, MeshNamesItself
      <4>7. B # <<>> /\ Resolves(d, B, LinkSet(host))
        BY <4>6 DEF ResolvedMeshes
      <4> QED
        BY <3>4, <3>5, <4>3, <4>7
    <3>8. ASSUME MeshDevices, host.revC, IsCabled(d)
          PROVE  \E n \in DOMAIN unitByDevice : n[1] = d.slug /\ Serves(unitByDevice[n], d)
      <4>1. B # <<>> /\ Resolves(d, B, LinkSet(host))
        BY <3>4, <3>5, <3>8
      <4>2. CanConsume(L, members(m))
        BY <3>1, <3>8, <4>1, MeshConsumes
      <4>3. m \in ResolvedMeshes(host, B, L)
        BY <4>1, <4>2 DEF ResolvedMeshes
      <4>4. LinkSet(host) # {}
        <5>1. PICK c, e \in Cells(d) : Adjacent(c, e)
          BY Rectangle
        <5>2. <<Index(d, c) - 1, Index(d, e) - 1>> \in Neighbours(d)
          BY <5>1, Rectangle
        <5> QED
          BY <4>1, <5>2, Zenon DEF Resolves
      <4>5. IsUnit(host, MeshDevice(d, members(m)))
        BY <3>8, <4>3, <4>4 DEF IsUnit, IsMesh
      <4>6. PICK k \in DOMAIN U : U[k] = MeshDevice(d, members(m))
        BY <3>1, <4>5, UnitsFacts, Zenon
      <4>7. U[k].name[1] = d.slug /\ U[k].bundles = members(m)
        BY <4>6 DEF MeshDevice
      <4>8. DOMAIN members(m) = DOMAIN d.slots
        BY <3>1, <4>3, ResolvedFacts
      <4>9. Len(members(m)) = Len(d.slots)
        <5>1. Len(d.slots) \in Nat /\ DOMAIN d.slots = 1..Len(d.slots)
          BY MeshShape
        <5> QED
          BY <4>8, <5>1
      <4>10. ASSUME NEW n \in DOMAIN d.slots
             PROVE  /\ members(m)[n].mmio.tray = d.slots[n].tray
                    /\ members(m)[n].mmio.loc + 1 = d.slots[n].loc + host.base
        BY <3>1, <4>3, MembersInPlace
      <4>11. Serves(members(m), d)
        BY <4>8, <4>9, <4>10, Zenon DEF Serves
      <4> QED
        BY <3>2, <3>3, <4>7, <4>11
    <3> QED
      BY <3>7, <3>8
  <2> QED
    BY <2>1, <2>2 DEF Derived
<1> QED
  BY <1>1, PublicationIsDerived, PTL

(* buildMeshDevices publishes no other mesh: whatever locations the host   *)
(* reports, a mesh device is a linked rectangle of a grouping's shape, and *)
(* where the host reports a first place it is that grouping's chips.       *)
THEOREM NoOtherMesh == Spec => []MeshesAreRectangles
<1>1. Derived => MeshesAreRectangles
  <2> SUFFICES ASSUME Derived, NEW n \in DOMAIN unitByDevice, n[1] # "tt", n[1] # "tt-tray"
               PROVE  \E m \in DOMAIN RevCMeshes :
                        /\ n[1] = RevCMeshes[m].slug
                        /\ IsRectangle(unitByDevice[n], RevCMeshes[m])
                        /\ ReportsBase(host) => Serves(unitByDevice[n], RevCMeshes[m])
    BY DEF MeshesAreRectangles
  <2>1. CASE Fresh
    BY <2>1, FreshPublished
  <2>2. CASE Applied
    <3> DEFINE B == BundlesOf(host)
               members(l) == ResolveMesh(RevCMeshes[l], B)
    <3>1. host \in Hosts
      BY <2>2 DEF Applied
    <3>2. PICK l \in ResolvedMeshes(host, B, LayoutOf(host)) :
            n[1] = RevCMeshes[l].slug /\ unitByDevice[n] = members(l)
      BY <2>2, PublishedMesh
    <3>3. l \in DOMAIN RevCMeshes /\ DOMAIN members(l) = DOMAIN RevCMeshes[l].slots
      BY <3>1, ResolvedFacts
    <3>4. IsRectangle(members(l), RevCMeshes[l])
      BY <3>1, MembersLinked
    <3>5. Len(members(l)) = Len(RevCMeshes[l].slots)
      BY <3>3, <3>4, MeshShape DEF IsRectangle
    <3>6. ReportsBase(host) => Serves(members(l), RevCMeshes[l])
      BY <3>1, <3>3, <3>5, MembersInPlace DEF Serves
    <3> QED
      BY <3>2, <3>3, <3>4, <3>6, Zenon
  <2> QED
    BY <2>1, <2>2 DEF Derived
<1> QED
  BY <1>1, PublicationIsDerived, PTL
=============================================================================
