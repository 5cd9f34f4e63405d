--------------------------- MODULE ProfileProofs ---------------------------
(***************************************************************************)
(* The units of a host and the slices that carry them, for every host.     *)
(* What is published depends on the last topology only, so the invariants  *)
(* follow from facts about the lists that applyTopology derives from it.   *)
(***************************************************************************)
EXTENDS Profile, ListsProofs

BundlesOf(h) == BundleHostASICs(h.asics)
TraysOfHost(h) == GroupBundlesByTray(BundlesOf(h))
LayoutOf(h) == CounterLayout(BundlesOf(h))
UnitsOf(h) == Units(h, BundlesOf(h), LayoutOf(h))

ASIC == [chip : Nat, tray : Nat, loc : Nat, mmio : BOOLEAN, board : STRING, node : Nat]

(* The bundles a host can have. *)
Anchored(asics) == {Bundle(asics, a) : a \in Mmio(asics)}

-----------------------------------------------------------------------------
(* Bundles.                                                                 *)

(* An MMIO chip of a host is told apart by its id, its node and its place. *)
LEMMA MmioFacts ==
  ASSUME NEW h \in Hosts
  PROVE  /\ Mmio(h.asics) \subseteq ASIC
         /\ IsFiniteSet(Mmio(h.asics))
         /\ \A a, b \in Mmio(h.asics) : a.chip = b.chip => a = b
         /\ \A a, b \in Mmio(h.asics) : a.node = b.node => a = b
         /\ \A a, b \in Mmio(h.asics) : a.tray = b.tray /\ a.loc = b.loc => a = b
<1>1. Mmio(h.asics) \in SUBSET h.asics /\ \A a \in Mmio(h.asics) : a.mmio
  BY DEF Mmio
<1>2. IsFiniteSet(Mmio(h.asics))
  BY <1>1, HostsAssumption, FS_Subset
<1>3. Mmio(h.asics) \subseteq ASIC
  BY <1>1, HostsAssumption DEF ASIC
<1> QED
  BY <1>1, <1>2, <1>3, HostsAssumption

(* The chip ids of a host are finitely many numbers. *)
LEMMA ChipIds ==
  ASSUME NEW h \in Hosts
  PROVE  LET ids == {a.chip : a \in Mmio(h.asics)}
         IN ids \in SUBSET Nat /\ IsFiniteSet(ids)
<1> DEFINE M == Mmio(h.asics)
           ids == {a.chip : a \in M}
           chip == [a \in M |-> a.chip]
<1>1. M \subseteq ASIC /\ IsFiniteSet(M)
  BY MmioFacts
<1>2. ids \in SUBSET Nat
  BY <1>1 DEF ASIC
<1> HIDE DEF M
<1>3. chip \in Surjection(M, ids)
  BY DEF Surjection
<1>4. IsFiniteSet(ids)
  BY <1>1, <1>3, FS_Surjection
<1> QED
  BY <1>2, <1>4 DEF M

(* bundleHostASICs lists one bundle for each MMIO chip, once. *)
LEMMA BundlesFacts ==
  ASSUME NEW h \in Hosts
  PROVE  /\ BundlesOf(h) \in Seq(Anchored(h.asics))
         /\ \A a \in Mmio(h.asics) : \E k \in DOMAIN BundlesOf(h) :
              BundlesOf(h)[k] = Bundle(h.asics, a)
         /\ \A k \in DOMAIN BundlesOf(h) :
              /\ BundlesOf(h)[k].mmio \in Mmio(h.asics)
              /\ BundlesOf(h)[k] = Bundle(h.asics, BundlesOf(h)[k].mmio)
         /\ \A k, l \in DOMAIN BundlesOf(h) :
              BundlesOf(h)[k].mmio.chip = BundlesOf(h)[l].mmio.chip => k = l
<1> DEFINE M == Mmio(h.asics)
           ids == {a.chip : a \in M}
           N == Cardinality(ids)
           order == Ascending(ids)
           anchors == ByChip(M)
           B == BundlesOf(h)
<1>1. ids \in SUBSET Nat /\ IsFiniteSet(ids)
  BY ChipIds
<1>2. M \subseteq ASIC /\ \A a, b \in M : a.chip = b.chip => a = b
  BY MmioFacts
<1>3. anchors = [k \in DOMAIN order |-> CHOOSE a \in M : a.chip = order[k]]
  BY DEF ByChip
<1> HIDE DEF M
<1>4. N \in Nat /\ order \in [1..N -> ids] /\ \A c \in ids : \E n \in 1..N : order[n] = c
  BY <1>1, AscendingLists, Zenon
<1>5. \A m, n \in 1..N : order[m] = order[n] => m = n
  BY <1>1, AscendingOnce
<1> HIDE DEF order, N
<1>6. DOMAIN anchors = 1..N /\ \A k \in 1..N : anchors[k] \in M /\ anchors[k].chip = order[k]
  <2>1. \A k \in 1..N : \E a \in M : a.chip = order[k]
    BY <1>4
  <2> HIDE DEF anchors, ids
  <2>2. DOMAIN anchors = 1..N /\ \A k \in 1..N : anchors[k] = CHOOSE a \in M : a.chip = order[k]
    BY <1>3, <1>4
  <2> QED
    BY <2>1, <2>2
<1>7. \A a \in M : \E k \in 1..N : anchors[k] = a
  <2> TAKE a \in M
  <2>1. PICK k \in 1..N : order[k] = a.chip
    BY <1>4
  <2> QED
    BY <2>1, <1>2, <1>6
<1>8. B = [k \in DOMAIN anchors |-> Bundle(h.asics, anchors[k])]
  BY DEF BundlesOf, BundleHostASICs, M
<1> HIDE DEF anchors, B
<1>9. DOMAIN B = 1..N /\ \A k \in 1..N : B[k] = Bundle(h.asics, anchors[k])
  BY <1>6, <1>8
<1>10. \A k \in 1..N : B[k].mmio = anchors[k]
  BY <1>9 DEF Bundle
<1>11. B \in Seq(Anchored(h.asics))
  BY <1>4, <1>6, <1>8 DEF Anchored, M
<1>12. \A a \in M : \E k \in DOMAIN B : B[k] = Bundle(h.asics, a)
  BY <1>7, <1>9
<1>13. \A k, l \in DOMAIN B : B[k].mmio.chip = B[l].mmio.chip => k = l
  BY <1>5, <1>6, <1>9, <1>10
<1> QED
  BY <1>6, <1>9, <1>10, <1>11, <1>12, <1>13 DEF B, M

-----------------------------------------------------------------------------
(* Trays.                                                                   *)

(* The tray ids of a host's bundles are finitely many numbers. *)
LEMMA TrayIds ==
  ASSUME NEW h \in Hosts
  PROVE  LET ids == {BundlesOf(h)[k].mmio.tray : k \in DOMAIN BundlesOf(h)}
         IN ids \in SUBSET Nat /\ IsFiniteSet(ids)
<1> DEFINE B == BundlesOf(h)
           D == DOMAIN B
           ids == {B[k].mmio.tray : k \in D}
           tray == [k \in D |-> B[k].mmio.tray]
<1>1. B \in Seq(Anchored(h.asics)) /\ \A k \in D : B[k].mmio \in ASIC
  BY BundlesFacts, MmioFacts
<1> HIDE DEF B
<1>2. D = 1..Len(B) /\ Len(B) \in Nat
  BY <1>1
<1>3. IsFiniteSet(D)
  BY <1>2, FS_Interval
<1>4. ids \in SUBSET Nat
  BY <1>1 DEF ASIC
<1> HIDE DEF D
<1>5. tray \in Surjection(D, ids)
  BY DEF Surjection
<1>6. IsFiniteSet(ids)
  BY <1>3, <1>5, FS_Surjection
<1> QED
  BY <1>4, <1>6 DEF B, D

(* groupBundlesByTray lists each tray that has an MMIO chip, once. *)
LEMMA TraysFacts ==
  ASSUME NEW h \in Hosts
  PROVE  LET B == BundlesOf(h)
             G == TraysOfHost(h)
         IN /\ G \in Seq([trayID : Nat, bundles : Seq(Anchored(h.asics))])
            /\ \A k \in DOMAIN B : \E t \in DOMAIN G : G[t].trayID = B[k].mmio.tray
            /\ \A s, t \in DOMAIN G : G[s].trayID = G[t].trayID => s = t
            /\ \A t \in DOMAIN G :
                 /\ \E k \in DOMAIN B : B[k].mmio.tray = G[t].trayID
                 /\ G[t].bundles
                     = Pick(B, {k \in DOMAIN B : B[k].mmio.tray = G[t].trayID})
<1> DEFINE B == BundlesOf(h)
           G == TraysOfHost(h)
           D == DOMAIN B
           ids == {B[k].mmio.tray : k \in D}
           N == Cardinality(ids)
           order == Ascending(ids)
           on(t) == {k \in DOMAIN B : B[k].mmio.tray = t}
<1>1. ids \in SUBSET Nat /\ IsFiniteSet(ids)
  BY TrayIds
<1>2. N \in Nat /\ order \in [1..N -> ids] /\ \A c \in ids : \E n \in 1..N : order[n] = c
  BY <1>1, AscendingLists, Zenon
<1>3. \A m, n \in 1..N : order[m] = order[n] => m = n
  BY <1>1, AscendingOnce
<1>4. G = [n \in DOMAIN order |-> [trayID |-> order[n], bundles |-> Pick(B, on(order[n]))]]
  BY DEF TraysOfHost, GroupBundlesByTray
<1>5. B \in Seq(Anchored(h.asics))
  BY BundlesFacts
<1> HIDE DEF B, G, order, N
<1>6. \A t : Pick(B, on(t)) \in Seq(Anchored(h.asics))
  <2> TAKE t
  <2>1. on(t) \in SUBSET DOMAIN B
    OBVIOUS
  <2> HIDE DEF on
  <2> QED
    BY <1>5, <2>1, PickFacts
<1> HIDE DEF on
<1>7. DOMAIN G = 1..N /\ \A n \in 1..N : G[n].trayID = order[n] /\ G[n].bundles = Pick(B, on(order[n]))
  BY <1>2, <1>4
<1>8. \A n \in 1..N : G[n] \in [trayID : Nat, bundles : Seq(Anchored(h.asics))]
  BY <1>1, <1>2, <1>4, <1>6
<1>9. G \in Seq([trayID : Nat, bundles : Seq(Anchored(h.asics))])
  BY <1>2, <1>4, <1>8
<1>10. \A k \in D : \E t \in DOMAIN G : G[t].trayID = B[k].mmio.tray
  <2> TAKE k \in D
  <2>1. PICK n \in 1..N : order[n] = B[k].mmio.tray
    BY <1>2, Zenon
  <2> QED
    BY <2>1, <1>7
<1>11. \A s, t \in DOMAIN G : G[s].trayID = G[t].trayID => s = t
  BY <1>3, <1>7
<1>12. \A t \in DOMAIN G : \E k \in D : B[k].mmio.tray = G[t].trayID
  BY <1>2, <1>7
<1>13. \A t \in DOMAIN G : G[t].bundles = Pick(B, on(G[t].trayID))
  BY <1>7
<1> QED
  BY <1>9, <1>10, <1>11, <1>12, <1>13 DEF B, G, on

(* The list of a tray holds the bundle of each MMIO chip on the tray, once. *)
LEMMA TrayMembers ==
  ASSUME NEW h \in Hosts, NEW t \in DOMAIN TraysOfHost(h)
  PROVE  LET b == TraysOfHost(h)[t].bundles
             id == TraysOfHost(h)[t].trayID
         IN /\ b \in Seq(Anchored(h.asics)) /\ 1 \in DOMAIN b
            /\ \A j \in DOMAIN b : /\ b[j].mmio \in Mmio(h.asics)
                                   /\ b[j].mmio.tray = id
                                   /\ b[j] = Bundle(h.asics, b[j].mmio)
            /\ \A a \in Mmio(h.asics) :
                 a.tray = id => \E j \in DOMAIN b : b[j] = Bundle(h.asics, a)
            /\ \A i, j \in DOMAIN b : b[i].mmio.chip = b[j].mmio.chip => i = j
<1> DEFINE B == BundlesOf(h)
           id == TraysOfHost(h)[t].trayID
           b == TraysOfHost(h)[t].bundles
           J == {k \in DOMAIN B : B[k].mmio.tray = id}
<1>1. J # {} /\ b = Pick(B, J)
  BY TraysFacts, Zenon
<1>2. B \in Seq(Anchored(h.asics)) /\ J \in SUBSET DOMAIN B
  BY BundlesFacts
<1>3. \A k \in J : /\ B[k].mmio \in Mmio(h.asics)
                   /\ B[k].mmio.tray = id
                   /\ B[k] = Bundle(h.asics, B[k].mmio)
  BY BundlesFacts
<1>4. \A k, l \in J : B[k].mmio.chip = B[l].mmio.chip => k = l
  BY BundlesFacts
<1>5. ASSUME NEW a \in Mmio(h.asics), a.tray = id
      PROVE  \E k \in J : B[k] = Bundle(h.asics, a)
  <2>1. PICK k \in DOMAIN B : B[k] = Bundle(h.asics, a)
    BY BundlesFacts
  <2>2. B[k].mmio = a
    BY <2>1 DEF Bundle
  <2> QED
    BY <2>1, <2>2, <1>5
<1> HIDE DEF B, J, b, id
<1>6. b \in Seq(Anchored(h.asics))
  BY <1>1, <1>2, PickFacts
<1>7. PICK f \in [DOMAIN b -> J] :
        /\ \A k \in DOMAIN b : b[k] = B[f[k]]
        /\ \A i \in J : \E k \in DOMAIN b : f[k] = i
        /\ \A k, l \in DOMAIN b : f[k] = f[l] => k = l
  BY <1>1, <1>2, PickFacts
<1>8. b # <<>>
  <2>1. DOMAIN b # {}
    BY <1>1, <1>7
  <2> QED
    BY <2>1
<1>9. 1 \in DOMAIN b
  BY <1>6, <1>8, FirstElement
<1>10. \A j \in DOMAIN b : /\ b[j].mmio \in Mmio(h.asics)
                           /\ b[j].mmio.tray = id
                           /\ b[j] = Bundle(h.asics, b[j].mmio)
  BY <1>3, <1>7
<1>11. \A a \in Mmio(h.asics) : a.tray = id => \E j \in DOMAIN b : b[j] = Bundle(h.asics, a)
  BY <1>5, <1>7
<1>12. \A i, j \in DOMAIN b : b[i].mmio.chip = b[j].mmio.chip => i = j
  BY <1>4, <1>7
<1> QED
  BY <1>6, <1>9, <1>10, <1>11, <1>12 DEF b, id

(* The trays of the list are those with an MMIO chip. *)
LEMMA TrayOfChip ==
  ASSUME NEW h \in Hosts, NEW a \in Mmio(h.asics)
  PROVE  \E t \in DOMAIN TraysOfHost(h) : TraysOfHost(h)[t].trayID = a.tray
<1>1. PICK k \in DOMAIN BundlesOf(h) : BundlesOf(h)[k] = Bundle(h.asics, a)
  BY BundlesFacts, Zenon
<1>2. BundlesOf(h)[k].mmio.tray = a.tray
  BY <1>1 DEF Bundle
<1>3. PICK t \in DOMAIN TraysOfHost(h) :
        TraysOfHost(h)[t].trayID = BundlesOf(h)[k].mmio.tray
  BY TraysFacts, Zenon
<1> QED
  BY <1>2, <1>3

-----------------------------------------------------------------------------
(* Units: chips, the trays that may consume their counters, the meshes that *)
(* resolve.                                                                 *)

Prefixes == {"tt", "tt-tray"} \cup {RevCMeshes[m].slug : m \in DOMAIN RevCMeshes}

UnitSet(h) == [name : Prefixes \X Nat, bundles : Seq(Anchored(h.asics)) \ {<<>>}]

IsChip(h, u) == \E k \in DOMAIN BundlesOf(h) : u = ChipDevice(BundlesOf(h)[k])

IsTray(h, u) ==
  /\ TrayDevices
  /\ \E t \in DOMAIN TraysOfHost(h) :
       /\ CanConsume(LayoutOf(h), TraysOfHost(h)[t].bundles)
       /\ u = TrayDevice(TraysOfHost(h)[t])

IsMesh(h, u) ==
  /\ MeshDevices /\ h.revC /\ LinkSet(h) # {}
  /\ \E m \in ResolvedMeshes(h, BundlesOf(h), LayoutOf(h)) :
       u = MeshDevice(RevCMeshes[m], ResolveMesh(RevCMeshes[m], BundlesOf(h)))

NamesDiffer(s) == \A i, j \in DOMAIN s : s[i].name = s[j].name => i = j

(* Lists of units whose names differ can be joined. *)
LEMMA ConcatNames ==
  ASSUME NEW T, NEW s \in Seq(T), NEW t \in Seq(T),
         NamesDiffer(s), NamesDiffer(t),
         \A i \in DOMAIN s, j \in DOMAIN t : s[i].name # t[j].name
  PROVE  NamesDiffer(s \o t)
<1> SUFFICES ASSUME NEW i \in DOMAIN (s \o t), NEW j \in DOMAIN (s \o t),
                    (s \o t)[i].name = (s \o t)[j].name
             PROVE  i = j
  BY DEF NamesDiffer
<1> DEFINE r == s \o t
<1>1. /\ \A k \in DOMAIN s : r[k] = s[k]
      /\ \A k \in DOMAIN t : r[Len(s) + k] = t[k]
      /\ \A k \in DOMAIN r : k \in DOMAIN s \/ \E l \in DOMAIN t : k = Len(s) + l
  BY ConcatElements
<1> HIDE DEF r
<1>2. i \in DOMAIN r /\ j \in DOMAIN r /\ r[i].name = r[j].name
  BY DEF r
<1>3. CASE i \in DOMAIN s /\ j \in DOMAIN s
  BY <1>1, <1>2, <1>3 DEF NamesDiffer
<1>4. CASE i \in DOMAIN s /\ j \notin DOMAIN s
  BY <1>1, <1>2, <1>4
<1>5. CASE i \notin DOMAIN s /\ j \in DOMAIN s
  BY <1>1, <1>2, <1>5
<1>6. CASE i \notin DOMAIN s /\ j \notin DOMAIN s
  <2>1. PICK k \in DOMAIN t : i = Len(s) + k
    BY <1>1, <1>2, <1>6
  <2>2. PICK l \in DOMAIN t : j = Len(s) + l
    BY <1>1, <1>2, <1>6
  <2>3. t[k].name = t[l].name
    BY <1>1, <1>2, <2>1, <2>2
  <2> QED
    BY <2>1, <2>2, <2>3 DEF NamesDiffer
<1> QED
  BY <1>3, <1>4, <1>5, <1>6

ChipUnits(h) == [k \in DOMAIN BundlesOf(h) |-> ChipDevice(BundlesOf(h)[k])]

(* The chip units of a host: well typed, with names of their own. *)
LEMMA ChipUnitsFacts ==
  ASSUME NEW h \in Hosts
  PROVE  /\ ChipUnits(h) \in Seq(UnitSet(h))
         /\ NamesDiffer(ChipUnits(h))
         /\ \A k \in DOMAIN ChipUnits(h) : ChipUnits(h)[k].name[1] = "tt"
<1> DEFINE B == BundlesOf(h)
           U == ChipUnits(h)
<1>1. B \in Seq(Anchored(h.asics)) /\ \A k \in DOMAIN B : B[k].mmio \in ASIC
  BY BundlesFacts, MmioFacts
<1>2. \A k, l \in DOMAIN B : B[k].mmio.chip = B[l].mmio.chip => k = l
  BY BundlesFacts
<1>3. U = [k \in DOMAIN B |-> [name |-> <<"tt", B[k].mmio.chip>>, bundles |-> <<B[k]>>]]
  BY DEF ChipUnits, ChipDevice
<1> HIDE DEF B, U
<1>4. \A k \in DOMAIN B : B[k] \in Anchored(h.asics) /\ B[k].mmio.chip \in Nat
  BY <1>1 DEF ASIC
<1>5. \A b \in Anchored(h.asics) : <<b>> \in Seq(Anchored(h.asics)) \ {<<>>}
  OBVIOUS
<1>6. \A k \in DOMAIN B : U[k] \in UnitSet(h)
  <2> TAKE k \in DOMAIN B
  <2>1. U[k] = [name |-> <<"tt", B[k].mmio.chip>>, bundles |-> <<B[k]>>]
    BY <1>3
  <2>2. <<"tt", B[k].mmio.chip>> \in Prefixes \X Nat
    BY <1>4 DEF Prefixes
  <2>3. <<B[k]>> \in Seq(Anchored(h.asics)) \ {<<>>}
    BY <1>4, <1>5
  <2> QED
    BY <2>1, <2>2, <2>3 DEF UnitSet
<1>7. U \in Seq(UnitSet(h))
  BY <1>1, <1>3, <1>6
<1>8. NamesDiffer(U)
  BY <1>2, <1>3 DEF NamesDiffer
<1>9. \A k \in DOMAIN U : U[k].name[1] = "tt"
  BY <1>3
<1> QED
  BY <1>7, <1>8, <1>9 DEF U

TrayUnits(h) ==
  LET trays == TraysOfHost(h)
      held == Pick(trays, {k \in DOMAIN trays : CanConsume(LayoutOf(h), trays[k].bundles)})
  IN IF TrayDevices THEN [k \in DOMAIN held |-> TrayDevice(held[k])] ELSE <<>>

(* The tray units: one for each tray that can declare its exclusion. *)
LEMMA TrayUnitsFacts ==
  ASSUME NEW h \in Hosts
  PROVE  /\ TrayUnits(h) \in Seq(UnitSet(h))
         /\ NamesDiffer(TrayUnits(h))
         /\ \A k \in DOMAIN TrayUnits(h) :
              TrayUnits(h)[k].name[1] = "tt-tray" /\ IsTray(h, TrayUnits(h)[k])
         /\ \A u : IsTray(h, u) => \E k \in DOMAIN TrayUnits(h) : TrayUnits(h)[k] = u
<1> DEFINE G == TraysOfHost(h)
           I == {k \in DOMAIN G : CanConsume(LayoutOf(h), G[k].bundles)}
           held == Pick(G, I)
           U == TrayUnits(h)
           T == [trayID : Nat, bundles : Seq(Anchored(h.asics))]
<1>1. CASE ~TrayDevices
  <2>1. U = <<>> /\ \A u : ~IsTray(h, u)
    BY <1>1 DEF TrayUnits, IsTray
  <2> HIDE DEF U
  <2>2. U \in Seq(UnitSet(h)) /\ DOMAIN U = {}
    BY <2>1
  <2> QED
    BY <2>1, <2>2 DEF NamesDiffer, U
<1>2. CASE TrayDevices
  <2>1. G \in Seq(T) /\ \A s, t \in DOMAIN G : G[s].trayID = G[t].trayID => s = t
    BY TraysFacts
  <2>2. \A t \in DOMAIN G : G[t].bundles # <<>>
    <3>1. \A t \in DOMAIN G : DOMAIN G[t].bundles # {}
      BY TrayMembers
    <3> HIDE DEF G
    <3> QED
      BY <3>1
  <2>3. U = [k \in DOMAIN held |-> TrayDevice(held[k])]
    BY <1>2 DEF TrayUnits
  <2>4. I \in SUBSET DOMAIN G
    OBVIOUS
  <2>5. \A u : IsTray(h, u) <=> \E t \in I : u = TrayDevice(G[t])
    BY <1>2 DEF IsTray
  <2> HIDE DEF I, G, U, T
  <2>6. held \in Seq(T)
    BY <2>1, <2>4, PickFacts
  <2>7. PICK f \in [DOMAIN held -> I] :
          /\ \A k \in DOMAIN held : held[k] = G[f[k]]
          /\ \A i \in I : \E k \in DOMAIN held : f[k] = i
          /\ \A k, l \in DOMAIN held : f[k] = f[l] => k = l
    BY <2>1, <2>4, PickFacts
  <2> HIDE DEF held
  <2>8. DOMAIN U = DOMAIN held /\ \A k \in DOMAIN U : U[k] = TrayDevice(G[f[k]]) /\ f[k] \in I
    BY <2>3, <2>7
  <2>9. \A t \in DOMAIN G : TrayDevice(G[t]) \in UnitSet(h)
    <3> TAKE t \in DOMAIN G
    <3>1. G[t] \in T
      BY <2>1
    <3>2. G[t].trayID \in Nat /\ G[t].bundles \in Seq(Anchored(h.asics)) \ {<<>>}
      BY <3>1, <2>2 DEF T
    <3>3. <<"tt-tray", G[t].trayID>> \in Prefixes \X Nat
      BY <3>2 DEF Prefixes
    <3> QED
      BY <3>2, <3>3 DEF TrayDevice, UnitSet
  <2>10. \A k \in DOMAIN U : U[k] \in UnitSet(h)
    BY <2>8, <2>9, <2>4
  <2>11. U \in Seq(UnitSet(h))
    BY <2>3, <2>6, <2>10
  <2>12. NamesDiffer(U)
    <3> SUFFICES ASSUME NEW k \in DOMAIN U, NEW l \in DOMAIN U, U[k].name = U[l].name
                 PROVE  k = l
      BY DEF NamesDiffer
    <3>1. G[f[k]].trayID = G[f[l]].trayID
      BY <2>8 DEF TrayDevice
    <3> QED
      BY <3>1, <2>1, <2>4, <2>7, <2>8
  <2>13. \A k \in DOMAIN U : U[k].name[1] = "tt-tray" /\ IsTray(h, U[k])
    BY <2>5, <2>8 DEF TrayDevice
  <2>14. \A u : IsTray(h, u) => \E k \in DOMAIN U : U[k] = u
    BY <2>5, <2>7, <2>8
  <2> QED
    BY <2>11, <2>12, <2>13, <2>14 DEF U
<1> QED
  BY <1>1, <1>2, OptionsAssumption

(* The lowest location of a bundle, which anchors the descriptor's 1. *)
LEMMA LocationBaseFacts ==
  ASSUME NEW h \in Hosts, BundlesOf(h) # <<>>
  PROVE  /\ LocationBase(BundlesOf(h)) \in Nat
         /\ \E k \in DOMAIN BundlesOf(h) :
              BundlesOf(h)[k].mmio.loc = LocationBase(BundlesOf(h))
         /\ \A k \in DOMAIN BundlesOf(h) :
              LocationBase(BundlesOf(h)) <= BundlesOf(h)[k].mmio.loc
<1> DEFINE B == BundlesOf(h)
           locs == {B[k].mmio.loc : k \in DOMAIN B}
<1>1. B \in Seq(Anchored(h.asics)) /\ \A k \in DOMAIN B : B[k].mmio \in ASIC
  BY BundlesFacts, MmioFacts
<1> HIDE DEF B
<1>2. locs \in SUBSET Nat
  BY <1>1 DEF ASIC
<1>3. 1 \in DOMAIN B
  BY <1>1, FirstElement DEF B
<1>4. \E l \in locs : \A m \in locs : l <= m
  <2>1. locs # {}
    BY <1>3, Zenon
  <2> HIDE DEF locs
  <2> QED
    BY <1>2, <2>1, LeastNumber
<1>5. LocationBase(B) = CHOOSE l \in locs : \A m \in locs : l <= m
  BY DEF LocationBase
<1> HIDE DEF locs
<1>6. LocationBase(B) \in locs /\ \A m \in locs : LocationBase(B) <= m
  BY <1>4, <1>5
<1> QED
  BY <1>2, <1>6 DEF B, locs

(* What a grouping is made of. *)
LEMMA MeshType ==
  ASSUME NEW m \in DOMAIN RevCMeshes
  PROVE  /\ RevCMeshes[m].slug \in Prefixes
         /\ RevCMeshes[m].slug # "tt" /\ RevCMeshes[m].slug # "tt-tray"
         /\ RevCMeshes[m].slots \in Seq([tray : Nat, loc : Nat \ {0}])
         /\ RevCMeshes[m].slots # <<>>
<1> DEFINE T == [slug : STRING \ {"tt", "tt-tray"}, rows : Nat, cols : Nat,
                 slots : Seq([tray : Nat, loc : Nat \ {0}])]
<1>1. RevCMeshes \in Seq(T)
  BY MeshesAssumption
<1>2. Len(RevCMeshes[m].slots) > 1
  BY MeshesAssumption, Zenon
<1> HIDE DEF T
<1>3. RevCMeshes[m] \in T
  BY <1>1
<1>4. RevCMeshes[m].slots \in Seq([tray : Nat, loc : Nat \ {0}])
  BY <1>3 DEF T
<1>5. RevCMeshes[m].slots # <<>>
  BY <1>2, <1>4
<1>6. RevCMeshes[m].slug \in STRING \ {"tt", "tt-tray"}
  BY <1>3 DEF T
<1> QED
  BY <1>4, <1>5, <1>6 DEF Prefixes

(* A mesh that resolves takes, for each slot, the bundle in the slot's place. *)
LEMMA ResolvedFacts ==
  ASSUME NEW h \in Hosts, NEW m \in ResolvedMeshes(h, BundlesOf(h), LayoutOf(h))
  PROVE  LET B == BundlesOf(h)
             slots == RevCMeshes[m].slots
             members == ResolveMesh(RevCMeshes[m], B)
         IN /\ m \in DOMAIN RevCMeshes
            /\ B # <<>>
            /\ DOMAIN members = DOMAIN slots
            /\ members \in Seq(Anchored(h.asics)) \ {<<>>}
            /\ \A n \in DOMAIN slots : \E k \in DOMAIN B :
                 /\ members[n] = B[k]
                 /\ B[k].mmio.tray = slots[n].tray
                 /\ B[k].mmio.loc = slots[n].loc - 1 + LocationBase(B)
<1> DEFINE B == BundlesOf(h)
           slots == RevCMeshes[m].slots
           members == ResolveMesh(RevCMeshes[m], B)
<1>1. /\ m \in DOMAIN RevCMeshes
      /\ B # <<>>
      /\ Resolves(RevCMeshes[m], B, LinkSet(h))
  BY DEF ResolvedMeshes
<1>2. \A n \in DOMAIN slots : Lookup(B, slots[n]) # {}
  BY <1>1 DEF Resolves
<1>3. members = [n \in DOMAIN slots |-> B[CHOOSE k \in Lookup(B, slots[n]) : TRUE]]
  BY DEF ResolveMesh
<1>4. slots \in Seq([tray : Nat, loc : Nat \ {0}]) /\ slots # <<>>
  BY <1>1, MeshType
<1>5. B \in Seq(Anchored(h.asics))
  BY BundlesFacts
<1> HIDE DEF B, slots, members
<1>6. ASSUME NEW n \in DOMAIN slots
      PROVE  \E k \in DOMAIN B : /\ members[n] = B[k]
                                 /\ B[k].mmio.tray = slots[n].tray
                                 /\ B[k].mmio.loc = slots[n].loc - 1 + LocationBase(B)
  <2> DEFINE k == CHOOSE k \in Lookup(B, slots[n]) : TRUE
  <2>1. k \in Lookup(B, slots[n])
    BY <1>2
  <2>2. members[n] = B[k]
    BY <1>3
  <2> HIDE DEF k
  <2> QED
    BY <2>1, <2>2 DEF Lookup
<1>7. DOMAIN members = DOMAIN slots
  BY <1>3
<1>8. \A n \in DOMAIN slots : members[n] \in Anchored(h.asics)
  BY <1>5, <1>6
<1>9. members \in Seq(Anchored(h.asics))
  <2>1. DOMAIN slots = 1..Len(slots) /\ Len(slots) \in Nat
    BY <1>4
  <2> QED
    BY <1>3, <1>8, <2>1
<1>10. members # <<>>
  BY <1>4, <1>7
<1> QED
  BY <1>1, <1>6, <1>7, <1>9, <1>10 DEF B, slots, members

MeshUnits(h) == IF MeshDevices THEN BuildMeshDevices(h, BundlesOf(h), LayoutOf(h)) ELSE <<>>

(* The mesh units: one for each grouping that resolves. *)
LEMMA MeshUnitsFacts ==
  ASSUME NEW h \in Hosts
  PROVE  /\ MeshUnits(h) \in Seq(UnitSet(h))
         /\ NamesDiffer(MeshUnits(h))
         /\ \A k \in DOMAIN MeshUnits(h) :
              /\ MeshUnits(h)[k].name[1] # "tt"
              /\ MeshUnits(h)[k].name[1] # "tt-tray"
              /\ IsMesh(h, MeshUnits(h)[k])
         /\ \A u : IsMesh(h, u) => \E k \in DOMAIN MeshUnits(h) : MeshUnits(h)[k] = u
<1> DEFINE B == BundlesOf(h)
           R == RevCMeshes
           I == ResolvedMeshes(h, B, LayoutOf(h))
           picked == Pick(R, I)
           device(m) == MeshDevice(R[m], ResolveMesh(R[m], B))
           U == MeshUnits(h)
           T == [slug : STRING \ {"tt", "tt-tray"}, rows : Nat, cols : Nat,
                 slots : Seq([tray : Nat, loc : Nat \ {0}])]
<1>1. CASE ~(MeshDevices /\ h.revC /\ LinkSet(h) # {})
  <2>1. U = <<>> /\ \A u : ~IsMesh(h, u)
    BY <1>1 DEF MeshUnits, BuildMeshDevices, IsMesh
  <2> HIDE DEF U
  <2>2. U \in Seq(UnitSet(h)) /\ DOMAIN U = {}
    BY <2>1
  <2> QED
    BY <2>1, <2>2 DEF NamesDiffer, U
<1>2. CASE MeshDevices /\ h.revC /\ LinkSet(h) # {}
  <2>1. R \in Seq(T) /\ I \in SUBSET DOMAIN R
    BY MeshesAssumption DEF ResolvedMeshes
  <2>2. U = [k \in DOMAIN picked |-> MeshDevice(picked[k], ResolveMesh(picked[k], B))]
    BY <1>2 DEF MeshUnits, BuildMeshDevices
  <2>3. \A u : IsMesh(h, u) <=> \E m \in I : u = device(m)
    BY <1>2 DEF IsMesh
  <2>4. \A m \in I : device(m).name = <<R[m].slug, ResolveMesh(R[m], B)[1].mmio.chip>>
    BY DEF MeshDevice
  <2>5. \A m \in I : device(m) \in UnitSet(h)
    <3> TAKE m \in I
    <3> DEFINE members == ResolveMesh(R[m], B)
    <3>1. m \in DOMAIN R /\ members \in Seq(Anchored(h.asics)) \ {<<>>}
      BY ResolvedFacts
    <3>2. device(m) = [name |-> <<R[m].slug, members[1].mmio.chip>>, bundles |-> members]
      BY DEF MeshDevice
    <3> HIDE DEF members, device, I
    <3>3. R[m].slug \in Prefixes
      BY <3>1, MeshType
    <3>4. members[1] \in Anchored(h.asics)
      BY <3>1, FirstElement
    <3>5. PICK a \in Mmio(h.asics) : members[1] = Bundle(h.asics, a)
      BY <3>4 DEF Anchored
    <3>6. members[1].mmio = a
      BY <3>5 DEF Bundle
    <3>7. members[1].mmio.chip \in Nat
      BY <3>6, MmioFacts DEF ASIC
    <3>8. <<R[m].slug, members[1].mmio.chip>> \in Prefixes \X Nat
      BY <3>3, <3>7
    <3> QED
      BY <3>1, <3>2, <3>8 DEF UnitSet
  <2>6. ASSUME NEW l \in I, NEW m \in I, device(l).name = device(m).name
        PROVE  l = m
    <3> DEFINE x == ResolveMesh(R[l], B)[1]
               y == ResolveMesh(R[m], B)[1]
    <3>1. R[l].slug = R[m].slug /\ x.mmio.chip = y.mmio.chip
      BY <2>4, <2>6
    <3>2. /\ l \in DOMAIN R /\ m \in DOMAIN R
          /\ R[l].slots \in Seq([tray : Nat, loc : Nat \ {0}]) /\ R[l].slots # <<>>
          /\ R[m].slots \in Seq([tray : Nat, loc : Nat \ {0}]) /\ R[m].slots # <<>>
      BY <2>1, MeshType
    <3>3. /\ 1 \in DOMAIN R[l].slots /\ R[l].slots[1] \in [tray : Nat, loc : Nat \ {0}]
          /\ 1 \in DOMAIN R[m].slots /\ R[m].slots[1] \in [tray : Nat, loc : Nat \ {0}]
      BY <3>2, FirstElement, Zenon
    <3>4. PICK j \in DOMAIN B : /\ x = B[j]
                                /\ B[j].mmio.tray = R[l].slots[1].tray
                                /\ B[j].mmio.loc = R[l].slots[1].loc - 1 + LocationBase(B)
      BY <3>3, ResolvedFacts
    <3>5. PICK k \in DOMAIN B : /\ y = B[k]
                                /\ B[k].mmio.tray = R[m].slots[1].tray
                                /\ B[k].mmio.loc = R[m].slots[1].loc - 1 + LocationBase(B)
      BY <3>3, ResolvedFacts
    <3>6. j = k
      BY <3>1, <3>4, <3>5, BundlesFacts
    <3>7. LocationBase(B) \in Nat
      BY ResolvedFacts, LocationBaseFacts
    <3> HIDE DEF x, y, B, R, I, device
    <3>8. R[l].slots[1].loc = R[m].slots[1].loc /\ R[l].slots[1].tray = R[m].slots[1].tray
      BY <3>3, <3>4, <3>5, <3>6, <3>7
    <3>9. R[l].slots[1] = R[m].slots[1]
      BY <3>3, <3>8
    <3> QED
      BY <3>1, <3>2, <3>9, MeshesAssumption DEF R
  <2>7. \A m \in I : device(m).name[1] # "tt" /\ device(m).name[1] # "tt-tray"
    <3> TAKE m \in I
    <3>1. device(m).name[1] = R[m].slug
      BY <2>4
    <3>2. R[m].slug # "tt" /\ R[m].slug # "tt-tray"
      BY <2>1, MeshType
    <3> HIDE DEF device, R
    <3> QED
      BY <3>1, <3>2
  <2> HIDE DEF I, R, U, T, device, B
  <2>8. PICK f \in [DOMAIN picked -> I] :
          /\ \A k \in DOMAIN picked : picked[k] = R[f[k]]
          /\ \A i \in I : \E k \in DOMAIN picked : f[k] = i
          /\ \A k, l \in DOMAIN picked : f[k] = f[l] => k = l
    BY <2>1, PickFacts
  <2>9. picked \in Seq(T)
    BY <2>1, PickFacts
  <2> HIDE DEF picked
  <2>10. DOMAIN U = DOMAIN picked /\ \A k \in DOMAIN U : U[k] = device(f[k]) /\ f[k] \in I
    BY <2>2, <2>8 DEF device
  <2>11. U \in Seq(UnitSet(h))
    <3>1. \A k \in DOMAIN U : U[k] \in UnitSet(h)
      BY <2>5, <2>10
    <3> QED
      BY <2>2, <2>9, <2>10, <3>1
  <2>12. NamesDiffer(U)
    BY <2>6, <2>8, <2>10 DEF NamesDiffer
  <2>13. \A k \in DOMAIN U : /\ U[k].name[1] # "tt" /\ U[k].name[1] # "tt-tray"
                             /\ IsMesh(h, U[k])
    BY <2>3, <2>7, <2>10
  <2>14. \A u : IsMesh(h, u) => \E k \in DOMAIN U : U[k] = u
    BY <2>3, <2>8, <2>10
  <2> QED
    BY <2>11, <2>12, <2>13, <2>14 DEF U
<1> QED
  BY <1>1, <1>2

IsUnit(h, u) == IsChip(h, u) \/ IsTray(h, u) \/ IsMesh(h, u)

(* The units of a host are its chips, trays and meshes; their names differ. *)
LEMMA UnitsFacts ==
  ASSUME NEW h \in Hosts
  PROVE  /\ UnitsOf(h) \in Seq(UnitSet(h))
         /\ NamesDiffer(UnitsOf(h))
         /\ \A k \in DOMAIN UnitsOf(h) :
              /\ IsUnit(h, UnitsOf(h)[k])
              /\ UnitsOf(h)[k].name[1] = "tt" <=> IsChip(h, UnitsOf(h)[k])
              /\ UnitsOf(h)[k].name[1] = "tt-tray" <=> IsTray(h, UnitsOf(h)[k])
         /\ \A u : IsUnit(h, u) => \E k \in DOMAIN UnitsOf(h) : UnitsOf(h)[k] = u
<1> DEFINE C == ChipUnits(h)
           T == TrayUnits(h)
           M == MeshUnits(h)
           U == UnitsOf(h)
           S == UnitSet(h)
<1>1. U = (C \o T) \o M
  BY DEF UnitsOf, Units, ChipUnits, TrayUnits, MeshUnits, TraysOfHost
<1>2. C \in Seq(S) /\ NamesDiffer(C) /\ \A k \in DOMAIN C : C[k].name[1] = "tt"
  BY ChipUnitsFacts
<1>3. \A u : IsChip(h, u) <=> \E k \in DOMAIN C : C[k] = u
  BY DEF IsChip, ChipUnits
<1>4. /\ T \in Seq(S) /\ NamesDiffer(T) /\ \A k \in DOMAIN T : T[k].name[1] = "tt-tray"
      /\ \A u : IsTray(h, u) <=> \E k \in DOMAIN T : T[k] = u
  BY TrayUnitsFacts
<1>5. /\ M \in Seq(S) /\ NamesDiffer(M)
      /\ \A k \in DOMAIN M : M[k].name[1] # "tt" /\ M[k].name[1] # "tt-tray"
      /\ \A u : IsMesh(h, u) <=> \E k \in DOMAIN M : M[k] = u
  BY MeshUnitsFacts
<1> HIDE DEF C, T, M, S, U
<1> DEFINE CT == C \o T
<1>6. CT \in Seq(S) /\ NamesDiffer(CT)
  <2>1. \A i \in DOMAIN C, j \in DOMAIN T : C[i].name # T[j].name
    BY <1>2, <1>4
  <2> QED
    BY <1>2, <1>4, <2>1, ConcatElements, ConcatNames
<1>7. /\ \A i \in DOMAIN C : i \in DOMAIN CT /\ CT[i] = C[i]
      /\ \A j \in DOMAIN T : Len(C) + j \in DOMAIN CT /\ CT[Len(C) + j] = T[j]
      /\ \A k \in DOMAIN CT : k \in DOMAIN C \/ \E j \in DOMAIN T : k = Len(C) + j
  BY <1>2, <1>4, ConcatElements
<1> HIDE DEF CT
<1>8. \A k \in DOMAIN CT : CT[k].name[1] \in {"tt", "tt-tray"}
  BY <1>2, <1>4, <1>7
<1>9. U \in Seq(S) /\ NamesDiffer(U)
  <2>1. \A i \in DOMAIN CT, j \in DOMAIN M : CT[i].name # M[j].name
    BY <1>5, <1>8
  <2> QED
    BY <1>1, <1>5, <1>6, <2>1, ConcatElements, ConcatNames, Zenon DEF CT
<1>10. /\ \A i \in DOMAIN CT : i \in DOMAIN U /\ U[i] = CT[i]
       /\ \A j \in DOMAIN M : Len(CT) + j \in DOMAIN U /\ U[Len(CT) + j] = M[j]
       /\ \A k \in DOMAIN U : k \in DOMAIN CT \/ \E j \in DOMAIN M : k = Len(CT) + j
  <2>1. U = CT \o M
    BY <1>1 DEF CT
  <2> QED
    BY <1>5, <1>6, <2>1, ConcatElements
<1>11. ASSUME NEW k \in DOMAIN U
       PROVE  \/ \E i \in DOMAIN C : U[k] = C[i]
              \/ \E i \in DOMAIN T : U[k] = T[i]
              \/ \E i \in DOMAIN M : U[k] = M[i]
  <2>1. CASE k \in DOMAIN CT
    BY <2>1, <1>7, <1>10
  <2>2. CASE k \notin DOMAIN CT
    BY <2>2, <1>10
  <2> QED
    BY <2>1, <2>2
<1>12. ASSUME NEW k \in DOMAIN U
       PROVE  /\ IsUnit(h, U[k])
              /\ U[k].name[1] = "tt" <=> IsChip(h, U[k])
              /\ U[k].name[1] = "tt-tray" <=> IsTray(h, U[k])
  <2>1. /\ IsChip(h, U[k]) => U[k].name[1] = "tt"
        /\ IsTray(h, U[k]) => U[k].name[1] = "tt-tray"
        /\ IsMesh(h, U[k]) => U[k].name[1] # "tt" /\ U[k].name[1] # "tt-tray"
    BY <1>2, <1>3, <1>4, <1>5
  <2>2. IsUnit(h, U[k])
    BY <1>3, <1>4, <1>5, <1>11 DEF IsUnit
  <2> QED
    BY <2>1, <2>2 DEF IsUnit
<1>13. ASSUME NEW u, IsUnit(h, u)
       PROVE  \E k \in DOMAIN U : U[k] = u
  <2>1. CASE IsChip(h, u)
    BY <2>1, <1>3, <1>7, <1>10
  <2>2. CASE IsTray(h, u)
    <3>1. PICK j \in DOMAIN T : T[j] = u
      BY <2>2, <1>4
    <3>2. Len(C) + j \in DOMAIN CT /\ CT[Len(C) + j] = u
      BY <3>1, <1>7
    <3> QED
      BY <3>2, <1>10
  <2>3. CASE IsMesh(h, u)
    BY <2>3, <1>5, <1>10
  <2> QED
    BY <1>13, <2>1, <2>2, <2>3 DEF IsUnit
<1> QED
  BY <1>9, <1>12, <1>13 DEF U, S

(* A unit is made of bundles of the host, each anchored on an MMIO chip. *)
LEMMA UnitBundles ==
  ASSUME NEW h \in Hosts, NEW k \in DOMAIN UnitsOf(h)
  PROVE  /\ UnitsOf(h)[k].bundles \in Seq(Anchored(h.asics))
         /\ 1 \in DOMAIN UnitsOf(h)[k].bundles
         /\ \A j \in DOMAIN UnitsOf(h)[k].bundles :
              /\ UnitsOf(h)[k].bundles[j].mmio \in Mmio(h.asics)
              /\ UnitsOf(h)[k].bundles[j]
                  = Bundle(h.asics, UnitsOf(h)[k].bundles[j].mmio)
<1> DEFINE b == UnitsOf(h)[k].bundles
<1>1. UnitsOf(h)[k] \in UnitSet(h)
  BY UnitsFacts
<1>2. b \in Seq(Anchored(h.asics)) /\ b # <<>>
  BY <1>1 DEF UnitSet
<1> HIDE DEF b
<1>3. 1 \in DOMAIN b
  BY <1>2, FirstElement
<1>4. ASSUME NEW j \in DOMAIN b
      PROVE  b[j].mmio \in Mmio(h.asics) /\ b[j] = Bundle(h.asics, b[j].mmio)
  <2>1. PICK a \in Mmio(h.asics) : b[j] = Bundle(h.asics, a)
    BY <1>2 DEF Anchored
  <2>2. b[j].mmio = a
    BY <2>1 DEF Bundle
  <2> QED
    BY <2>1, <2>2
<1> QED
  BY <1>2, <1>3, <1>4 DEF b

-----------------------------------------------------------------------------
(* The counters a layout declares.                                          *)

ChipSet(h) == {a.chip : a \in Mmio(h.asics)}

(* Every chip device has a counter, if there are counters at all. *)
LEMMA LayoutDomain ==
  ASSUME NEW h \in Hosts
  PROVE  /\ TrayDevices \/ MeshDevices => DOMAIN LayoutOf(h) = ChipSet(h)
         /\ ~(TrayDevices \/ MeshDevices) => LayoutOf(h) = NoCounters
<1> DEFINE G == TraysOfHost(h)
           P == CounterPlaces(G)
           L == BuildChipCounterSets(G)
<1>1. DOMAIN L = {ChipAt(G, p) : p \in P}
  BY DEF BuildChipCounterSets
<1>2. \A p \in P : p[1] \in DOMAIN G /\ p[2] \in DOMAIN G[p[1]].bundles
  <2> TAKE p \in P
  <2>1. PICK t \in DOMAIN G : p \in {<<t, j>> : j \in 1..Len(G[t].bundles)}
    BY DEF CounterPlaces
  <2>2. G[t].bundles \in Seq(Anchored(h.asics))
    BY TrayMembers
  <2>3. PICK j \in 1..Len(G[t].bundles) : p = <<t, j>>
    BY <2>1
  <2>4. j \in DOMAIN G[t].bundles
    BY <2>2, <2>3
  <2> QED
    BY <2>3, <2>4
<1>3. \A t \in DOMAIN G : \A j \in DOMAIN G[t].bundles : <<t, j>> \in P
  <2> TAKE t \in DOMAIN G
  <2> TAKE j \in DOMAIN G[t].bundles
  <2>1. G[t].bundles \in Seq(Anchored(h.asics))
    BY TrayMembers
  <2>2. j \in 1..Len(G[t].bundles)
    BY <2>1
  <2> QED
    BY <2>2 DEF CounterPlaces
<1>4. \A p \in P : ChipAt(G, p) \in ChipSet(h)
  BY <1>2, TrayMembers DEF ChipAt, ChipSet
<1>5. ASSUME NEW a \in Mmio(h.asics)
      PROVE  \E p \in P : ChipAt(G, p) = a.chip
  <2>1. PICK t \in DOMAIN G : G[t].trayID = a.tray
    BY TrayOfChip
  <2>2. PICK j \in DOMAIN G[t].bundles : G[t].bundles[j] = Bundle(h.asics, a)
    BY <2>1, TrayMembers
  <2>3. G[t].bundles[j].mmio = a
    BY <2>2 DEF Bundle
  <2>4. ChipAt(G, <<t, j>>) = a.chip
    BY <2>3 DEF ChipAt
  <2> QED
    BY <2>4, <1>3
<1>6. DOMAIN L = ChipSet(h)
  <2> HIDE DEF P, G, L
  <2> QED
    BY <1>1, <1>4, <1>5 DEF ChipSet
<1>7. TrayDevices \/ MeshDevices => LayoutOf(h) = L
  BY DEF LayoutOf, CounterLayout, TraysOfHost
<1>8. ~(TrayDevices \/ MeshDevices) => LayoutOf(h) = NoCounters
  BY DEF LayoutOf, CounterLayout
<1> QED
  BY <1>6, <1>7, <1>8

(* A host has finitely many counters, in finitely many sets. *)
LEMMA LayoutFinite ==
  ASSUME NEW h \in Hosts
  PROVE  LET L == LayoutOf(h)
             used == {L[c] : c \in DOMAIN L}
         IN IsFiniteSet(DOMAIN L) /\ IsFiniteSet(used) /\ Cardinality(used) \in Nat
<1> DEFINE L == LayoutOf(h)
           D == DOMAIN L
           used == {L[c] : c \in D}
<1>1. IsFiniteSet(D)
  <2>1. CASE TrayDevices \/ MeshDevices
    BY <2>1, LayoutDomain, ChipIds, Zenon DEF ChipSet
  <2>2. CASE ~(TrayDevices \/ MeshDevices)
    <3>1. D = {}
      BY <2>2, LayoutDomain DEF NoCounters
    <3> QED
      BY <3>1, FS_EmptySet
  <2> QED
    BY <2>1, <2>2
<1> HIDE DEF L, D
<1>2. [c \in D |-> L[c]] \in Surjection(D, used)
  BY DEF Surjection
<1>3. IsFiniteSet(used)
  BY <1>1, <1>2, FS_Surjection
<1> QED
  BY <1>1, <1>3, FS_CardinalityType DEF L, D

(* The counter sets are a list of sets of counters. *)
LEMMA CounterSetsType ==
  ASSUME NEW h \in Hosts
  PROVE  CounterSets(LayoutOf(h)) \in Seq(SUBSET DOMAIN LayoutOf(h))
<1> DEFINE L == LayoutOf(h)
           N == Cardinality({L[c] : c \in DOMAIN L})
<1>1. N \in Nat
  BY LayoutFinite, Zenon
<1>2. CounterSets(L) = [k \in 1..N |-> {c \in DOMAIN L : L[c] = k - 1}]
  BY DEF CounterSets
<1> HIDE DEF N, L
<1>3. CounterSets(L) \in Seq(SUBSET DOMAIN L)
  BY <1>1, <1>2
<1> QED
  BY <1>3 DEF L

-----------------------------------------------------------------------------
(* The index of the units, and the slices.                                  *)

(* unitByDevice finds each unit under its name, when names differ. *)
LEMMA IndexFacts ==
  ASSUME NEW U, NamesDiffer(U)
  PROVE  /\ DOMAIN UnitByDevice(U) = {U[k].name : k \in DOMAIN U}
         /\ \A k \in DOMAIN U : UnitByDevice(U)[U[k].name] = U[k].bundles
<1>1. DOMAIN UnitByDevice(U) = {U[k].name : k \in DOMAIN U}
  BY DEF UnitByDevice
<1>2. ASSUME NEW k \in DOMAIN U
      PROVE  UnitByDevice(U)[U[k].name] = U[k].bundles
  <2> DEFINE n == U[k].name
             l == CHOOSE l \in DOMAIN U : U[l].name = n
  <2>1. UnitByDevice(U)[n] = U[l].bundles
    BY DEF UnitByDevice
  <2>2. l \in DOMAIN U /\ U[l].name = n
    OBVIOUS
  <2> HIDE DEF l
  <2>3. l = k
    BY <2>2 DEF NamesDiffer
  <2> QED
    BY <2>1, <2>3
<1> QED
  BY <1>1, <1>2

MaxPerSlice(sets) == IF sets = <<>> THEN MaxDevices ELSE MaxDevicesWithCounters

(* buildSlices carries each device and each counter set once. *)
LEMMA SlicesFacts ==
  ASSUME NEW T, NEW D \in Seq(T), NEW S, NEW sets \in Seq(S)
  PROVE  LET X == BuildSlices(D, sets)
             max == MaxPerSlice(sets)
         IN /\ DOMAIN X # {}
            /\ \A k \in DOMAIN X :
                 /\ X[k].devices = <<>> \/ X[k].sharedCounters = <<>>
                 /\ Len(X[k].sharedCounters) <= MaxSetsPerSlice
                 /\ Len(X[k].devices) <= max
            /\ \A k \in DOMAIN X : \A i \in DOMAIN X[k].devices :
                 /\ (k - 1) * max + i \in DOMAIN D
                 /\ X[k].devices[i] = D[(k - 1) * max + i]
            /\ \A p \in DOMAIN D : \E k \in DOMAIN X : \E i \in DOMAIN X[k].devices :
                 p = (k - 1) * max + i
            /\ \A k, l \in DOMAIN X :
                 \A i \in DOMAIN X[k].devices, j \in DOMAIN X[l].devices :
                   (k - 1) * max + i = (l - 1) * max + j => k = l /\ i = j
            /\ \A k \in DOMAIN X : \A i \in DOMAIN X[k].sharedCounters :
                 \E p \in DOMAIN sets : X[k].sharedCounters[i] = sets[p]
            /\ \A p \in DOMAIN sets : \E k \in DOMAIN X :
                 \E i \in DOMAIN X[k].sharedCounters : X[k].sharedCounters[i] = sets[p]
<1> DEFINE X == BuildSlices(D, sets)
           max == MaxPerSlice(sets)
           chunks == IF D = <<>> THEN <<D>> ELSE Chunk(D, max)
           packs == Chunk(sets, MaxSetsPerSlice)
           place(k, i) == (k - 1) * max + i
<1>1. max \in Nat \ {0} /\ MaxSetsPerSlice \in Nat \ {0}
  BY LimitsAssumption DEF MaxPerSlice
<1>2. X = [k \in 1..(Len(chunks) + Len(packs)) |->
             IF k <= Len(chunks) THEN [devices |-> chunks[k], sharedCounters |-> <<>>]
             ELSE [devices |-> <<>>, sharedCounters |-> packs[k - Len(chunks)]]]
  BY DEF BuildSlices, MaxPerSlice
<1>3. packs \in Seq(Seq(S))
  BY <1>1, ChunkType
<1>4. \A k \in DOMAIN packs : /\ Len(packs[k]) <= MaxSetsPerSlice
                              /\ \A i \in DOMAIN packs[k] : \E p \in DOMAIN sets : packs[k][i] = sets[p]
  <2> TAKE k \in DOMAIN packs
  <2>1. Len(packs[k]) \in 1..MaxSetsPerSlice
    BY <1>1, ChunkPiece
  <2>2. \A i \in DOMAIN packs[k] : \E p \in DOMAIN sets : packs[k][i] = sets[p]
    BY <1>1, ChunkPiece
  <2> HIDE DEF packs
  <2> QED
    BY <2>1, <2>2, <1>1
<1>5. \A p \in DOMAIN sets : \E k \in DOMAIN packs : \E i \in DOMAIN packs[k] : packs[k][i] = sets[p]
  <2> TAKE p \in DOMAIN sets
  <2>1. PICK k \in DOMAIN packs : \E i \in DOMAIN packs[k] : p = (k - 1) * MaxSetsPerSlice + i
    BY <1>1, ChunkCovers
  <2>2. PICK i \in DOMAIN packs[k] : p = (k - 1) * MaxSetsPerSlice + i
    BY <2>1
  <2>3. packs[k][i] = sets[(k - 1) * MaxSetsPerSlice + i]
    BY <1>1, ChunkPiece
  <2> HIDE DEF packs
  <2> QED
    BY <2>2, <2>3
<1> HIDE DEF packs, max
<1>6. /\ chunks \in Seq(Seq(T)) /\ chunks # <<>>
      /\ \A k \in DOMAIN chunks : Len(chunks[k]) <= max
      /\ \A k \in DOMAIN chunks : \A i \in DOMAIN chunks[k] :
           place(k, i) \in DOMAIN D /\ chunks[k][i] = D[place(k, i)]
      /\ \A p \in DOMAIN D : \E k \in DOMAIN chunks : \E i \in DOMAIN chunks[k] : p = place(k, i)
      /\ \A k, l \in DOMAIN chunks : \A i \in DOMAIN chunks[k], j \in DOMAIN chunks[l] :
           place(k, i) = place(l, j) => k = l /\ i = j
  <2>1. CASE D = <<>>
    <3>1. chunks = << <<>> >>
      BY <2>1
    <3> HIDE DEF chunks, place
    <3>2. /\ chunks \in Seq(Seq(T)) /\ chunks # <<>>
          /\ DOMAIN chunks = {1} /\ chunks[1] = <<>> /\ DOMAIN chunks[1] = {} /\ Len(chunks[1]) = 0
      BY <3>1
    <3>3. DOMAIN D = {}
      BY <2>1
    <3> QED
      BY <3>2, <3>3, <1>1
  <2>2. CASE D # <<>>
    <3>1. chunks = Chunk(D, max)
      BY <2>2
    <3> HIDE DEF chunks
    <3>2. chunks \in Seq(Seq(T)) /\ chunks # <<>>
      BY <1>1, <2>2, <3>1, ChunkType
    <3>3. \A k \in DOMAIN chunks : Len(chunks[k]) \in 1..max
      BY <1>1, <3>1, ChunkPiece
    <3>4. \A k \in DOMAIN chunks : \A i \in DOMAIN chunks[k] :
            place(k, i) \in DOMAIN D /\ chunks[k][i] = D[place(k, i)]
      BY <1>1, <3>1, ChunkPiece
    <3>5. \A p \in DOMAIN D : \E k \in DOMAIN chunks : \E i \in DOMAIN chunks[k] : p = place(k, i)
      BY <1>1, <3>1, ChunkCovers
    <3>6. \A k, l \in DOMAIN chunks : \A i \in DOMAIN chunks[k], j \in DOMAIN chunks[l] :
            place(k, i) = place(l, j) => k = l /\ i = j
      BY <1>1, <3>1, ChunkOnce
    <3> HIDE DEF place
    <3>7. \A k \in DOMAIN chunks : Len(chunks[k]) <= max
      BY <1>1, <3>3
    <3> QED
      BY <3>2, <3>4, <3>5, <3>6, <3>7
  <2> QED
    BY <2>1, <2>2
<1> HIDE DEF chunks, X, place
<1>7. /\ Len(chunks) \in Nat /\ DOMAIN chunks = 1..Len(chunks) /\ Len(chunks) # 0
      /\ Len(packs) \in Nat /\ DOMAIN packs = 1..Len(packs)
  BY <1>3, <1>6
<1>8. DOMAIN X = 1..(Len(chunks) + Len(packs))
  BY <1>2
<1>9. \A k \in DOMAIN chunks : /\ k \in DOMAIN X
                               /\ X[k].devices = chunks[k] /\ X[k].sharedCounters = <<>>
  BY <1>2, <1>7, <1>8
<1>10. \A k \in DOMAIN packs : /\ Len(chunks) + k \in DOMAIN X
                               /\ X[Len(chunks) + k].devices = <<>>
                               /\ X[Len(chunks) + k].sharedCounters = packs[k]
  BY <1>2, <1>7, <1>8
<1>11. \A k \in DOMAIN X : k \in DOMAIN chunks \/ \E l \in DOMAIN packs : k = Len(chunks) + l
  <2> SUFFICES ASSUME NEW k \in DOMAIN X, k \notin DOMAIN chunks
               PROVE  \E l \in DOMAIN packs : k = Len(chunks) + l
    OBVIOUS
  <2>1. k - Len(chunks) \in DOMAIN packs /\ k = Len(chunks) + (k - Len(chunks))
    BY <1>7, <1>8
  <2> QED
    BY <2>1
<1>12. 1 \in DOMAIN X
  BY <1>7, <1>8
<1>13. ASSUME NEW k \in DOMAIN X
       PROVE  \/ k \in DOMAIN chunks /\ X[k].devices = chunks[k] /\ X[k].sharedCounters = <<>>
              \/ X[k].devices = <<>> /\ \E l \in DOMAIN packs : X[k].sharedCounters = packs[l]
  BY <1>9, <1>10, <1>11
<1>14. ASSUME NEW k \in DOMAIN X
       PROVE  /\ X[k].devices = <<>> \/ X[k].sharedCounters = <<>>
              /\ Len(X[k].sharedCounters) <= MaxSetsPerSlice
              /\ Len(X[k].devices) <= max
  <2>1. Len(<<>>) = 0 /\ 0 <= max /\ 0 <= MaxSetsPerSlice
    BY <1>1
  <2> QED
    BY <2>1, <1>4, <1>6, <1>13
<1>15. \A k \in DOMAIN X : \A i \in DOMAIN X[k].devices : k \in DOMAIN chunks /\ X[k].devices = chunks[k]
  <2>1. DOMAIN <<>> = {}
    OBVIOUS
  <2> QED
    BY <1>13, <2>1
<1>16. \A k \in DOMAIN X : \A i \in DOMAIN X[k].devices :
         place(k, i) \in DOMAIN D /\ X[k].devices[i] = D[place(k, i)]
  BY <1>6, <1>15
<1>17. \A p \in DOMAIN D : \E k \in DOMAIN X : \E i \in DOMAIN X[k].devices : p = place(k, i)
  <2> TAKE p \in DOMAIN D
  <2>1. PICK k \in DOMAIN chunks : \E i \in DOMAIN chunks[k] : p = place(k, i)
    BY <1>6
  <2> QED
    BY <2>1, <1>9
<1>18. \A k, l \in DOMAIN X : \A i \in DOMAIN X[k].devices, j \in DOMAIN X[l].devices :
         place(k, i) = place(l, j) => k = l /\ i = j
  BY <1>6, <1>15
<1>19. \A k \in DOMAIN X : \A i \in DOMAIN X[k].sharedCounters :
         \E p \in DOMAIN sets : X[k].sharedCounters[i] = sets[p]
  <2>1. DOMAIN <<>> = {}
    OBVIOUS
  <2> QED
    BY <1>4, <1>13, <2>1
<1>20. \A p \in DOMAIN sets : \E k \in DOMAIN X :
         \E i \in DOMAIN X[k].sharedCounters : X[k].sharedCounters[i] = sets[p]
  <2> TAKE p \in DOMAIN sets
  <2>1. PICK k \in DOMAIN packs : \E i \in DOMAIN packs[k] : packs[k][i] = sets[p]
    BY <1>5
  <2> QED
    BY <2>1, <1>10
<1> QED
  BY <1>12, <1>14, <1>16, <1>17, <1>18, <1>19, <1>20 DEF X, max, place

-----------------------------------------------------------------------------
(* The inductive invariant: nothing is published, or the publication is the *)
(* one derived from the topology last applied.                              *)

Fresh ==
  /\ updates = 0
  /\ host = NoHost
  /\ unitByDevice = [n \in {} |-> <<>>]
  /\ slices = <<>>

Applied ==
  /\ host \in Hosts
  /\ unitByDevice = UnitByDevice(UnitsOf(host))
  /\ slices = BuildSlices(DeviceList(UnitsOf(host), LayoutOf(host)), CounterSets(LayoutOf(host)))

Derived ==
  /\ updates \in 0..MaxUpdates
  /\ Fresh \/ Applied

(* applyTopology leaves nothing of the topology before it. *)
LEMMA PublicationIsDerived == Spec => []Derived
<1>1. Init => Derived
  BY LimitsAssumption DEF Init, Derived, Fresh
<1>2. Derived /\ [Next]_vars => Derived'
  <2> SUFFICES ASSUME Derived, [Next]_vars PROVE Derived'
    OBVIOUS
  <2>1. CASE UNCHANGED vars
    BY <2>1 DEF Derived, Fresh, Applied, vars
  <2>2. ASSUME NEW h \in Hosts, ApplyTopology(h) PROVE Derived'
    <3>1. /\ updates < MaxUpdates /\ updates' = updates + 1 /\ host' = h
          /\ unitByDevice' = UnitByDevice(UnitsOf(h))
          /\ slices' = BuildSlices(DeviceList(UnitsOf(h), LayoutOf(h)), CounterSets(LayoutOf(h)))
      BY <2>2 DEF ApplyTopology, UnitsOf, LayoutOf, BundlesOf
    <3>2. updates' \in 0..MaxUpdates
      BY <3>1, LimitsAssumption DEF Derived
    <3>3. Applied'
      BY <3>1 DEF Applied
    <3> QED
      BY <3>2, <3>3 DEF Derived
  <2> QED
    BY <2>1, <2>2 DEF Next
<1> QED
  BY <1>1, <1>2, PTL DEF Spec

(* What the slices carry, and what the index says of it. *)
LEMMA PublishedFacts ==
  ASSUME Applied
  PROVE  LET U == UnitsOf(host)
             L == LayoutOf(host)
         IN /\ Published = {Device(U[k], L) : k \in DOMAIN U}
            /\ DOMAIN unitByDevice = {U[k].name : k \in DOMAIN U}
            /\ \A k \in DOMAIN U : unitByDevice[U[k].name] = U[k].bundles
<1> DEFINE U == UnitsOf(host)
           L == LayoutOf(host)
           D == DeviceList(U, L)
           max == MaxPerSlice(CounterSets(L))
           T == {Device(U[k], L) : k \in DOMAIN U}
<1>1. host \in Hosts
  BY DEF Applied
<1>2. U \in Seq(UnitSet(host)) /\ NamesDiffer(U)
  BY <1>1, UnitsFacts
<1>3. /\ DOMAIN unitByDevice = {U[k].name : k \in DOMAIN U}
      /\ \A k \in DOMAIN U : unitByDevice[U[k].name] = U[k].bundles
  BY <1>2, IndexFacts, Zenon DEF Applied
<1>4. D = [k \in DOMAIN U |-> Device(U[k], L)]
  BY DEF DeviceList
<1>5. CounterSets(L) \in Seq(SUBSET DOMAIN L)
  BY <1>1, CounterSetsType
<1>6. slices = BuildSlices(D, CounterSets(L))
  BY DEF Applied
<1> HIDE DEF U, L, D, max
<1>7. D \in Seq(T) /\ DOMAIN D = DOMAIN U
  BY <1>2, <1>4
<1> HIDE DEF T
<1>8. /\ \A k \in DOMAIN slices : \A i \in DOMAIN slices[k].devices :
           /\ (k - 1) * max + i \in DOMAIN D
           /\ slices[k].devices[i] = D[(k - 1) * max + i]
      /\ \A p \in DOMAIN D : \E k \in DOMAIN slices : \E i \in DOMAIN slices[k].devices :
           p = (k - 1) * max + i
  BY <1>5, <1>6, <1>7, SlicesFacts DEF max
<1>9. \A d \in Published : d \in T
  <2> TAKE d \in Published
  <2>1. PICK k \in DOMAIN slices : \E i \in DOMAIN slices[k].devices : d = slices[k].devices[i]
    BY DEF Published
  <2>2. PICK i \in DOMAIN slices[k].devices : d = slices[k].devices[i]
    BY <2>1
  <2>3. PICK p \in DOMAIN D : d = D[p]
    BY <1>8, <2>2
  <2> QED
    BY <2>3, <1>4 DEF T
<1>10. ASSUME NEW p \in DOMAIN U PROVE Device(U[p], L) \in Published
  <2>1. PICK k \in DOMAIN slices : \E i \in DOMAIN slices[k].devices : p = (k - 1) * max + i
    BY <1>7, <1>8
  <2>2. PICK i \in DOMAIN slices[k].devices : p = (k - 1) * max + i
    BY <2>1
  <2>3. slices[k].devices[i] = Device(U[p], L)
    BY <1>4, <1>8, <2>2
  <2> QED
    BY <2>3 DEF Published
<1>11. Published = T
  BY <1>9, <1>10 DEF T
<1> QED
  BY <1>3, <1>11 DEF U, L, T

(* Nothing is published before the first topology. *)
LEMMA FreshPublished == Fresh => Published = {} /\ DOMAIN unitByDevice = {}
<1> SUFFICES ASSUME Fresh PROVE Published = {} /\ DOMAIN unitByDevice = {}
  OBVIOUS
<1>1. DOMAIN slices = {} /\ DOMAIN unitByDevice = {}
  BY DEF Fresh
<1> QED
  BY <1>1 DEF Published

(* Every unit is anchored on MMIO chips of the host that was last applied. *)
THEOREM TypeCorrect == Spec => []TypeOK
<1>1. Derived => TypeOK
  <2> SUFFICES ASSUME Derived PROVE TypeOK
    OBVIOUS
  <2>1. updates \in 0..MaxUpdates
    BY DEF Derived
  <2>2. CASE Fresh
    BY <2>1, <2>2, FreshPublished DEF TypeOK, Fresh
  <2>3. CASE Applied
    <3>1. host \in Hosts
      BY <2>3 DEF Applied
    <3>2. ASSUME NEW n \in DOMAIN unitByDevice
          PROVE  /\ unitByDevice[n] # <<>>
                 /\ \A k \in DOMAIN unitByDevice[n] : unitByDevice[n][k].mmio \in Mmio(host.asics)
      <4>1. PICK k \in DOMAIN UnitsOf(host) :
              unitByDevice[n] = UnitsOf(host)[k].bundles
        BY <2>3, PublishedFacts
      <4>2. /\ 1 \in DOMAIN unitByDevice[n]
            /\ \A j \in DOMAIN unitByDevice[n] : unitByDevice[n][j].mmio \in Mmio(host.asics)
        BY <3>1, <4>1, UnitBundles
      <4>3. unitByDevice[n] # <<>>
        BY <4>2
      <4> QED
        BY <4>2, <4>3
    <3> QED
      BY <2>1, <3>1, <3>2 DEF TypeOK
  <2> QED
    BY <2>2, <2>3 DEF Derived
<1> QED
  BY <1>1, PublicationIsDerived, PTL

-----------------------------------------------------------------------------
(* The slices.                                                              *)

(* No counter, no counter set and no layout are one and the same. *)
LEMMA NoCountersFacts ==
  ASSUME NEW h \in Hosts
  PROVE  /\ DOMAIN LayoutOf(h) = {} <=> LayoutOf(h) = NoCounters
         /\ CounterSets(LayoutOf(h)) = <<>> <=> LayoutOf(h) = NoCounters
<1> DEFINE L == LayoutOf(h)
           used == {L[c] : c \in DOMAIN L}
           N == Cardinality(used)
<1>1. L = [c \in DOMAIN L |-> L[c]]
  <2> DEFINE G == TraysOfHost(h)
             S == {ChipAt(G, p) : p \in CounterPlaces(G)}
             at(c) == CounterSetAt(G, CHOOSE p \in CounterPlaces(G) : ChipAt(G, p) = c)
  <2>1. L = [c \in S |-> at(c)] \/ L = NoCounters
    BY DEF LayoutOf, CounterLayout, BuildChipCounterSets, TraysOfHost
  <2> HIDE DEF L, S, at
  <2> QED
    BY <2>1, Zenon DEF NoCounters
<1>2. IsFiniteSet(used) /\ N \in Nat
  BY LayoutFinite
<1>3. CounterSets(L) = [k \in 1..N |-> {c \in DOMAIN L : L[c] = k - 1}]
  BY DEF CounterSets
<1> HIDE DEF L
<1>4. DOMAIN L = {} <=> L = NoCounters
  BY <1>1 DEF NoCounters
<1>5. N = 0 <=> used = {}
  BY <1>2, FS_EmptySet
<1>6. used = {} <=> DOMAIN L = {}
  OBVIOUS
<1> HIDE DEF N, used
<1>7. N = 0 => CounterSets(L) = <<>>
  BY <1>3
<1>8. N # 0 => CounterSets(L) # <<>>
  <2> SUFFICES ASSUME N # 0 PROVE CounterSets(L) # <<>>
    OBVIOUS
  <2>1. 1 \in DOMAIN CounterSets(L)
    BY <1>2, <1>3
  <2> QED
    BY <2>1
<1> QED
  BY <1>4, <1>5, <1>6, <1>7, <1>8 DEF L

(* With counters, some chip device draws on one. *)
LEMMA SomeCounter ==
  ASSUME NEW h \in Hosts, LayoutOf(h) # NoCounters
  PROVE  \E k \in DOMAIN UnitsOf(h) : Device(UnitsOf(h)[k], LayoutOf(h)).counters # {}
<1> DEFINE L == LayoutOf(h)
           U == UnitsOf(h)
<1>1. PICK k \in DOMAIN U : TRUE
  <2>1. DOMAIN L # {} /\ (TrayDevices \/ MeshDevices)
    BY NoCountersFacts, LayoutDomain
  <2>2. PICK a \in Mmio(h.asics) : TRUE
    BY <2>1, LayoutDomain, Zenon DEF ChipSet
  <2>3. PICK i \in DOMAIN BundlesOf(h) : TRUE
    BY BundlesFacts
  <2>4. IsUnit(h, ChipDevice(BundlesOf(h)[i]))
    BY <2>3 DEF IsUnit, IsChip
  <2> QED
    BY <2>4, UnitsFacts
<1>2. 1 \in DOMAIN U[k].bundles
  BY UnitBundles
<1>3. U[k].bundles[1].mmio.chip \in ChipsOf(U[k].bundles)
  BY <1>2 DEF ChipsOf
<1>4. Device(U[k], L).counters = {<<L[c], c>> : c \in ChipsOf(U[k].bundles)}
  BY DEF Device, Consumption
<1>5. Device(U[k], L).counters # {}
  BY <1>3, <1>4, Zenon
<1> QED
  BY <1>5

(* Every device is published once, in slices the API accepts. *)
THEOREM SlicesAreFit == Spec => []SlicesFit
<1>1. Derived => SlicesFit
  <2> SUFFICES ASSUME Derived PROVE SlicesFit
    OBVIOUS
  <2>1. CASE Fresh
    <3>1. DOMAIN slices = {} /\ Published = {} /\ DOMAIN unitByDevice = {} /\ ~(updates > 0)
      BY <2>1, FreshPublished DEF Fresh
    <3> QED
      BY <3>1 DEF SlicesFit
  <2>2. CASE Applied
    <3> DEFINE U == UnitsOf(host)
               L == LayoutOf(host)
               D == DeviceList(U, L)
               sets == CounterSets(L)
               max == MaxPerSlice(sets)
               T == {Device(U[k], L) : k \in DOMAIN U}
               limit == IF \A d \in Published : d.counters = {} THEN MaxDevices
                        ELSE MaxDevicesWithCounters
    <3>1. host \in Hosts /\ slices = BuildSlices(D, sets)
      BY <2>2 DEF Applied
    <3>2. U \in Seq(UnitSet(host)) /\ NamesDiffer(U)
      BY <3>1, UnitsFacts
    <3>3. Published = T /\ DOMAIN unitByDevice = {U[k].name : k \in DOMAIN U}
      BY <2>2, PublishedFacts
    <3>4. D = [k \in DOMAIN U |-> Device(U[k], L)]
      BY DEF DeviceList
    <3>5. sets \in Seq(SUBSET DOMAIN L)
      BY <3>1, CounterSetsType
    <3>6. \A k \in DOMAIN U : Device(U[k], L).name = U[k].name
      BY DEF Device
    <3>7. max = limit
      <4>1. CASE L = NoCounters
        <5>1. \A d \in Published : d.counters = {}
          BY <4>1, <3>3 DEF Device, Consumption
        <5>2. sets = <<>>
          BY <3>1, <4>1, NoCountersFacts
        <5> QED
          BY <5>1, <5>2 DEF MaxPerSlice
      <4>2. CASE L # NoCounters
        <5>1. ~\A d \in Published : d.counters = {}
          BY <3>1, <3>3, <4>2, SomeCounter
        <5>2. sets # <<>>
          BY <3>1, <4>2, NoCountersFacts
        <5> QED
          BY <5>1, <5>2 DEF MaxPerSlice
      <4> QED
        BY <4>1, <4>2
    <3> HIDE DEF U, L, D, sets, max, limit
    <3>8. D \in Seq(T) /\ DOMAIN D = DOMAIN U
      BY <3>2, <3>4
    <3>9. {d.name : d \in Published} = DOMAIN unitByDevice
      BY <3>3, <3>6
    <3> HIDE DEF T
    <3>10. /\ DOMAIN slices # {}
           /\ \A k \in DOMAIN slices :
                /\ slices[k].devices = <<>> \/ slices[k].sharedCounters = <<>>
                /\ Len(slices[k].sharedCounters) <= MaxSetsPerSlice
                /\ Len(slices[k].devices) <= max
      BY <3>1, <3>5, <3>8, SlicesFacts DEF max
    <3>11. \A k \in DOMAIN slices : \A i \in DOMAIN slices[k].devices :
             /\ (k - 1) * max + i \in DOMAIN D
             /\ slices[k].devices[i] = D[(k - 1) * max + i]
      BY <3>1, <3>5, <3>8, SlicesFacts DEF max
    <3>12. \A k, l \in DOMAIN slices :
             \A i \in DOMAIN slices[k].devices, j \in DOMAIN slices[l].devices :
               (k - 1) * max + i = (l - 1) * max + j => k = l /\ i = j
      BY <3>1, <3>5, <3>8, SlicesFacts DEF max
    <3>13. ASSUME NEW k \in DOMAIN slices, NEW l \in DOMAIN slices,
                  NEW i \in DOMAIN slices[k].devices, NEW j \in DOMAIN slices[l].devices,
                  slices[k].devices[i].name = slices[l].devices[j].name
           PROVE  k = l /\ i = j
      <4> DEFINE p == (k - 1) * max + i
                 q == (l - 1) * max + j
      <4>1. p \in DOMAIN U /\ q \in DOMAIN U
        BY <3>8, <3>11
      <4>2. slices[k].devices[i] = D[p] /\ slices[l].devices[j] = D[q]
        BY <3>11
      <4> HIDE DEF p, q
      <4>3. U[p].name = U[q].name
        BY <3>4, <3>6, <3>13, <4>1, <4>2
      <4>4. p = q
        BY <3>2, <4>1, <4>3 DEF NamesDiffer
      <4> QED
        BY <3>12, <4>4 DEF p, q
    <3>14. slices # <<>>
      <4>1. DOMAIN <<>> = {}
        OBVIOUS
      <4> QED
        BY <3>10, <4>1
    <3> QED
      BY <3>7, <3>9, <3>10, <3>13, <3>14 DEF SlicesFit, limit
  <2> QED
    BY <2>1, <2>2 DEF Derived
<1> QED
  BY <1>1, PublicationIsDerived, PTL

-----------------------------------------------------------------------------
(* The counters.                                                            *)

NodesOf(bundles) == {bundles[k].mmio.node : k \in DOMAIN bundles}

(* Units have a chip in common exactly when they have a device node in     *)
(* common.                                                                 *)
LEMMA SharedChip ==
  ASSUME NEW h \in Hosts, NEW k \in DOMAIN UnitsOf(h), NEW l \in DOMAIN UnitsOf(h)
  PROVE  LET b == UnitsOf(h)[k].bundles
             c == UnitsOf(h)[l].bundles
         IN ChipsOf(b) \cap ChipsOf(c) = {} <=> NodesOf(b) \cap NodesOf(c) = {}
<1> DEFINE b == UnitsOf(h)[k].bundles
           c == UnitsOf(h)[l].bundles
<1>1. /\ \A i \in DOMAIN b : b[i].mmio \in Mmio(h.asics)
      /\ \A j \in DOMAIN c : c[j].mmio \in Mmio(h.asics)
  BY UnitBundles
<1> HIDE DEF b, c
<1>2. \A i \in DOMAIN b, j \in DOMAIN c : b[i].mmio.chip = c[j].mmio.chip <=> b[i].mmio.node = c[j].mmio.node
  BY <1>1, MmioFacts
<1>3. ASSUME NEW x \in ChipsOf(b) \cap ChipsOf(c) PROVE NodesOf(b) \cap NodesOf(c) # {}
  <2>1. PICK i \in DOMAIN b : x = b[i].mmio.chip
    BY DEF ChipsOf
  <2>2. PICK j \in DOMAIN c : x = c[j].mmio.chip
    BY DEF ChipsOf
  <2>3. b[i].mmio.node \in NodesOf(b) /\ b[i].mmio.node \in NodesOf(c)
    BY <1>2, <2>1, <2>2, Zenon DEF NodesOf
  <2> QED
    BY <2>3
<1>4. ASSUME NEW x \in NodesOf(b) \cap NodesOf(c) PROVE ChipsOf(b) \cap ChipsOf(c) # {}
  <2>1. PICK i \in DOMAIN b : x = b[i].mmio.node
    BY DEF NodesOf
  <2>2. PICK j \in DOMAIN c : x = c[j].mmio.node
    BY DEF NodesOf
  <2>3. b[i].mmio.chip \in ChipsOf(b) /\ b[i].mmio.chip \in ChipsOf(c)
    BY <1>2, <2>1, <2>2, Zenon DEF ChipsOf
  <2> QED
    BY <2>3
<1>5. ChipsOf(b) \cap ChipsOf(c) = {} <=> NodesOf(b) \cap NodesOf(c) = {}
  BY <1>3, <1>4
<1> QED
  BY <1>5 DEF b, c

(* Two devices share a counter exactly when they share a chip. *)
LEMMA CommonCounter ==
  ASSUME NEW L, NEW X, NEW Y
  PROVE  {<<L[c], c>> : c \in X} \cap {<<L[c], c>> : c \in Y} = {} <=> X \cap Y = {}
<1> DEFINE P == {<<L[c], c>> : c \in X}
           Q == {<<L[c], c>> : c \in Y}
<1>1. ASSUME NEW c \in X \cap Y PROVE P \cap Q # {}
  <2>1. <<L[c], c>> \in P /\ <<L[c], c>> \in Q
    OBVIOUS
  <2> QED
    BY <2>1, Zenon
<1>2. ASSUME NEW p \in P \cap Q PROVE X \cap Y # {}
  <2>1. PICK c \in X : p = <<L[c], c>>
    OBVIOUS
  <2>2. PICK d \in Y : p = <<L[d], d>>
    OBVIOUS
  <2>3. c = d
    BY <2>1, <2>2
  <2> QED
    BY <2>3
<1> QED
  BY <1>1, <1>2

(* Without counters there are chip devices only, each with its own chip. *)
LEMMA ApartWithoutCounters ==
  ASSUME NEW h \in Hosts, LayoutOf(h) = NoCounters,
         NEW k \in DOMAIN UnitsOf(h), NEW l \in DOMAIN UnitsOf(h),
         UnitsOf(h)[k].name # UnitsOf(h)[l].name
  PROVE  ChipsOf(UnitsOf(h)[k].bundles) \cap ChipsOf(UnitsOf(h)[l].bundles) = {}
<1> DEFINE U == UnitsOf(h)
           B == BundlesOf(h)
<1>1. ~(TrayDevices \/ MeshDevices)
  <2> SUFFICES ASSUME TrayDevices \/ MeshDevices PROVE FALSE
    OBVIOUS
  <2>1. ChipSet(h) = {}
    BY NoCountersFacts, LayoutDomain
  <2>2. U[k].bundles[1].mmio \in Mmio(h.asics)
    BY UnitBundles
  <2> QED
    BY <2>1, <2>2, Zenon DEF ChipSet
<1>2. IsChip(h, U[k]) /\ IsChip(h, U[l])
  BY <1>1, UnitsFacts DEF IsUnit, IsTray, IsMesh
<1>3. PICK i \in DOMAIN B : U[k] = ChipDevice(B[i])
  BY <1>2 DEF IsChip
<1>4. PICK j \in DOMAIN B : U[l] = ChipDevice(B[j])
  BY <1>2 DEF IsChip
<1>5. B[i].mmio.chip # B[j].mmio.chip
  BY <1>3, <1>4 DEF ChipDevice
<1>6. U[k].bundles = <<B[i]>> /\ U[l].bundles = <<B[j]>>
  BY <1>3, <1>4 DEF ChipDevice
<1> HIDE DEF U, B
<1>7. ChipsOf(<<B[i]>>) = {B[i].mmio.chip} /\ ChipsOf(<<B[j]>>) = {B[j].mmio.chip}
  BY DEF ChipsOf
<1>8. ChipsOf(U[k].bundles) \cap ChipsOf(U[l].bundles) = {}
  BY <1>5, <1>6, <1>7
<1> QED
  BY <1>8 DEF U

(* Two devices draw on a common counter exactly when containers that hold  *)
(* them would share a device node.                                         *)
THEOREM OverlapIsDeclared == Spec => []CountersDeclareOverlap
<1>1. Derived => CountersDeclareOverlap
  <2> SUFFICES ASSUME Derived PROVE CountersDeclareOverlap
    OBVIOUS
  <2>1. CASE Fresh
    BY <2>1, FreshPublished DEF CountersDeclareOverlap
  <2>2. CASE Applied
    <3> DEFINE U == UnitsOf(host)
               L == LayoutOf(host)
    <3>1. host \in Hosts
      BY <2>2 DEF Applied
    <3>2. Published = {Device(U[k], L) : k \in DOMAIN U}
      BY <2>2, PublishedFacts
    <3>3. \A k \in DOMAIN U : ApplyConfig(U[k].name) = NodesOf(U[k].bundles)
      BY <2>2, PublishedFacts DEF ApplyConfig, NodesOf
    <3>4. ASSUME NEW k \in DOMAIN U, NEW l \in DOMAIN U, U[k].name # U[l].name
          PROVE  Device(U[k], L).counters \cap Device(U[l], L).counters = {}
                 <=> ChipsOf(U[k].bundles) \cap ChipsOf(U[l].bundles) = {}
      <4>1. CASE L = NoCounters
        <5>1. Device(U[k], L).counters = {}
          BY <4>1 DEF Device, Consumption
        <5> QED
          BY <3>1, <3>4, <4>1, <5>1, ApartWithoutCounters
      <4>2. CASE L # NoCounters
        <5>1. /\ Device(U[k], L).counters = {<<L[c], c>> : c \in ChipsOf(U[k].bundles)}
              /\ Device(U[l], L).counters = {<<L[c], c>> : c \in ChipsOf(U[l].bundles)}
          BY <4>2 DEF Device, Consumption
        <5> QED
          BY <5>1, CommonCounter
      <4> QED
        BY <4>1, <4>2
    <3>5. ASSUME NEW k \in DOMAIN U, NEW l \in DOMAIN U, U[k].name # U[l].name
          PROVE  Device(U[k], L).counters \cap Device(U[l], L).counters = {}
                 <=> ApplyConfig(U[k].name) \cap ApplyConfig(U[l].name) = {}
      BY <3>1, <3>3, <3>4, <3>5, SharedChip
    <3>6. \A k \in DOMAIN U : Device(U[k], L).name = U[k].name
      BY DEF Device
    <3> HIDE DEF U, L
    <3>7. ASSUME NEW d \in Published, NEW e \in Published, d.name # e.name
          PROVE  d.counters \cap e.counters = {}
                 <=> ApplyConfig(d.name) \cap ApplyConfig(e.name) = {}
      <4>1. PICK k \in DOMAIN U : d = Device(U[k], L)
        BY <3>2
      <4>2. PICK l \in DOMAIN U : e = Device(U[l], L)
        BY <3>2
      <4>3. d.name = U[k].name /\ e.name = U[l].name
        BY <3>6, <4>1, <4>2
      <4> QED
        BY <3>5, <3>7, <4>1, <4>2, <4>3
    <3> QED
      BY <3>7 DEF CountersDeclareOverlap
  <2> QED
    BY <2>1, <2>2 DEF Derived
<1> QED
  BY <1>1, PublicationIsDerived, PTL

-----------------------------------------------------------------------------
(* Every ASIC belongs to one bundle.                                        *)

(* The MMIO chip of a tray with the lowest location, if it has one. *)
LEMMA LowestChip ==
  ASSUME NEW h \in Hosts, NEW t, Mmio(OnTray(h.asics, t)) # {}
  PROVE  \E m \in Mmio(h.asics) :
           /\ m.tray = t
           /\ \A x \in Mmio(h.asics) :
                x.tray = t => ((\A b \in Mmio(OnTray(h.asics, t)) : x.loc <= b.loc) <=> x = m)
<1> DEFINE M == Mmio(OnTray(h.asics, t))
           locs == {b.loc : b \in M}
<1>1. M = {a \in Mmio(h.asics) : a.tray = t}
  BY DEF Mmio, OnTray
<1>2. M \subseteq ASIC /\ \A a, b \in M : a.loc = b.loc => a = b
  BY <1>1, MmioFacts
<1> HIDE DEF M
<1>3. \A a \in M : a.loc \in Nat
  BY <1>2 DEF ASIC
<1>4. locs \in SUBSET Nat /\ locs # {}
  BY <1>3 DEF M
<1>5. PICK l \in locs : \A k \in locs : l <= k
  <2> HIDE DEF locs
  <2> QED
    BY <1>4, LeastNumber
<1>6. PICK m \in M : m.loc = l
  BY <1>5
<1>7. \A b \in M : m.loc <= b.loc
  BY <1>5, <1>6
<1>8. ASSUME NEW x \in M, \A b \in M : x.loc <= b.loc
      PROVE  x = m
  <2>1. x.loc <= m.loc /\ m.loc <= x.loc
    BY <1>6, <1>7, <1>8
  <2>2. x.loc = m.loc
    BY <2>1, <1>3, <1>6
  <2> QED
    BY <2>2, <1>2, <1>6
<1> QED
  BY <1>1, <1>6, <1>7, <1>8 DEF M

(* A bundle holds an ASIC if the ASIC anchors it or is one of its remotes. *)
Holds(bundle, a) == a = bundle.mmio \/ a \in bundle.remotes

(* An ASIC on a tray with MMIO chips is held by exactly one bundle. *)
LEMMA OneOwner ==
  ASSUME NEW h \in Hosts, NEW a \in h.asics, Mmio(OnTray(h.asics, a.tray)) # {}
  PROVE  \E m \in Mmio(h.asics) :
           \A x \in Mmio(h.asics) : Holds(Bundle(h.asics, x), a) <=> x = m
<1>1. a.mmio \in BOOLEAN
  BY HostsAssumption
<1>2. \A x \in Mmio(h.asics) : Holds(Bundle(h.asics, x), a) =>
        a = x \/ (~a.mmio /\ a.tray = x.tray)
  BY DEF Holds, Bundle, Remote, OnTray
<1>3. CASE a.mmio
  <2>1. a \in Mmio(h.asics)
    BY <1>3 DEF Mmio
  <2>2. \A x \in Mmio(h.asics) : Holds(Bundle(h.asics, x), a) <=> x = a
    BY <1>2, <1>3 DEF Holds, Bundle
  <2> QED
    BY <2>1, <2>2
<1>4. CASE ~a.mmio
  <2>1. PICK m \in Mmio(h.asics) :
          /\ m.tray = a.tray
          /\ \A x \in Mmio(h.asics) :
               x.tray = a.tray =>
                 ((\A b \in Mmio(OnTray(h.asics, a.tray)) : x.loc <= b.loc) <=> x = m)
    <3> DEFINE t == a.tray
    <3>1. Mmio(OnTray(h.asics, t)) # {}
      OBVIOUS
    <3> HIDE DEF t
    <3>2. \E m \in Mmio(h.asics) :
            /\ m.tray = t
            /\ \A x \in Mmio(h.asics) :
                 x.tray = t => ((\A b \in Mmio(OnTray(h.asics, t)) : x.loc <= b.loc) <=> x = m)
      BY <3>1, LowestChip
    <3> QED
      BY <3>2 DEF t
  <2>2. a \in Remote(OnTray(h.asics, a.tray)) /\ a \notin Mmio(h.asics)
    BY <1>4 DEF Remote, OnTray, Mmio
  <2>3. ASSUME NEW x \in Mmio(h.asics)
        PROVE  Holds(Bundle(h.asics, x), a) <=> x = m
    <3>1. CASE x.tray # a.tray
      BY <1>2, <2>1, <2>2, <3>1
    <3>2. CASE x.tray = a.tray
      <4>1. Bundle(h.asics, x).remotes
              = IF x = m THEN Remote(OnTray(h.asics, a.tray)) ELSE {}
        BY <2>1, <3>2 DEF Bundle
      <4>2. Bundle(h.asics, x).mmio = x
        BY DEF Bundle
      <4> QED
        BY <2>2, <4>1, <4>2 DEF Holds
    <3> QED
      BY <3>1, <3>2
  <2> QED
    BY <2>3
<1> QED
  BY <1>1, <1>3, <1>4

(* An ASIC on a tray without MMIO chips is held by no bundle. *)
LEMMA NoOwner ==
  ASSUME NEW h \in Hosts, NEW a \in h.asics, Mmio(OnTray(h.asics, a.tray)) = {},
         NEW x \in Mmio(h.asics)
  PROVE  ~Holds(Bundle(h.asics, x), a)
<1> SUFFICES ASSUME Holds(Bundle(h.asics, x), a) PROVE FALSE
  OBVIOUS
<1>1. a = x \/ a \in OnTray(h.asics, x.tray)
  BY DEF Holds, Bundle, Remote
<1>2. x.tray = a.tray
  BY <1>1 DEF OnTray
<1>3. x \in Mmio(OnTray(h.asics, a.tray))
  BY <1>2 DEF Mmio, OnTray
<1> QED
  BY <1>3

(* The chip devices are the bundles, under the names of their chips. *)
LEMMA ChipNames ==
  ASSUME Applied
  PROVE  /\ \A n \in DOMAIN unitByDevice : n[1] = "tt" =>
              \E x \in Mmio(host.asics) :
                n = <<"tt", x.chip>> /\ unitByDevice[n][1] = Bundle(host.asics, x)
         /\ \A x \in Mmio(host.asics) :
              /\ <<"tt", x.chip>> \in DOMAIN unitByDevice
              /\ unitByDevice[<<"tt", x.chip>>][1] = Bundle(host.asics, x)
<1> DEFINE U == UnitsOf(host)
           B == BundlesOf(host)
<1>1. host \in Hosts
  BY DEF Applied
<1>2. /\ DOMAIN unitByDevice = {U[k].name : k \in DOMAIN U}
      /\ \A k \in DOMAIN U : unitByDevice[U[k].name] = U[k].bundles
  BY PublishedFacts
<1>3. \A k \in DOMAIN U : U[k].name[1] = "tt" => IsChip(host, U[k])
  BY <1>1, UnitsFacts
<1>4. \A i \in DOMAIN B : \E k \in DOMAIN U : U[k] = ChipDevice(B[i])
  BY <1>1, UnitsFacts DEF IsUnit, IsChip
<1>5. \A i \in DOMAIN B : /\ B[i].mmio \in Mmio(host.asics)
                          /\ B[i] = Bundle(host.asics, B[i].mmio)
  BY <1>1, BundlesFacts
<1>6. \A x \in Mmio(host.asics) : \E i \in DOMAIN B : B[i] = Bundle(host.asics, x)
  BY <1>1, BundlesFacts, Zenon
<1>7. \A b : ChipDevice(b).name = <<"tt", b.mmio.chip>> /\ ChipDevice(b).bundles[1] = b
  BY DEF ChipDevice
<1>8. ASSUME NEW n \in DOMAIN unitByDevice, n[1] = "tt"
      PROVE  \E x \in Mmio(host.asics) :
               n = <<"tt", x.chip>> /\ unitByDevice[n][1] = Bundle(host.asics, x)
  <2>1. PICK k \in DOMAIN U : n = U[k].name
    BY <1>2
  <2>2. PICK i \in DOMAIN B : U[k] = ChipDevice(B[i])
    BY <1>3, <1>8, <2>1 DEF IsChip
  <2>3. unitByDevice[n] = U[k].bundles
    BY <1>2, <2>1
  <2>4. n = <<"tt", B[i].mmio.chip>> /\ unitByDevice[n][1] = B[i]
    BY <1>7, <2>1, <2>2, <2>3
  <2> QED
    BY <1>5, <2>4
<1>9. ASSUME NEW x \in Mmio(host.asics)
      PROVE  /\ <<"tt", x.chip>> \in DOMAIN unitByDevice
             /\ unitByDevice[<<"tt", x.chip>>][1] = Bundle(host.asics, x)
  <2>1. PICK i \in DOMAIN B : B[i] = Bundle(host.asics, x)
    BY <1>6
  <2>2. B[i].mmio = x
    BY <2>1 DEF Bundle
  <2>3. PICK k \in DOMAIN U : U[k] = ChipDevice(B[i])
    BY <1>4
  <2>4. U[k].name = <<"tt", x.chip>> /\ U[k].bundles[1] = B[i]
    BY <1>7, <2>2, <2>3
  <2>5. U[k].name \in DOMAIN unitByDevice /\ unitByDevice[U[k].name] = U[k].bundles
    BY <1>2
  <2> QED
    BY <2>1, <2>4, <2>5
<1> QED
  BY <1>8, <1>9

(* How many chip devices hold an ASIC. *)
LEMMA AsicCount ==
  ASSUME Applied, NEW a \in host.asics
  PROVE  Cardinality({n \in DOMAIN unitByDevice :
           n[1] = "tt" /\ (a = unitByDevice[n][1].mmio \/ a \in unitByDevice[n][1].remotes)})
         = IF Mmio(OnTray(host.asics, a.tray)) = {} THEN 0 ELSE 1
<1> DEFINE S == {n \in DOMAIN unitByDevice :
                   n[1] = "tt" /\ (a = unitByDevice[n][1].mmio \/ a \in unitByDevice[n][1].remotes)}
<1>1. host \in Hosts
  BY DEF Applied
<1>2. S = {n \in DOMAIN unitByDevice : n[1] = "tt" /\ Holds(unitByDevice[n][1], a)}
  BY DEF Holds
<1> HIDE DEF S
<1>3. \A n \in S : \E x \in Mmio(host.asics) :
        n = <<"tt", x.chip>> /\ Holds(Bundle(host.asics, x), a)
  BY <1>2, ChipNames
<1>4. CASE Mmio(OnTray(host.asics, a.tray)) = {}
  <2>1. S = {}
    BY <1>1, <1>3, <1>4, NoOwner
  <2> QED
    BY <1>4, <2>1, FS_EmptySet DEF S
<1>5. CASE Mmio(OnTray(host.asics, a.tray)) # {}
  <2>1. PICK m \in Mmio(host.asics) :
          \A x \in Mmio(host.asics) : Holds(Bundle(host.asics, x), a) <=> x = m
    BY <1>1, <1>5, OneOwner
  <2> DEFINE n == <<"tt", m.chip>>
  <2>2. n \in DOMAIN unitByDevice /\ unitByDevice[n][1] = Bundle(host.asics, m)
    BY ChipNames
  <2>3. n[1] = "tt"
    OBVIOUS
  <2>4. \A p \in S : p = n
    BY <1>3, <2>1
  <2> HIDE DEF n
  <2>5. n \in S
    BY <1>2, <2>1, <2>2, <2>3
  <2>6. S = {n}
    BY <2>4, <2>5
  <2>7. Cardinality(S) = 1
    BY <2>6, FS_Singleton, Zenon
  <2> QED
    BY <1>5, <2>7 DEF S
<1> QED
  BY <1>4, <1>5

(* A tray device counts the ASICs of its tray. *)
LEMMA TrayCount ==
  ASSUME NEW h \in Hosts, NEW t \in DOMAIN TraysOfHost(h)
  PROVE  ChipCount(TraysOfHost(h)[t].bundles)
         = Cardinality(OnTray(h.asics, TraysOfHost(h)[t].trayID))
<1> DEFINE b == TraysOfHost(h)[t].bundles
           id == TraysOfHost(h)[t].trayID
           A == h.asics
           O == OnTray(A, id)
           M == Mmio(O)
           R == Remote(O)
           chips == ChipsOf(b)
           remotes == UNION {b[k].remotes : k \in DOMAIN b}
<1>1. /\ 1 \in DOMAIN b
      /\ \A j \in DOMAIN b : b[j].mmio \in Mmio(A) /\ b[j].mmio.tray = id /\ b[j] = Bundle(A, b[j].mmio)
      /\ \A a \in Mmio(A) : a.tray = id => \E j \in DOMAIN b : b[j] = Bundle(A, a)
  BY TrayMembers
<1> HIDE DEF b, id
<1>2. IsFiniteSet(O) /\ IsFiniteSet(M) /\ IsFiniteSet(R)
  <2>1. O \in SUBSET A /\ M \in SUBSET A /\ R \in SUBSET A /\ IsFiniteSet(A)
    BY HostsAssumption DEF OnTray, Mmio, Remote
  <2> HIDE DEF O, M, R, A
  <2> QED
    BY <2>1, FS_Subset
<1>3. M \cup R = O /\ M \cap R = {}
  BY HostsAssumption DEF OnTray, Mmio, Remote
<1>4. M = {a \in Mmio(A) : a.tray = id}
  BY DEF OnTray, Mmio
<1>5. \A j \in DOMAIN b : b[j].mmio \in M
  BY <1>1, <1>4
<1>6. \A a \in M : \E j \in DOMAIN b : b[j] = Bundle(A, a) /\ b[j].mmio = a
  BY <1>1, <1>4 DEF Bundle
<1>7. \A a, c \in M : a.chip = c.chip => a = c
  BY <1>4, MmioFacts
<1>8. Cardinality(chips) = Cardinality(M)
  <2> DEFINE chip == [a \in M |-> a.chip]
  <2> HIDE DEF M
  <2>1. chips = {a.chip : a \in M}
    BY <1>5, <1>6 DEF ChipsOf
  <2> HIDE DEF chips
  <2>2. chip \in Surjection(M, chips)
    BY <2>1 DEF Surjection
  <2>3. chip \in Injection(M, chips)
    BY <1>7, <2>1 DEF Injection, IsInjective
  <2> QED
    BY <1>2, <2>2, <2>3, FS_Surjection
<1>9. remotes = R
  <2>1. M # {}
    BY <1>1, <1>5
  <2>2. PICK m \in Mmio(A) :
          /\ m.tray = id
          /\ \A x \in Mmio(A) : x.tray = id => ((\A c \in M : x.loc <= c.loc) <=> x = m)
    BY <2>1, LowestChip
  <2>3. \A x \in Mmio(A) : x.tray = id => Bundle(A, x).remotes = IF x = m THEN R ELSE {}
    BY <2>2 DEF Bundle
  <2> HIDE DEF M, R
  <2>4. \A j \in DOMAIN b : b[j].remotes \subseteq R
    BY <1>1, <2>3
  <2>5. PICK j \in DOMAIN b : b[j] = Bundle(A, m)
    BY <1>1, <2>2
  <2>6. b[j].remotes = R
    BY <2>2, <2>3, <2>5
  <2> QED
    BY <2>4, <2>6
<1>10. ChipCount(b) = Cardinality(chips) + Cardinality(remotes)
  BY DEF ChipCount
<1> HIDE DEF O, M, R, chips, remotes
<1>11. Cardinality(M \cup R) = Cardinality(M) + Cardinality(R) - Cardinality(M \cap R)
  BY <1>2, FS_Union
<1>12. Cardinality(O) = Cardinality(M) + Cardinality(R)
  <2>1. Cardinality(M \cap R) = 0
    BY <1>3, FS_EmptySet
  <2>2. Cardinality(M) \in Nat /\ Cardinality(R) \in Nat
    BY <1>2, FS_CardinalityType
  <2>3. Cardinality(O) = Cardinality(M \cup R)
    BY <1>3
  <2> QED
    BY <1>11, <2>1, <2>2, <2>3
<1>13. ChipCount(b) = Cardinality(O)
  BY <1>8, <1>9, <1>10, <1>12
<1> QED
  BY <1>13 DEF b, O, id

(* Each ASIC that can be reached is part of exactly one chip device, and a *)
(* tray device counts each ASIC of its tray once.                          *)
THEOREM AsicsArePublishedOnce == Spec => []EveryAsicOnce
<1>1. Derived => EveryAsicOnce
  <2> SUFFICES ASSUME Derived PROVE EveryAsicOnce
    OBVIOUS
  <2>1. CASE Fresh
    <3>1. host.asics = {} /\ Published = {}
      BY <2>1, FreshPublished DEF Fresh, NoHost
    <3> QED
      BY <3>1 DEF EveryAsicOnce
  <2>2. CASE Applied
    <3> DEFINE U == UnitsOf(host)
               G == TraysOfHost(host)
    <3>1. host \in Hosts
      BY <2>2 DEF Applied
    <3>2. ASSUME NEW d \in Published, d.name[1] = "tt-tray"
          PROVE  d.chipCount = Cardinality(OnTray(host.asics, d.name[2]))
      <4>1. PICK k \in DOMAIN U : d = Device(U[k], LayoutOf(host))
        BY <2>2, PublishedFacts
      <4>2. d.name = U[k].name /\ d.chipCount = ChipCount(U[k].bundles)
        BY <4>1 DEF Device
      <4>3. IsTray(host, U[k])
        BY <3>1, <3>2, <4>2, UnitsFacts
      <4>4. PICK t \in DOMAIN G : U[k] = TrayDevice(G[t])
        BY <4>3 DEF IsTray
      <4>5. U[k].name[2] = G[t].trayID /\ U[k].bundles = G[t].bundles
        BY <4>4 DEF TrayDevice
      <4>6. ChipCount(G[t].bundles) = Cardinality(OnTray(host.asics, G[t].trayID))
        BY <3>1, TrayCount
      <4> HIDE DEF U, G
      <4> QED
        BY <4>2, <4>5, <4>6
    <3> QED
      BY <2>2, <3>2, AsicCount, Zenon DEF EveryAsicOnce
  <2> QED
    BY <2>1, <2>2 DEF Derived
<1> QED
  BY <1>1, PublicationIsDerived, PTL
=============================================================================
