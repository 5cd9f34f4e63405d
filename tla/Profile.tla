------------------------------ MODULE Profile ------------------------------
(***************************************************************************)
(* What the Tenstorrent profile publishes for a host: how the ASICs of a   *)
(* topology become chip, tray and mesh devices, the shared counters that   *)
(* keep overlapping devices exclusive, and the ResourceSlices that carry   *)
(* them.  applyTopology does all of it in one step, for each topology the  *)
(* fabric manager agent reports.                                           *)
(*                                                                         *)
(* An ASIC is a record [chip, tray, loc, mmio, board, node]; its host-     *)
(* local chip id also stands for its unique id.  A host is a record        *)
(* [asics, connections, revC, base], where base is the location its agent  *)
(* gives the first place of a tray, which the agent does not say.          *)
(***************************************************************************)
EXTENDS Naturals, Sequences, FiniteSets, Lists

CONSTANTS
  Hosts,                   \* topologies the agent may report
  RevCMeshes,              \* the groupings transcribed for a Galaxy rev C
  TrayDevices,             \* Options.TrayDevices
  MeshDevices,             \* Options.MeshDevices
  MaxCountersPerSet,       \* limits of the ResourceSlice API
  MaxSetsPerDevice,
  MaxDevices,
  MaxDevicesWithCounters,
  MaxSetsPerSlice,
  MaxUpdates               \* how many topologies the agent reports

ASSUME OptionsAssumption == TrayDevices \in BOOLEAN /\ MeshDevices \in BOOLEAN
ASSUME LimitsAssumption ==
  /\ {MaxCountersPerSet, MaxSetsPerDevice, MaxDevices, MaxDevicesWithCounters,
      MaxSetsPerSlice} \subseteq Nat \ {0}
  /\ MaxUpdates \in Nat

(* Chip ids name an ASIC, and so do its place and its device node. *)
ASSUME HostsAssumption ==
  \A h \in Hosts :
    /\ h.asics \subseteq [chip : Nat, tray : Nat, loc : Nat, mmio : BOOLEAN,
                          board : STRING, node : Nat]
    /\ IsFiniteSet(h.asics)
    /\ h.connections \subseteq Nat \X Nat
    /\ h.revC \in BOOLEAN
    /\ \A a, b \in h.asics :
         \/ a.chip = b.chip
         \/ a.tray = b.tray /\ a.loc = b.loc
         \/ a.mmio /\ b.mmio /\ a.node = b.node
         => a = b

(* A grouping is a rectangle of several chips, on no more trays than a     *)
(* device may draw on counter sets.  A mesh's device is named after its    *)
(* shape and the chip in its first place, so groupings of one shape start  *)
(* in different places; no shape has the prefix of a chip's or a tray's    *)
(* name.                                                                   *)
ASSUME MeshesAssumption ==
  /\ RevCMeshes \in Seq([slug : STRING \ {"tt", "tt-tray"}, rows : Nat, cols : Nat,
                         slots : Seq([tray : Nat, loc : Nat \ {0}])])
  /\ \A m \in DOMAIN RevCMeshes :
       LET slots == RevCMeshes[m].slots
       IN /\ Len(slots) > 1
          /\ Len(slots) = RevCMeshes[m].rows * RevCMeshes[m].cols
          /\ Cardinality({slots[n].tray : n \in DOMAIN slots}) <= MaxSetsPerDevice
  /\ \A l, m \in DOMAIN RevCMeshes :
       /\ RevCMeshes[l].slug = RevCMeshes[m].slug
       /\ RevCMeshes[l].slots[1] = RevCMeshes[m].slots[1]
       => l = m

VARIABLES
  host,          \* the topology last applied
  unitByDevice,  \* Profile.unitByDevice: device name -> the bundles it covers
  slices,        \* the ResourceSlices handed over for publication
  updates        \* topologies applied so far

vars == <<host, unitByDevice, slices, updates>>

-----------------------------------------------------------------------------
(* Bundles: an MMIO chip with the remote chips reached through it.          *)

OnTray(asics, t) == {a \in asics : a.tray = t}

(* splitByMmio *)
Mmio(asics) == {a \in asics : a.mmio}
Remote(asics) == {a \in asics : ~a.mmio}

(* ASICs in the order of their chip ids. *)
ByChip(asics) ==
  LET order == Ascending({a.chip : a \in asics})
  IN [k \in DOMAIN order |-> CHOOSE a \in asics : a.chip = order[k]]

(* The MMIO chip with the lowest location adopts the tray's remote chips. *)
Bundle(asics, a) ==
  LET tray == OnTray(asics, a.tray)
  IN [mmio |-> a,
      remotes |-> IF \A b \in Mmio(tray) : a.loc <= b.loc THEN Remote(tray) ELSE {}]

(* A mutant: every MMIO chip adopts the remote chips of its tray. *)
BundleForEach(asics) ==
  LET anchors == ByChip(Mmio(asics))
  IN [k \in DOMAIN anchors |->
        [mmio |-> anchors[k], remotes |-> Remote(OnTray(asics, anchors[k].tray))]]

(* A mutant: a chip on a tray without MMIO chips gets a bundle too. *)
BundleAnything(asics) ==
  LET anchors == ByChip({a \in asics : a.mmio \/ Mmio(OnTray(asics, a.tray)) = {}})
  IN [k \in DOMAIN anchors |-> [mmio |-> anchors[k], remotes |-> {}]]

(* One bundle for each MMIO chip, in chip order; a tray without an MMIO    *)
(* chip yields no bundle.                                                  *)
BundleHostASICs(asics) ==
  LET anchors == ByChip(Mmio(asics))
  IN [k \in DOMAIN anchors |-> Bundle(asics, anchors[k])]

(* Trays in the order of their ids, each with its bundles in chip order. *)
GroupBundlesByTray(bundles) ==
  LET ids == Ascending({bundles[k].mmio.tray : k \in DOMAIN bundles})
  IN [n \in DOMAIN ids |->
        [trayID |-> ids[n],
         bundles |-> Pick(bundles, {k \in DOMAIN bundles : bundles[k].mmio.tray = ids[n]})]]

-----------------------------------------------------------------------------
(* Shared counters: one per chip device, packed into sets a tray at a time. *)

(* A mutant: a tray follows the one before it, wherever that ends. *)
BeginTrayAnywhere(at, n) == at

(* The counters of n bundles go to the set being filled, if they fit, or   *)
(* if that set is empty; to a new set otherwise.                           *)
BeginTray(at, n) ==
  IF at.fill > 0 /\ at.fill + n > MaxCountersPerSet
  THEN [set |-> at.set + 1, fill |-> 0]
  ELSE at

(* A mutant: a set takes one counter more than it may hold. *)
SetAtWide(at, j) == at.set + (at.fill + j - 1) \div (MaxCountersPerSet + 1)

(* The set of a tray's j-th counter: a tray too big for one set runs over. *)
SetAt(at, j) == at.set + (at.fill + j - 1) \div MaxCountersPerSet

(* Where the packing stands after the first k trays. *)
Packed(trays) ==
  LET after[k \in 0..Len(trays)] ==
        IF k = 0 THEN [set |-> 0, fill |-> 0]
        ELSE LET size == Len(trays[k].bundles)
                 at == BeginTray(after[k - 1], size)
             IN [set |-> SetAt(at, size),
                 fill |-> ((at.fill + size - 1) % MaxCountersPerSet) + 1]
  IN after

(* The places <<k, j>>: the j-th bundle of the k-th tray. *)
CounterPlaces(trays) ==
  UNION {{<<k, j>> : j \in 1..Len(trays[k].bundles)} : k \in DOMAIN trays}

ChipAt(trays, p) == trays[p[1]].bundles[p[2]].mmio.chip

CounterSetAt(trays, p) ==
  SetAt(BeginTray(Packed(trays)[p[1] - 1], Len(trays[p[1]].bundles)), p[2])

(* setByChip *)
BuildChipCounterSets(trays) ==
  [c \in {ChipAt(trays, p) : p \in CounterPlaces(trays)} |->
     CounterSetAt(trays, CHOOSE p \in CounterPlaces(trays) : ChipAt(trays, p) = c)]

NoCounters == [c \in {} |-> 0]

(* The counters of each set, in the order of the sets' names. *)
CounterSets(layout) ==
  [k \in 1..Cardinality({layout[c] : c \in DOMAIN layout}) |->
     {c \in DOMAIN layout : layout[c] = k - 1}]

ChipsOf(bundles) == {bundles[k].mmio.chip : k \in DOMAIN bundles}

(* A mutant: a composite draws on the counter of its first chip. *)
ConsumptionOfFirst(layout, bundles) ==
  IF layout = NoCounters THEN {}
  ELSE {<<layout[c], c>> : c \in {bundles[1].mmio.chip}}

(* chipCounterConsumption: whether it succeeds, and what it declares. *)
CanConsume(layout, bundles) ==
  \/ layout = NoCounters
  \/ /\ ChipsOf(bundles) \subseteq DOMAIN layout
     /\ Cardinality({layout[c] : c \in ChipsOf(bundles)}) <= MaxSetsPerDevice

Consumption(layout, bundles) ==
  IF layout = NoCounters THEN {} ELSE {<<layout[c], c>> : c \in ChipsOf(bundles)}

-----------------------------------------------------------------------------
(* Devices.                                                                 *)

ChipCount(bundles) ==
  Cardinality(ChipsOf(bundles)) +
  Cardinality(UNION {bundles[k].remotes : k \in DOMAIN bundles})

Device(unit, layout) ==
  [name |-> unit.name,
   counters |-> Consumption(layout, unit.bundles),
   chipCount |-> ChipCount(unit.bundles)]

ChipDevice(bundle) == [name |-> <<"tt", bundle.mmio.chip>>, bundles |-> <<bundle>>]

TrayDevice(tray) == [name |-> <<"tt-tray", tray.trayID>>, bundles |-> tray.bundles]

MeshDevice(definition, members) ==
  [name |-> <<definition.slug, members[1].mmio.chip>>, bundles |-> members]

-----------------------------------------------------------------------------
(* Meshes.                                                                  *)

Slot(tray, loc) == [tray |-> tray, loc |-> loc]

(* The horizontal 4x2 groupings: a quadrant of one tray on top of one of   *)
(* the tray below it.                                                      *)
Mesh4x2(topTray, top, bottomTray, bottom) ==
  [slug |-> "4x2h", rows |-> 4, cols |-> 2,
   slots |-> [n \in 1..8 |-> IF n <= 4 THEN Slot(topTray, top[n])
                              ELSE Slot(bottomTray, bottom[n - 4])]]

BhGalaxyRevCMeshes ==
  << Mesh4x2(2, <<1, 2, 5, 6>>, 1, <<5, 6, 1, 2>>),
     Mesh4x2(2, <<3, 4, 7, 8>>, 1, <<7, 8, 3, 4>>),
     Mesh4x2(4, <<4, 3, 8, 7>>, 3, <<8, 7, 4, 3>>),
     Mesh4x2(4, <<2, 1, 6, 5>>, 3, <<6, 5, 2, 1>>) >>

(* A mutant: the locations are taken to come in the order of the chips. *)
LocationBaseOfFirst(bundles) == bundles[1].mmio.loc

(* The wire may number locations from any base; the lowest one is taken    *)
(* for the descriptor's 1.                                                 *)
LocationBase(bundles) ==
  LET locs == {bundles[k].mmio.loc : k \in DOMAIN bundles}
  IN CHOOSE l \in locs : \A m \in locs : l <= m

(* meshIndex.lookup: the bundles that serve a slot. *)
Lookup(bundles, slot) ==
  {k \in DOMAIN bundles :
     /\ bundles[k].mmio.tray = slot.tray
     /\ bundles[k].mmio.loc = slot.loc - 1 + LocationBase(bundles)}

(* newLinkSet: a connection counts in both directions. *)
LinkSet(h) == {{c[1], c[2]} : c \in h.connections}

(* A mutant: nobody is asked for the neighbour below. *)
NeighboursInRow(definition) ==
  LET positions == 0..(Len(definition.slots) - 1)
  IN {p \in positions \X positions :
        (p[1] % definition.cols) + 1 < definition.cols /\ p[2] = p[1] + 1}

(* unlinkedNeighbours: the pairs of positions it checks. *)
Neighbours(definition) ==
  LET positions == 0..(Len(definition.slots) - 1)
  IN {p \in positions \X positions :
        \/ (p[1] % definition.cols) + 1 < definition.cols /\ p[2] = p[1] + 1
        \/ (p[1] \div definition.cols) + 1 < definition.rows /\ p[2] = p[1] + definition.cols}

(* resolveMesh: the definition's bundles in mesh order, or nothing. *)
Resolves(definition, bundles, links) ==
  LET member(n) == bundles[CHOOSE k \in Lookup(bundles, definition.slots[n]) : TRUE]
  IN /\ \A n \in DOMAIN definition.slots : Lookup(bundles, definition.slots[n]) # {}
     /\ \A n \in DOMAIN definition.slots : member(n).mmio.board = "galaxy-blackhole"
     /\ \A p \in Neighbours(definition) :
          {member(p[1] + 1).mmio.chip, member(p[2] + 1).mmio.chip} \in links

ResolveMesh(definition, bundles) ==
  [n \in DOMAIN definition.slots |->
     bundles[CHOOSE k \in Lookup(bundles, definition.slots[n]) : TRUE]]

(* The definitions, by position, that yield a device. *)
ResolvedMeshes(h, bundles, layout) ==
  {m \in DOMAIN RevCMeshes :
     /\ bundles # <<>>
     /\ Resolves(RevCMeshes[m], bundles, LinkSet(h))
     /\ CanConsume(layout, ResolveMesh(RevCMeshes[m], bundles))}

(* buildMeshDevices: nothing without the quirk, nothing without links. *)
BuildMeshDevices(h, bundles, layout) ==
  LET resolved == Pick(RevCMeshes, ResolvedMeshes(h, bundles, layout))
  IN IF ~h.revC \/ LinkSet(h) = {} THEN <<>>
     ELSE [k \in DOMAIN resolved |->
             MeshDevice(resolved[k], ResolveMesh(resolved[k], bundles))]

-----------------------------------------------------------------------------
(* Slices.                                                                  *)

(* A mutant: the higher limit is used whatever the devices consume. *)
BuildSlicesUncapped(devices, counterSets) ==
  LET chunks == Chunk(devices, MaxDevices)
      sets == Chunk(counterSets, MaxSetsPerSlice)
  IN [k \in 1..(Len(chunks) + Len(sets)) |->
        IF k <= Len(chunks) THEN [devices |-> chunks[k], sharedCounters |-> <<>>]
        ELSE [devices |-> <<>>, sharedCounters |-> sets[k - Len(chunks)]]]

BuildSlices(devices, counterSets) ==
  LET max == IF counterSets = <<>> THEN MaxDevices ELSE MaxDevicesWithCounters
      chunks == IF devices = <<>> THEN <<devices>> ELSE Chunk(devices, max)
      sets == Chunk(counterSets, MaxSetsPerSlice)
  IN [k \in 1..(Len(chunks) + Len(sets)) |->
        IF k <= Len(chunks) THEN [devices |-> chunks[k], sharedCounters |-> <<>>]
        ELSE [devices |-> <<>>, sharedCounters |-> sets[k - Len(chunks)]]]

-----------------------------------------------------------------------------
NoHost == [asics |-> {}, connections |-> {}, revC |-> FALSE, base |-> 0]

Init ==
  /\ host = NoHost
  /\ unitByDevice = [n \in {} |-> <<>>]
  /\ slices = <<>>
  /\ updates = 0

(* The units of a host: chip devices first, then trays, then meshes. *)
Units(h, bundles, layout) ==
  LET trays == GroupBundlesByTray(bundles)
      held == Pick(trays, {k \in DOMAIN trays : CanConsume(layout, trays[k].bundles)})
  IN [k \in DOMAIN bundles |-> ChipDevice(bundles[k])]
     \o (IF TrayDevices THEN [k \in DOMAIN held |-> TrayDevice(held[k])] ELSE <<>>)
     \o (IF MeshDevices THEN BuildMeshDevices(h, bundles, layout) ELSE <<>>)

(* Composite devices bring the counters with them. *)
CounterLayout(bundles) ==
  IF TrayDevices \/ MeshDevices
  THEN BuildChipCounterSets(GroupBundlesByTray(bundles))
  ELSE NoCounters

UnitByDevice(units) ==
  [n \in {units[k].name : k \in DOMAIN units} |->
     units[CHOOSE k \in DOMAIN units : units[k].name = n].bundles]

DeviceList(units, layout) == [k \in DOMAIN units |-> Device(units[k], layout)]

(* applyTopology: the whole publication, derived from one topology. *)
ApplyTopology(h) ==
  \E bundles \in {BundleHostASICs(h.asics)} :
  \E layout \in {CounterLayout(bundles)} :
  \E units \in {Units(h, bundles, layout)} :
    /\ updates < MaxUpdates
    /\ updates' = updates + 1
    /\ host' = h
    /\ unitByDevice' = UnitByDevice(units)
    /\ slices' = BuildSlices(DeviceList(units, layout), CounterSets(layout))

Next == \E h \in Hosts : ApplyTopology(h)

Spec == Init /\ [][Next]_vars

-----------------------------------------------------------------------------
Published == UNION {{slices[k].devices[j] : j \in DOMAIN slices[k].devices} : k \in DOMAIN slices}

(* ApplyConfig: the device nodes a container gets for a device. *)
ApplyConfig(name) ==
  {unitByDevice[name][k].mmio.node : k \in DOMAIN unitByDevice[name]}

(* Every unit is a list of bundles anchored on an MMIO chip of the host,   *)
(* so ApplyConfig never meets the non-MMIO chip it refuses.                *)
TypeOK ==
  /\ host \in Hosts \cup {NoHost}
  /\ updates \in 0..MaxUpdates
  /\ \A n \in DOMAIN unitByDevice :
       /\ unitByDevice[n] # <<>>
       /\ \A k \in DOMAIN unitByDevice[n] : unitByDevice[n][k].mmio \in Mmio(host.asics)

(* Each ASIC that a container could reach belongs to exactly one chip      *)
(* device, and one on a tray without an MMIO chip to none; a tray device   *)
(* counts each ASIC of its tray once.                                      *)
EveryAsicOnce ==
  /\ \A a \in host.asics :
       Cardinality({n \in DOMAIN unitByDevice :
         n[1] = "tt" /\ (a = unitByDevice[n][1].mmio \/ a \in unitByDevice[n][1].remotes)})
       = IF Mmio(OnTray(host.asics, a.tray)) = {} THEN 0 ELSE 1
  /\ \A d \in Published :
       d.name[1] = "tt-tray" => d.chipCount = Cardinality(OnTray(host.asics, d.name[2]))

(* The counters declare exactly the overlap of the devices: two devices    *)
(* draw on a common counter, which has one unit, if and only if a          *)
(* container holding one would share a device node with a container        *)
(* holding the other.                                                      *)
CountersDeclareOverlap ==
  \A d, e \in Published : d.name # e.name =>
    (d.counters \cap e.counters = {} <=>
       ApplyConfig(d.name) \cap ApplyConfig(e.name) = {})

(* The apiserver accepts the counters: no set is empty or over-full, each  *)
(* counter a device consumes is in the set it names, and no device draws   *)
(* on too many sets.                                                       *)
CountersAreWellFormed ==
  LET carriers == {k \in DOMAIN slices : slices[k].sharedCounters # <<>>}
      sets == UNION {{slices[k].sharedCounters[j] : j \in DOMAIN slices[k].sharedCounters} :
                       k \in carriers}
  IN /\ \A s \in sets : Cardinality(s) \in 1..MaxCountersPerSet
     /\ \A s, t \in sets : s # t => s \cap t = {}
     /\ \A d \in Published :
          /\ \A c \in d.counters : \E s \in sets : c[2] \in s
          /\ Cardinality({c[1] : c \in d.counters}) <= MaxSetsPerDevice
     /\ \A d, e \in Published : \A c \in d.counters, f \in e.counters :
          c[1] = f[1] <=> \E s \in sets : {c[2], f[2]} \subseteq s

(* Packing counters a tray at a time costs no tray its device: a tray is   *)
(* published exactly when its chips fit the sets one device may draw on,   *)
(* wherever its neighbours' counters end.                                  *)
TraysAreKept ==
  TrayDevices =>
    \A a \in Mmio(host.asics) :
      <<"tt-tray", a.tray>> \in DOMAIN unitByDevice
        <=> Cardinality(Mmio(OnTray(host.asics, a.tray)))
              <= MaxSetsPerDevice * MaxCountersPerSet

(* Every device is published exactly once, no slice exceeds the limits of  *)
(* the API or mixes devices with counters, and a host without usable ASICs *)
(* still has a slice.                                                      *)
SlicesFit ==
  /\ {d.name : d \in Published} = DOMAIN unitByDevice
  /\ \A k, l \in DOMAIN slices :
       \A i \in DOMAIN slices[k].devices, j \in DOMAIN slices[l].devices :
         slices[k].devices[i].name = slices[l].devices[j].name => k = l /\ i = j
  /\ \A k \in DOMAIN slices :
       /\ slices[k].devices = <<>> \/ slices[k].sharedCounters = <<>>
       /\ Len(slices[k].sharedCounters) <= MaxSetsPerSlice
       /\ Len(slices[k].devices) <=
            IF \A d \in Published : d.counters = {} THEN MaxDevices ELSE MaxDevicesWithCounters
  /\ updates > 0 => slices # <<>>

-----------------------------------------------------------------------------
(* Meshes, against the picture they describe.                               *)

(* The bundles are the chips in the places the definition lists. *)
Serves(bundles, definition) ==
  /\ Len(bundles) = Len(definition.slots)
  /\ \A n \in DOMAIN bundles :
       /\ bundles[n].mmio.tray = definition.slots[n].tray
       /\ bundles[n].mmio.loc + 1 = definition.slots[n].loc + host.base

(* The rectangle a definition draws, row by row. *)
Cells(definition) == (1..definition.rows) \X (1..definition.cols)
Index(definition, c) == (c[1] - 1) * definition.cols + c[2]
Adjacent(c, d) == \/ c[1] = d[1] /\ c[2] + 1 = d[2]
                  \/ c[2] = d[2] /\ c[1] + 1 = d[1]

Linked(a, b) ==
  <<a.chip, b.chip>> \in host.connections \/ <<b.chip, a.chip>> \in host.connections

(* The bundles are chips of the right board, and those side by side in the *)
(* rectangle are linked.                                                   *)
IsRectangle(bundles, definition) ==
  /\ Len(bundles) = definition.rows * definition.cols
  /\ \A n \in DOMAIN bundles : bundles[n].mmio.board = "galaxy-blackhole"
  /\ \A c, d \in Cells(definition) : Adjacent(c, d) =>
       Linked(bundles[Index(definition, c)].mmio, bundles[Index(definition, d)].mmio)

(* All chips are there, on the right board, and chips side by side in the  *)
(* rectangle are linked.                                                   *)
IsCabled(definition) ==
  LET at(n) == {a \in Mmio(host.asics) :
                  /\ a.tray = definition.slots[n].tray
                  /\ a.loc + 1 = definition.slots[n].loc + host.base
                  /\ a.board = "galaxy-blackhole"}
  IN /\ \A n \in DOMAIN definition.slots : at(n) # {}
     /\ \A c, d \in Cells(definition) : Adjacent(c, d) =>
          \E a \in at(Index(definition, c)), b \in at(Index(definition, d)) : Linked(a, b)

(* The lowest location a host reports for an MMIO chip is that of a first  *)
(* place.                                                                  *)
ReportsBase(h) ==
  Mmio(h.asics) # {} =>
    \E a \in Mmio(h.asics) : a.loc = h.base /\ \A b \in Mmio(h.asics) : a.loc <= b.loc

(* A mesh is published exactly when the host is a rev C, all of its chips  *)
(* are separately allocatable and every two chips that are neighbours in   *)
(* its rectangle are connected; on a host that reports a first place, and  *)
(* for limits under which the chips of a mesh never need more counter sets *)
(* than a device may draw on.                                              *)
MeshesAreCabled ==
  ReportsBase(host) => \A m \in DOMAIN RevCMeshes :
    (\E n \in DOMAIN unitByDevice :
       n[1] = RevCMeshes[m].slug /\ Serves(unitByDevice[n], RevCMeshes[m]))
      <=> MeshDevices /\ host.revC /\ IsCabled(RevCMeshes[m])

(* No other mesh is published: whatever locations the host reports, what   *)
(* carries the name of a grouping is a linked rectangle of its shape, and  *)
(* on a host that reports a first place it is the chips of that grouping,  *)
(* not their neighbours.                                                   *)
MeshesAreRectangles ==
  \A n \in DOMAIN unitByDevice : n[1] \notin {"tt", "tt-tray"} =>
    \E m \in DOMAIN RevCMeshes :
      /\ n[1] = RevCMeshes[m].slug
      /\ IsRectangle(unitByDevice[n], RevCMeshes[m])
      /\ ReportsBase(host) => Serves(unitByDevice[n], RevCMeshes[m])
=============================================================================
