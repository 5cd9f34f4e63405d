---------------------------- MODULE MCExclusion -----------------------------
(* Exclusion over what Profile publishes for a small host, for TLC.         *)
EXTENDS Exclusion, TLC

(* Chips 1 and 2 on tray 1 and chip 3 on tray 2; a mesh joins the trays    *)
(* while chips 1 and 3 are cabled.  The host changes by losing that cable  *)
(* and coming back with the nodes of chips 1 and 2 swapped.                *)
EitherHost == {"cabled", "changed"}
OneHost == {"cabled"}
NodeOf(h, chip) == IF h = "changed" /\ chip \in {1, 2} THEN 3 - chip ELSE chip

ChipNames == {<<"tt", 1>>, <<"tt", 2>>, <<"tt", 3>>}
TrayNames == {<<"tt-tray", 1>>, <<"tt-tray", 2>>}
MeshNames == {<<"1x2", 1>>}

Covers(name) ==
  CASE name \in ChipNames -> {name[2]}
    [] name = <<"tt-tray", 1>> -> {1, 2}
    [] name = <<"tt-tray", 2>> -> {3}
    [] name = <<"1x2", 1>> -> {1, 3}

MCDevices == ChipNames \cup TrayNames \cup MeshNames
MCNodes == 1..3
MCCounters == {<<0, 1>>, <<0, 2>>, <<1, 3>>}

MCPublicationOf ==
  [h \in Hosts |-> [o \in Options |->
     [n \in ChipNames \cup (IF o.trays THEN TrayNames ELSE {})
                      \cup (IF o.meshes /\ h = "cabled" THEN MeshNames ELSE {}) |->
        [nodes |-> {NodeOf(h, c) : c \in Covers(n)},
         counters |-> IF o = ChipsOnly THEN {}
                      ELSE {x \in MCCounters : x[2] \in Covers(n)}]]]]

-----------------------------------------------------------------------------
(* The table is what Profile computes.                                      *)

Asic(h, chip, tray, loc) ==
  [chip |-> chip, tray |-> tray, loc |-> loc, mmio |-> TRUE,
   board |-> "galaxy-blackhole", node |-> NodeOf(h, chip)]

Topology(h) ==
  [asics |-> {Asic(h, 1, 1, 1), Asic(h, 2, 1, 2), Asic(h, 3, 2, 1)},
   connections |-> IF h = "cabled" THEN {<<1, 3>>} ELSE {},
   revC |-> TRUE, base |-> 1]

P(trays, meshes) == INSTANCE Profile WITH
  TrayDevices <- trays, MeshDevices <- meshes,
  RevCMeshes <- <<[slug |-> "1x2", rows |-> 1, cols |-> 2,
                   slots |-> <<[tray |-> 1, loc |-> 1], [tray |-> 2, loc |-> 1]>>]>>,
  MaxCountersPerSet <- 2, MaxSetsPerDevice <- 2, MaxDevices <- 4,
  MaxDevicesWithCounters <- 4, MaxSetsPerSlice <- 2, MaxUpdates <- 1,
  host <- None, unitByDevice <- None, slices <- None, updates <- 0

ASSUME PublishedByProfile ==
  \A h \in Hosts, o \in Options :
    \E bundles \in {P(o.trays, o.meshes)!BundleHostASICs(Topology(h).asics)} :
    \E layout \in {P(o.trays, o.meshes)!CounterLayout(bundles)} :
    \E list \in {P(o.trays, o.meshes)!Units(Topology(h), bundles, layout)} :
      /\ {list[k].name : k \in DOMAIN list} = DOMAIN PublicationOf[h][o]
      /\ \A k \in DOMAIN list : PublicationOf[h][o][list[k].name] =
           [nodes |-> {list[k].bundles[j].mmio.node : j \in DOMAIN list[k].bundles},
            counters |-> P(o.trays, o.meshes)!Consumption(layout, list[k].bundles)]

-----------------------------------------------------------------------------
AllOptions == [trays |-> TRUE, meshes |-> TRUE]
AllOrNothing == {AllOptions, ChipsOnly}
Everything == {AllOptions}
=============================================================================
