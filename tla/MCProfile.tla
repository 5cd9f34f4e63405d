----------------------------- MODULE MCProfile ------------------------------
(* Small hosts, and the Blackhole Galaxy rev C, for TLC.                    *)
EXTENDS Profile, TLC

Asic(chip, tray, loc, mmio, board) ==
  [chip |-> chip, tray |-> tray, loc |-> loc, mmio |-> mmio, board |-> board, node |-> chip]

-----------------------------------------------------------------------------
(* Two trays and one 2x2 mesh over their first places; tray 1 has a third.  *)

Square == <<[slug |-> "2x2", rows |-> 2, cols |-> 2,
             slots |-> <<Slot(1, 1), Slot(1, 2), Slot(2, 1), Slot(2, 2)>>]>>

Places == {<<1, 1>>, <<1, 2>>, <<1, 3>>, <<2, 1>>, <<2, 2>>}

(* The chips are numbered with the places or against them. *)
Chip(p, up) == IF up THEN 3 * p[1] + p[2] ELSE 9 - (3 * p[1] + p[2])

Cables == {<<<<1, 1>>, <<1, 2>>>>, <<<<2, 1>>, <<2, 2>>>>,
           <<<<1, 1>>, <<2, 1>>>>, <<<<2, 2>>, <<1, 2>>>>}

Wired(cables, up) == {<<Chip(c[1], up), Chip(c[2], up)>> : c \in cables}

(* Any population of the places. *)
Populations ==
  UNION {{[asics |-> {Asic(Chip(p, up), p[1], p[2], kind[p] = "mmio", "galaxy-blackhole") :
                        p \in DOMAIN kind},
           connections |-> Wired(Cables, up), revC |-> TRUE, base |-> 1] :
            kind \in UNION {[P -> {"mmio", "remote"}] : P \in SUBSET Places}} :
         up \in BOOLEAN}

(* A full host with any cabling, of either revision; or with a chip of     *)
(* another board type.                                                     *)
Cablings ==
  {[asics |-> {Asic(Chip(p, TRUE), p[1], p[2], TRUE, "galaxy-blackhole") : p \in Places},
    connections |-> Wired(L, TRUE), revC |-> q, base |-> 1] : L \in SUBSET Cables, q \in BOOLEAN}

OtherBoards ==
  {[asics |-> {Asic(Chip(p, TRUE), p[1], p[2], TRUE,
                    IF p = o THEN "p150" ELSE "galaxy-blackhole") : p \in Places},
    connections |-> Wired(Cables, TRUE), revC |-> TRUE, base |-> 1] : o \in Places}

-----------------------------------------------------------------------------
(* Three trays of MMIO chips and a remote one each.  With the limits of    *)
(* the API, 32 counters to a set and two sets to a device, a tray may      *)
(* share a set, fill one, fill two, or be too big, and the host may need   *)
(* more sets, and more devices, than a slice takes.                        *)

TraysOf(sizes) ==
  [asics |-> UNION {{Asic(100 * t + l, t, l, l > 0, "p150") : l \in 0..sizes[t]} :
                      t \in DOMAIN sizes},
   connections |-> {}, revC |-> FALSE, base |-> 0]

Sizes == {0, 1, 31, 32, 64, 65}
PackedHosts == {TraysOf(<<a, b, c>>) : a \in Sizes, b \in Sizes, c \in Sizes}

-----------------------------------------------------------------------------
(* The Blackhole Galaxy rev C: four trays of 2x4 chips.                     *)

GalaxyPlaces == (1..4) \X (1..8)
GalaxyChip(p) == 8 * (p[1] - 1) + p[2] - 1

(* Each tray is a grid of its own; the trays of a pair meet at places 5-8. *)
GalaxyCables ==
  {<<p, q>> \in GalaxyPlaces \X GalaxyPlaces :
     \/ p[1] = q[1] /\ p[2] + 1 = q[2] /\ p[2] # 4
     \/ p[1] = q[1] /\ p[2] + 4 = q[2]
     \/ <<p[1], q[1]>> \in {<<2, 1>>, <<4, 3>>} /\ p[2] = q[2] /\ p[2] > 4}

(* remote: the places of chips without a device node of their own. *)
Galaxy(places, remote, cables, first) ==
  [asics |-> {Asic(GalaxyChip(p), p[1], p[2] - 1 + first, p \notin remote, "galaxy-blackhole") :
                p \in places},
   connections |-> {<<GalaxyChip(c[1]), GalaxyChip(c[2])>> : c \in cables},
   revC |-> TRUE, base |-> first]

(* At most one chip or one cable is missing, or one chip is remote. *)
Galaxies ==
  UNION {{Galaxy(GalaxyPlaces, {}, GalaxyCables, f)}
         \cup {Galaxy(GalaxyPlaces \ {p}, {}, GalaxyCables, f) : p \in GalaxyPlaces}
         \cup {Galaxy(GalaxyPlaces, {p}, GalaxyCables, f) : p \in GalaxyPlaces}
         \cup {Galaxy(GalaxyPlaces, {}, GalaxyCables \ {c}, f) : c \in GalaxyCables} : f \in 0..1}

(* No chip, or no MMIO chip, is in a first place: every slot resolves to   *)
(* the chip beside the one it names.                                       *)
FirstPlaces == {p \in GalaxyPlaces : p[2] = 1}
ShiftedGalaxies ==
  UNION {{Galaxy(GalaxyPlaces \ FirstPlaces, {}, GalaxyCables, f),
          Galaxy(GalaxyPlaces, FirstPlaces, GalaxyCables, f)} : f \in 0..1}

AllHosts == Populations \cup Cablings \cup OtherBoards \cup PackedHosts \cup Galaxies
            \cup ShiftedGalaxies

(* The square for the small hosts, with the groupings of the Galaxy. *)
AllMeshes == Square \o BhGalaxyRevCMeshes
=============================================================================
