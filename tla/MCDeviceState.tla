--------------------------- MODULE MCDeviceState ---------------------------
(* Small instances of DeviceState for TLC.                                  *)
EXTENDS DeviceState, FiniteSets, TLC

CONSTANTS c1, c2, d1, d2, n1, n2

(* d1 keeps its name and changes its node; d2 comes and goes. *)
ChangingTopologies == { (d1 :> n1) @@ (d2 :> n2), d1 :> n1, d1 :> n2 }
SteadyTopologies == { d1 :> n1 }
VanishingTopologies == { d1 :> n1, d2 :> n2 }
RenumberedTopologies == { d1 :> n1, d1 :> n2 }

OneOrBoth == { {d1}, {d1, d2} }
OnlyFirst == { {d1} }

(* How often the events outside the driver happen. *)
OneOfEach == [e \in Events |-> 1]
Happening(S) == [e \in Events |-> IF e \in S THEN 1 ELSE 0]
Undisturbed == Happening({})
RebootOnly == Happening({"reboot"})
LiveEvents == Happening({"crash", "write", "read", "lost", "topology"})

(* One process with no more than two kinds of event, or two processes that *)
(* overlap, with crashes and failed writes, on a host that stays the same. *)
Kinds == {e \in Events : used[e] > 0}
FewEvents ==
  \/ /\ Cardinality({i \in Instances : pc[i] # "down"}) <= 1
     /\ Cardinality(Kinds) <= 2
  \/ /\ Kinds \subseteq {"crash", "write"}
     /\ \A c \in Claims : allocation[c] \subseteq {d1}
     /\ \A i \in Instances : units[i] \in SteadyTopologies \cup {NoUnits}

Symmetry == Permutations(Claims) \cup Permutations(Instances)
=============================================================================
