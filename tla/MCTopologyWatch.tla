--------------------------- MODULE MCTopologyWatch --------------------------
(* Small instances of TopologyWatch for TLC.                                *)
EXTENDS TopologyWatch, FiniteSets, TLC

CONSTANTS t1, t2, t3, r1, r2

(* t1 and t2 differ only in what is not published. *)
MCResourcesOf == (t1 :> r1) @@ (t2 :> r1) @@ (t3 :> r2)

Happening(S) == [e \in Events |-> IF e \in S THEN 1 ELSE 0]

AnyTrouble == Happening(Events)
LiveTroubles == Happening({"change", "stop", "timeout", "signal"})
LateTimer == Happening({"timeout"})

(* No more than two kinds of event in a behaviour, besides a change. *)
FewTroubles == Cardinality({e \in Events \ {"change"} : used[e] > 0}) <= 2
=============================================================================
