----------------------------- MODULE ClaimStore -----------------------------
(***************************************************************************)
(* What DeviceState promises the kubelet about prepared claims: a store    *)
(* with one record per claim, in which Prepare and Unprepare take effect   *)
(* at once.  There are no processes, files, crashes, failed operations or  *)
(* batches here; the one imperfection that shows is StartOver.             *)
(***************************************************************************)

CONSTANTS
  Claims,       \* claim UIDs
  Edits,        \* container edits of one device
  Allocations,  \* what the scheduler may allocate to a claim
  None          \* no record

VARIABLES
  record,      \* the prepared devices of each claim, or None
  forgotten,   \* claims whose record was lost with an unreadable store
  kube,        \* what the kubelet is doing with each claim
  allocation   \* the devices the scheduler allocated to each claim

vars == <<record, forgotten, kube, allocation>>

Init ==
  /\ record = [c \in Claims |-> None]
  /\ forgotten = {}
  /\ kube = [c \in Claims |-> "none"]
  /\ allocation = [c \in Claims |-> {}]

Want(c, devices) ==
  /\ kube[c] = "none"
  /\ kube' = [kube EXCEPT ![c] = "pending"]
  /\ allocation' = [allocation EXCEPT ![c] = devices]
  /\ UNCHANGED <<record, forgotten>>

(* Prepare takes effect: once per claim, for exactly its allocation. *)
Record(c, edits) ==
  /\ record[c] = None
  /\ kube[c] # "none"
  /\ record' = [record EXCEPT ![c] = edits]
  /\ forgotten' = forgotten \ {c}
  /\ UNCHANGED <<kube, allocation>>

(* The kubelet learns that claims are prepared, which they are. *)
Prepared(claims) ==
  /\ \A c \in claims : kube[c] = "pending" /\ (record[c] # None \/ c \in forgotten)
  /\ kube' = [c \in Claims |-> IF c \in claims THEN "running" ELSE kube[c]]
  /\ UNCHANGED <<record, forgotten, allocation>>

(* After a reboot the kubelet prepares the claims of its pods again. *)
Reboot ==
  /\ kube' = [c \in Claims |-> IF kube[c] = "running" THEN "pending" ELSE kube[c]]
  /\ UNCHANGED <<record, forgotten, allocation>>

Release(c) ==
  /\ kube[c] \in {"pending", "running"}
  /\ kube' = [kube EXCEPT ![c] = "releasing"]
  /\ UNCHANGED <<record, forgotten, allocation>>

(* Unprepare takes effect, for a claim being released only ... *)
Forget(c) ==
  /\ kube[c] = "releasing"
  /\ record' = [record EXCEPT ![c] = None]
  /\ UNCHANGED <<forgotten, kube, allocation>>

(* ... or it replaces a store it cannot read by an empty one. *)
StartOver ==
  /\ record' = [c \in Claims |-> None]
  /\ forgotten' = forgotten \cup {c \in Claims : record[c] # None}
  /\ UNCHANGED <<kube, allocation>>

(* The kubelet learns that claims are released, and nothing of them is     *)
(* left.                                                                   *)
Released(claims) ==
  /\ \A c \in claims : kube[c] = "releasing" /\ record[c] = None
  /\ kube' = [c \in Claims |-> IF c \in claims THEN "none" ELSE kube[c]]
  /\ allocation' = [c \in Claims |-> IF c \in claims THEN {} ELSE allocation[c]]
  /\ forgotten' = forgotten \ claims
  /\ UNCHANGED record

Next ==
  \/ \E c \in Claims :
       \/ \E devices \in Allocations : Want(c, devices)
       \/ \E edits \in [allocation[c] -> Edits] : Record(c, edits)
       \/ Release(c)
       \/ Forget(c)
  \/ \E claims \in SUBSET Claims : Prepared(claims) \/ Released(claims)
  \/ Reboot
  \/ StartOver

Spec == Init /\ [][Next]_vars
=============================================================================
