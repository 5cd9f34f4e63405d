----------------------------- MODULE Exclusion -----------------------------
(***************************************************************************)
(* What the published devices are for: no chip in two claims' hands.  A    *)
(* chip is covered by its own device and by the tray and the meshes it     *)
(* belongs to; shared counters are all that tells the scheduler so.  This  *)
(* module composes the driver process (Lifecycle) with the pool it         *)
(* publishes, the apiserver that stores it, and the scheduler and kubelet  *)
(* that use it, over restarts, changed settings and changed topologies.    *)
(*                                                                         *)
(* The devices of a topology are abstracted to the nodes each resolves to  *)
(* and the counters each consumes; Profile says how they are computed.     *)
(***************************************************************************)
EXTENDS Lifecycle

CONSTANTS
  Claims,         \* claims for one device each, without admin access
  Devices,        \* device names
  Nodes,          \* device nodes on the host
  Counters,       \* shared counters, each of value 1
  Hosts,          \* the topologies the agent may report
  PublicationOf,  \* host, options -> what applyTopology makes of them
  None            \* no device, or no topology yet

Offers == [nodes : SUBSET Nodes, counters : SUBSET Counters]
IsPublication(pub) == DOMAIN pub \subseteq Devices /\ pub \in [DOMAIN pub -> Offers]

Overlap(pub, d, e) == pub[d].nodes \cap pub[e].nodes # {}

(* Two devices of a pool that share a node share a counter. *)
Declared(pub) ==
  \A d, e \in DOMAIN pub :
    d # e /\ Overlap(pub, d, e) => pub[d].counters \cap pub[e].counters # {}

ASSUME PublicationAssumption ==
  \A h \in Hosts, o \in Options : IsPublication(PublicationOf[h][o])

(* What the model of Profile establishes: the counters declare the overlap *)
(* of composite devices, and chips do not overlap.                         *)
ASSUME CountersAssumption ==
  \A h \in Hosts :
    /\ \A o \in Options : Declared(PublicationOf[h][o])
    /\ \A d, e \in DOMAIN PublicationOf[h][ChipsOnly] :
         d # e => ~Overlap(PublicationOf[h][ChipsOnly], d, e)

ASSUME AbsenceAssumption ==
  None \notin Devices /\ \A h \in Hosts, o \in Options : PublicationOf[h][o] # None

VARIABLES
  units,    \* Profile.unitByDevice of the process, None before it has one
  offer,    \* the resources deviceWatch.run is sending, or None
  alloc,    \* the resources the driver received last, None before the first
  pool,     \* the ResourceSlices of the node, as stored
  held,     \* the device allocated to each claim, or None
  granted,  \* the nodes each claim was prepared with
  moved     \* claims whose device was withdrawn, or covers other nodes now

exclusionVars == <<units, offer, alloc, pool, held, granted, moved>>
vars == <<lifecycleVars, exclusionVars>>

Allocated == {c \in Claims : held[c] # None}

(* The allocated claims whose device is not in the publication as it is in *)
(* the pool.                                                               *)
Disturbs(pub) ==
  {c \in Allocated :
     ~( /\ held[c] \in DOMAIN pub \cap DOMAIN pool
        /\ pub[held[c]].nodes = pool[held[c]].nodes )}

Init ==
  /\ LifecycleInit
  /\ units = None /\ offer = None /\ alloc = None
  /\ pool = [d \in {} |-> None]
  /\ held = [c \in Claims |-> None]
  /\ granted = [c \in Claims |-> {}]
  /\ moved = {}

-----------------------------------------------------------------------------
(* The driver.                                                              *)

(* applyTopology: the mapping ApplyConfig uses is replaced. *)
ApplyTopology(h) ==
  /\ units' = PublicationOf[h][opts]
  /\ moved' = moved \cup Disturbs(units')
  /\ UNCHANGED <<pool, held, granted>>

(* waitForInitialDevices receives the first resources. *)
FirstTopology(h) ==
  /\ InitialDevices
  /\ ApplyTopology(h)
  /\ alloc' = units' /\ UNCHANGED offer

(* deviceWatch.run converts one topology at a time: the next one waits     *)
(* until the driver has taken the resources of the last.                   *)
LaterTopology(h) ==
  /\ phase \in {"state", "helper", "health", "publish", "running"}
  /\ offer = None
  /\ Disturbed
  /\ ApplyTopology(h)
  /\ offer' = units' /\ UNCHANGED alloc
  /\ UNCHANGED <<cluster, phase, opts, waited, ctx, serving>>

(* republishDevices, which runs once NewDriver has published, takes them:  *)
(* SetResources.                                                           *)
SetResources ==
  /\ phase = "running"
  /\ offer # None
  /\ alloc' = offer
  /\ offer' = None
  /\ UNCHANGED <<lifecycleVars, units, pool, held, granted, moved>>

(* The apiserver stores the slices, without counters if it drops them. *)
Stored(pub) ==
  [d \in DOMAIN pub |->
     [pub[d] EXCEPT !.counters = IF gate THEN pub[d].counters ELSE {}]]

(* What is published is what the driver received, which the mapping may be *)
(* ahead of.                                                               *)
Publish ==
  /\ pool' = Stored(alloc)
  /\ moved' = moved \cup Disturbs(alloc)
  /\ UNCHANGED <<units, offer, alloc, held, granted>>

FirstPublish == PublishResources /\ Publish

(* republishDevices publishes resources that differ from the last ones. *)
Republish ==
  /\ phase = "running"
  /\ pool # Stored(alloc)
  /\ Publish
  /\ UNCHANGED lifecycleVars

(* The other steps of the process; what it knows ends with it. *)
OtherStep ==
  /\ Boot \/ Shutdown \/ Check \/ Trouble \/ Surroundings
  /\ IF phase' = "down" THEN units' = None /\ offer' = None /\ alloc' = None
     ELSE UNCHANGED <<units, offer, alloc>>
  /\ UNCHANGED <<pool, held, granted, moved>>

-----------------------------------------------------------------------------
(* The scheduler and the kubelet.                                           *)

(* A device is free unless it is allocated, or a counter it consumes is    *)
(* consumed by an allocated device of the pool.  A device that is not in   *)
(* the pool any more consumes nothing.                                     *)
Free(d) ==
  \A c \in Allocated :
    /\ held[c] # d
    /\ held[c] \in DOMAIN pool => pool[held[c]].counters \cap pool[d].counters = {}

Allocate(c, d) ==
  /\ held[c] = None
  /\ d \in DOMAIN pool
  /\ Free(d)
  /\ held' = [held EXCEPT ![c] = d]
  /\ moved' = IF units = None THEN moved
              ELSE IF d \in DOMAIN units /\ units[d].nodes = pool[d].nodes THEN moved
              ELSE moved \cup {c}
  /\ UNCHANGED <<lifecycleVars, units, offer, alloc, pool, granted>>

(* A mutant: a device that is not in the mapping resolves to no real node. *)
PrepareUnchecked(c) ==
  /\ sockets
  /\ c \in Allocated
  /\ granted[c] = {}
  /\ granted' = [granted EXCEPT ![c] = IF held[c] \in DOMAIN units
                                      THEN units[held[c]].nodes ELSE {None}]
  /\ UNCHANGED <<lifecycleVars, units, offer, alloc, pool, held, moved>>

(* PrepareResourceClaims hands out the nodes the device has now; the       *)
(* device has to be allocatable, and in the mapping.                       *)
Prepare(c) ==
  /\ sockets
  /\ c \in Allocated
  /\ granted[c] = {}
  /\ held[c] \in DOMAIN alloc \cap DOMAIN units
  /\ granted' = [granted EXCEPT ![c] = units[held[c]].nodes]
  /\ UNCHANGED <<lifecycleVars, units, offer, alloc, pool, held, moved>>

(* The pod is gone, the claim unprepared if it was prepared, and freed. *)
Release(c) ==
  /\ c \in Allocated
  /\ granted[c] = {} \/ sockets
  /\ held' = [held EXCEPT ![c] = None]
  /\ granted' = [granted EXCEPT ![c] = {}]
  /\ moved' = moved \ {c}
  /\ UNCHANGED <<lifecycleVars, units, offer, alloc, pool>>

-----------------------------------------------------------------------------
Next ==
  \/ \E h \in Hosts : FirstTopology(h) \/ LaterTopology(h)
  \/ SetResources
  \/ FirstPublish
  \/ Republish
  \/ OtherStep
  \/ \E c \in Claims : Prepare(c) \/ Release(c) \/ \E d \in Devices : Allocate(c, d)

Spec == Init /\ [][Next]_vars

(* The fairness of Lifecycle, on the composed steps. *)
FairSpec ==
  /\ Spec
  /\ WF_vars(Boot /\ OtherStep)
  /\ WF_vars(\E h \in Hosts : FirstTopology(h))
  /\ WF_vars(FirstPublish)
  /\ WF_vars(Shutdown /\ OtherStep)
  /\ WF_vars(Check /\ OtherStep)
  /\ WF_vars(ProbePeriod /\ OtherStep)

-----------------------------------------------------------------------------
(* The process, the pool and the claims keep their types: what is prepared *)
(* is what the topology resolves an allocated device to.                   *)
TypeOK ==
  /\ LifecycleTypeOK
  /\ \A pub \in {units, offer, alloc} : pub = None \/ IsPublication(pub)
  /\ IsPublication(pool)
  /\ held \in [Claims -> Devices \cup {None}]
  /\ granted \in [Claims -> SUBSET Nodes]
  /\ moved \in SUBSET Claims

(* The pool never offers two devices that share a node without a counter   *)
(* that says so: the counters of sharedCountersSupported's dry run survive *)
(* exactly when those of the slices do, and with no such answer only chips *)
(* are published, whatever the flags, the gate and earlier processes say.  *)
PoolIsDeclared == Declared(pool)

(* Two claims never have the same node while their devices stay published  *)
(* as they were when allocated -- by this process or the next, with these  *)
(* settings or others.                                                     *)
Exclusive ==
  \A c, e \in Claims \ moved : c # e => granted[c] \cap granted[e] = {}

(* "The views are mutually exclusive wherever they overlap": two claims    *)
(* never have the same node.                                               *)
AlwaysExclusive ==
  \A c, e \in Claims : c # e => granted[c] \cap granted[e] = {}
=============================================================================
