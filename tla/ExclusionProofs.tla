-------------------------- MODULE ExclusionProofs --------------------------
(***************************************************************************)
(* No chip in two claims' hands, for any host, any flags and any number of *)
(* claims, restarts and failures.                                          *)
(*                                                                         *)
(* The argument has two halves.  The process only goes beyond chips when   *)
(* the gate is open (OptionsAreBacked), so whatever it stores declares its *)
(* overlaps; and a claim whose device did not move has it from a pool in   *)
(* which it was free (HoldersAreApart), and from a process that resolves   *)
(* it to the same nodes (UnitsAgree).                                      *)
(***************************************************************************)
EXTENDS Exclusion, TLAPS

-----------------------------------------------------------------------------
(* The process.                                                             *)

(* Only one answer can come in once the context is cancelled. *)
FailsAreBounded == ctx = "live" \/ check # "none" => fails < FailureThreshold

(* A process that offers composite devices has seen the gate open. *)
OptionsAreBacked == opts # ChipsOnly => gate

(* The process has a mapping, and may serve. *)
Equipped == {"state", "helper", "health", "publish", "running"} \cup Stopping

SocketsAreLate == sockets => phase \in Equipped

LInv == LifecycleTypeOK /\ FailsAreBounded /\ OptionsAreBacked /\ SocketsAreLate

LEMMA ChipsOnlyIsAnOption == ChipsOnly \in Options
BY DEF ChipsOnly, Options

LEMMA LifecycleInitOK == LifecycleInit => LInv
<1> SUFFICES ASSUME LifecycleInit PROVE LInv
  OBVIOUS
<1>1. LifecycleTypeOK
  <2>1. waited \in 0 .. InitialDevicesTimeout /\ fails \in 0 .. FailureThreshold
        /\ troubles \in 0 .. MaxTroubles
    BY PeriodsAssumption, TroublesAssumption DEF LifecycleInit
  <2> QED
    BY <2>1, ChipsOnlyIsAnOption, Zenon DEF LifecycleInit, LifecycleTypeOK, Phases
<1>2. FailsAreBounded
  BY PeriodsAssumption DEF LifecycleInit, FailsAreBounded
<1>3. OptionsAreBacked /\ SocketsAreLate
  BY DEF LifecycleInit, OptionsAreBacked, SocketsAreLate
<1> QED
  BY <1>1, <1>2, <1>3 DEF LInv

LEMMA ExitsKeepLInv ==
  ASSUME LInv, Exits, troubles' \in 0 .. MaxTroubles
  PROVE  LInv'
<1>1. LifecycleTypeOK'
  <2>1. waited' \in 0 .. InitialDevicesTimeout /\ fails' \in 0 .. FailureThreshold
    BY PeriodsAssumption DEF Exits
  <2> QED
    BY <2>1, ChipsOnlyIsAnOption, Zenon DEF Exits, LInv, LifecycleTypeOK, Phases, cluster
<1>2. FailsAreBounded'
  BY PeriodsAssumption DEF Exits, FailsAreBounded
<1>3. OptionsAreBacked' /\ SocketsAreLate'
  BY DEF Exits, OptionsAreBacked, SocketsAreLate, ChipsOnly
<1> QED
  BY <1>1, <1>2, <1>3 DEF LInv

LEMMA DisturbedIsBounded ==
  ASSUME LInv, Disturbed
  PROVE  troubles' \in 0 .. MaxTroubles
BY TroublesAssumption DEF Disturbed, LInv, LifecycleTypeOK

LEMMA BootKeepsLInv ==
  ASSUME LInv, Boot \/ InitialDevices \/ PublishResources
  PROVE  LInv'
<1> USE DEF cluster, serving, probing
<1>0. troubles' = troubles => troubles' \in 0 .. MaxTroubles
  BY DEF LInv, LifecycleTypeOK
<1>1. CASE StartContainer
  BY <1>1 DEF StartContainer, Proceed, LInv, LifecycleTypeOK, FailsAreBounded, OptionsAreBacked,
     SocketsAreLate, Phases, Early, Equipped, Stopping
<1>2. ASSUME NEW flags \in FlagSettings, ResolveCompositeDevices(flags)
      PROVE  LInv'
  <2>1. opts' \in Options /\ (opts' # ChipsOnly => gate)
    BY <1>2, FlagsAssumption, ChipsOnlyIsAnOption DEF ResolveCompositeDevices
  <2>2. troubles' \in 0 .. MaxTroubles
    BY <1>0, <1>2, DisturbedIsBounded DEF ResolveCompositeDevices
  <2> QED
    BY <1>2, <2>1, <2>2
    DEF ResolveCompositeDevices, Proceed, LInv, LifecycleTypeOK, FailsAreBounded,
        OptionsAreBacked, SocketsAreLate, Phases, Early, Equipped, Stopping
<1>3. CASE CreateDirectories
  BY <1>3, ExitsKeepLInv, DisturbedIsBounded
  DEF CreateDirectories, Proceed, LInv, LifecycleTypeOK, FailsAreBounded, OptionsAreBacked,
      SocketsAreLate, Phases, Starting, Equipped, Stopping
<1>4. CASE InitialDevicesFail
  BY <1>4, <1>0, ExitsKeepLInv, DisturbedIsBounded DEF InitialDevicesFail
<1>5. CASE NewDeviceState
  BY <1>5, ExitsKeepLInv, DisturbedIsBounded
  DEF NewDeviceState, Proceed, LInv, LifecycleTypeOK, FailsAreBounded, OptionsAreBacked,
      SocketsAreLate, Phases, Starting, Equipped
<1>6. CASE StartHelper
  BY <1>6, ExitsKeepLInv, DisturbedIsBounded
  DEF StartHelper, Proceed, LInv, LifecycleTypeOK, FailsAreBounded, OptionsAreBacked,
      SocketsAreLate, Phases, Starting, Equipped
<1>7. CASE StartHealthcheck
  BY <1>7, ExitsKeepLInv, DisturbedIsBounded
  DEF StartHealthcheck, Proceed, LInv, LifecycleTypeOK, FailsAreBounded, OptionsAreBacked,
      SocketsAreLate, Phases, Starting, Equipped
<1>8. CASE InitialDevices
  BY <1>8, PeriodsAssumption
  DEF InitialDevices, Proceed, LInv, LifecycleTypeOK, FailsAreBounded, OptionsAreBacked,
      SocketsAreLate, Phases, Starting, Equipped
<1>9. CASE PublishResources
  BY <1>9 DEF PublishResources, Proceed, LInv, LifecycleTypeOK, FailsAreBounded,
     OptionsAreBacked, SocketsAreLate, Phases, Equipped
<1> QED
  BY <1>1, <1>2, <1>3, <1>4, <1>5, <1>6, <1>7, <1>8, <1>9 DEF Boot

LEMMA ShutdownKeepsLInv ==
  ASSUME LInv, Shutdown
  PROVE  LInv'
<1> USE DEF cluster, serving, probing
<1>1. CASE ShutdownBegins
  BY <1>1 DEF ShutdownBegins, Proceed, LInv, LifecycleTypeOK, FailsAreBounded,
     OptionsAreBacked, SocketsAreLate, Phases, Stopping, Equipped
<1>2. CASE HealthcheckStops
  BY <1>2 DEF HealthcheckStops, Proceed, LInv, LifecycleTypeOK, FailsAreBounded,
     OptionsAreBacked, SocketsAreLate, Phases, Stopping, Equipped
<1>3. CASE HelperStops
  <2>1. troubles' \in 0 .. MaxTroubles
    BY <1>3 DEF HelperStops, LInv, LifecycleTypeOK
  <2> QED
    BY <1>3, <2>1, ExitsKeepLInv DEF HelperStops
<1> QED
  BY <1>1, <1>2, <1>3 DEF Shutdown

(* An answer arrives while there is room for one more failure. *)
LEMMA AnswersAreBounded ==
  ASSUME LInv, ctx = "live" \/ check # "none", NEW ok \in BOOLEAN, Answered(ok)
  PROVE  /\ fails' \in 0 .. FailureThreshold
         /\ ctx' \in {"live", "fatal", "signal", "probe"}
         /\ ctx' = "live" => fails' < FailureThreshold
BY PeriodsAssumption DEF LInv, LifecycleTypeOK, FailsAreBounded, Answered

LEMMA CheckKeepsLInv ==
  ASSUME LInv, Check \/ CheckTimesOut
  PROVE  LInv'
<1> USE DEF cluster, serving, probing
<1>1. check # "none"
  BY DEF Check, CheckRegistration, CheckDRA, CheckTimesOut
<1>2. CASE sockets /\ check' = "dra" /\ UNCHANGED <<fails, ctx>> /\ CheckRegistration
  BY <1>1, <1>2 DEF CheckRegistration, LInv, LifecycleTypeOK, FailsAreBounded,
     OptionsAreBacked, SocketsAreLate
<1>3. CASE check' = "none" /\ \E ok \in BOOLEAN : Answered(ok)
  <2>1. /\ fails' \in 0 .. FailureThreshold
        /\ ctx' \in {"live", "fatal", "signal", "probe"}
        /\ ctx' = "live" => fails' < FailureThreshold
    BY <1>1, <1>3, AnswersAreBounded
  <2>2. UNCHANGED <<cluster, phase, opts, waited, sockets, health>>
    BY DEF Check, CheckRegistration, CheckDRA, CheckTimesOut
  <2>3. troubles' \in 0 .. MaxTroubles
    BY DisturbedIsBounded
    DEF Check, CheckRegistration, CheckDRA, CheckTimesOut, LInv, LifecycleTypeOK
  <2> QED
    BY <1>3, <2>1, <2>2, <2>3 DEF LInv, LifecycleTypeOK, FailsAreBounded, OptionsAreBacked,
       SocketsAreLate
<1>4. sockets \in BOOLEAN
  BY DEF LInv, LifecycleTypeOK
<1> QED
  BY <1>2, <1>3, <1>4 DEF Check, CheckRegistration, CheckDRA, CheckTimesOut

LEMMA TroubleKeepsLInv ==
  ASSUME LInv, Trouble
  PROVE  LInv'
<1> USE DEF cluster, serving, probing
<1>1. CASE Rejected \/ PublishResourcesFails \/ Crash
  BY <1>1, ExitsKeepLInv, DisturbedIsBounded DEF Rejected, PublishResourcesFails, Crash
<1>2. CASE HandleError
  BY <1>2, DisturbedIsBounded
  DEF HandleError, Cancel, LInv, LifecycleTypeOK, FailsAreBounded, OptionsAreBacked,
      SocketsAreLate
<1>3. CASE Signal
  BY <1>3, ExitsKeepLInv, DisturbedIsBounded
  DEF Signal, Cancel, LInv, LifecycleTypeOK, FailsAreBounded, OptionsAreBacked, SocketsAreLate
<1>4. CASE HelperFollowsContext
  BY <1>4 DEF HelperFollowsContext, LInv, LifecycleTypeOK, FailsAreBounded, OptionsAreBacked,
     SocketsAreLate
<1> QED
  BY <1>1, <1>2, <1>3, <1>4, CheckKeepsLInv DEF Trouble

LEMMA SurroundingsKeepLInv ==
  ASSUME LInv, Surroundings
  PROVE  LInv'
<1> USE DEF cluster, serving, probing
<1>1. CASE GateOpens
  BY <1>1, DisturbedIsBounded
  DEF GateOpens, LInv, LifecycleTypeOK, FailsAreBounded, OptionsAreBacked, SocketsAreLate
<1>2. CASE AgentReports
  BY <1>2
  DEF AgentReports, LInv, LifecycleTypeOK, FailsAreBounded, OptionsAreBacked, SocketsAreLate
<1>3. CASE AgentRestarts
  BY <1>3, DisturbedIsBounded
  DEF AgentRestarts, LInv, LifecycleTypeOK, FailsAreBounded, OptionsAreBacked, SocketsAreLate
<1>4. CASE ProbePeriod
  <2>1. /\ fails' \in 0 .. FailureThreshold
        /\ ctx' \in {"live", "fatal", "signal", "probe"}
        /\ ctx' = "live" => fails' < FailureThreshold
        /\ check' \in {"none", "registration"}
        /\ check' # "none" => ctx' = "live"
    BY <1>4, AnswersAreBounded DEF ProbePeriod, LInv, LifecycleTypeOK, FailsAreBounded
  <2>2. waited' \in 0 .. InitialDevicesTimeout
    BY <1>4, PeriodsAssumption DEF ProbePeriod, LInv, LifecycleTypeOK
  <2> QED
    BY <1>4, <2>1, <2>2 DEF ProbePeriod, LInv, LifecycleTypeOK, FailsAreBounded,
       OptionsAreBacked, SocketsAreLate
<1> QED
  BY <1>1, <1>2, <1>3, <1>4 DEF Surroundings

(* A topology that arrives later, or a claim's step. *)
LEMMA DisturbanceKeepsLInv ==
  ASSUME LInv, Disturbed \/ UNCHANGED troubles,
         UNCHANGED <<cluster, phase, opts, waited, ctx, serving>>
  PROVE  LInv'
<1>1. troubles' \in 0 .. MaxTroubles
  BY DisturbedIsBounded DEF LInv, LifecycleTypeOK
<1> QED
  BY <1>1 DEF LInv, LifecycleTypeOK, FailsAreBounded, OptionsAreBacked, SocketsAreLate, cluster,
     serving, probing

LEMMA NextKeepsLInv ==
  ASSUME LInv, [Next]_vars
  PROVE  LInv'
<1>1. CASE \E h \in Hosts : FirstTopology(h)
  BY <1>1, BootKeepsLInv DEF FirstTopology
<1>2. CASE \E h \in Hosts : LaterTopology(h)
  BY <1>2, DisturbanceKeepsLInv DEF LaterTopology
<1>3. CASE FirstPublish
  BY <1>3, BootKeepsLInv DEF FirstPublish
<1>4. CASE OtherStep
  BY <1>4, BootKeepsLInv, ShutdownKeepsLInv, CheckKeepsLInv, TroubleKeepsLInv,
     SurroundingsKeepLInv
  DEF OtherStep
<1>5. CASE UNCHANGED lifecycleVars
  BY <1>5, DisturbanceKeepsLInv DEF lifecycleVars
<1> QED
  BY <1>1, <1>2, <1>3, <1>4, <1>5
  DEF Next, SetResources, Republish, Prepare, Release, Allocate, vars

-----------------------------------------------------------------------------
(* The mapping and the pool.                                                *)

PoolTypeOK ==
  /\ units = None \/ IsPublication(units)
  /\ offer = None \/ IsPublication(offer)
  /\ alloc = None \/ IsPublication(alloc)
  /\ IsPublication(pool)
  /\ held \in [Claims -> Devices \cup {None}]
  /\ granted \in [Claims -> SUBSET Nodes]
  /\ moved \in SUBSET Claims

Computed(pub) == \E h \in Hosts : pub = PublicationOf[h][opts]

(* The process has a mapping and resources from its first topology to its  *)
(* end, computed with its own options.                                     *)
UnitsAreComputed ==
  /\ phase \in Equipped => Computed(units) /\ Computed(alloc)
  /\ phase \notin Equipped => units = None /\ alloc = None
  /\ offer # None => phase \in Equipped /\ Computed(offer)

(* The claims whose device stayed where it was. *)
Settled == Allocated \ moved

HoldersAreApart ==
  /\ \A c \in Settled : held[c] \in DOMAIN pool
  /\ \A c, e \in Settled : c # e => ~Overlap(pool, held[c], held[e])

GrantsAreHeld ==
  \A c \in Claims : granted[c] # {} =>
    /\ c \in Allocated
    /\ c \in Settled => granted[c] = pool[held[c]].nodes

UnitsAgree ==
  units # None => \A c \in Settled :
    held[c] \in DOMAIN units /\ units[held[c]].nodes = pool[held[c]].nodes

IInv ==
  /\ LInv
  /\ PoolTypeOK
  /\ UnitsAreComputed
  /\ PoolIsDeclared
  /\ HoldersAreApart
  /\ GrantsAreHeld
  /\ UnitsAgree

LEMMA InitOK == Init => IInv
<1> SUFFICES ASSUME Init PROVE IInv
  OBVIOUS
<1>1. LInv
  BY LifecycleInitOK DEF Init
<1>2. Allocated = {}
  BY DEF Init, Allocated
<1>3. PoolTypeOK
  BY DEF Init, PoolTypeOK, IsPublication
<1>4. UnitsAreComputed
  BY DEF Init, LifecycleInit, UnitsAreComputed, Equipped, Stopping
<1>5. PoolIsDeclared
  BY DEF Init, PoolIsDeclared, Declared
<1>6. HoldersAreApart /\ UnitsAgree
  BY <1>2 DEF HoldersAreApart, UnitsAgree, Settled
<1>7. GrantsAreHeld
  BY DEF Init, GrantsAreHeld
<1> QED
  BY <1>1, <1>3, <1>4, <1>5, <1>6, <1>7 DEF IInv

(* What the parts of IInv say of the claims only depends on these.  *)
LEMMA ClaimsAlone ==
  ASSUME IInv, UNCHANGED <<pool, held, granted, moved>>, units' = units \/ units' = None,
         offer' = offer \/ offer' = None, alloc' \in {alloc, offer, None}
  PROVE  PoolIsDeclared' /\ HoldersAreApart' /\ GrantsAreHeld' /\ UnitsAgree' /\ PoolTypeOK'
BY DEF IInv, PoolIsDeclared, Declared, Overlap, HoldersAreApart, GrantsAreHeld, UnitsAgree,
   Settled, Allocated, PoolTypeOK, IsPublication

(* The other steps of the process keep its options as long as it has a     *)
(* mapping, and do not take it past its first topology.                    *)
LEMMA OtherStepPhases ==
  ASSUME LInv, OtherStep
  PROVE  /\ phase \in Equipped /\ phase' # "down" => phase' \in Equipped /\ opts' = opts
         /\ phase \notin Equipped => phase' \notin Equipped
<1> USE DEF Equipped, Stopping
<1>1. CASE Boot
  BY <1>1
  DEF Boot, StartContainer, ResolveCompositeDevices, CreateDirectories, InitialDevicesFail,
      NewDeviceState, StartHelper, StartHealthcheck, Proceed, Exits
<1>2. CASE Shutdown
  BY <1>2 DEF Shutdown, ShutdownBegins, HealthcheckStops, HelperStops, Proceed, Exits
<1>3. CASE Check
  BY <1>3 DEF Check, CheckRegistration, CheckDRA
<1>4. CASE Trouble
  BY <1>4
  DEF Trouble, Rejected, PublishResourcesFails, HandleError, Signal, Crash,
      HelperFollowsContext, CheckTimesOut, Exits
<1>5. CASE Surroundings
  BY <1>5 DEF Surroundings, GateOpens, AgentReports, AgentRestarts, ProbePeriod
<1> QED
  BY <1>1, <1>2, <1>3, <1>4, <1>5 DEF OtherStep

LEMMA OtherStepKeepsIInv ==
  ASSUME IInv, OtherStep
  PROVE  IInv'
<1>1. LInv'
  BY NextKeepsLInv DEF IInv, Next
<1>2. PoolIsDeclared' /\ HoldersAreApart' /\ GrantsAreHeld' /\ UnitsAgree' /\ PoolTypeOK'
  BY ClaimsAlone DEF OtherStep
<1>3. UnitsAreComputed'
  <2>1. CASE phase' = "down"
    BY <2>1 DEF OtherStep, UnitsAreComputed, Equipped, Stopping
  <2>2. CASE phase' # "down"
    <3>1. UNCHANGED <<units, offer, alloc>>
      BY <2>2 DEF OtherStep
    <3>2. CASE phase \in Equipped
      BY <2>2, <3>1, <3>2, OtherStepPhases DEF IInv, UnitsAreComputed, Computed
    <3>3. CASE phase \notin Equipped
      BY <3>1, <3>3, OtherStepPhases DEF IInv, UnitsAreComputed
    <3> QED
      BY <3>2, <3>3
  <2> QED
    BY <2>1, <2>2
<1> QED
  BY <1>1, <1>2, <1>3 DEF IInv

(* A new mapping: the claims it does not agree with have moved. *)
LEMMA TopologyKeepsIInv ==
  ASSUME IInv, NEW h \in Hosts, FirstTopology(h) \/ LaterTopology(h)
  PROVE  IInv'
<1>1. LInv'
  BY NextKeepsLInv DEF IInv, Next
<1>2. opts' = opts /\ phase' \in Equipped /\ opts \in Options
  BY DEF FirstTopology, InitialDevices, LaterTopology, Proceed, Equipped, IInv, LInv,
     LifecycleTypeOK
<1>3. /\ units' = PublicationOf[h][opts]
      /\ moved' = moved \cup Disturbs(units')
      /\ offer' \in {offer, units'} /\ alloc' \in {alloc, units'}
      /\ UNCHANGED <<pool, held, granted>>
  BY DEF FirstTopology, LaterTopology, ApplyTopology
<1>4. PoolTypeOK'
  BY <1>2, <1>3, PublicationAssumption
  DEF IInv, PoolTypeOK, IsPublication, Disturbs, Allocated
<1>5. UnitsAreComputed'
  <2>1. phase \in Equipped \/ alloc' = units'
    BY DEF FirstTopology, LaterTopology, Equipped
  <2> QED
    BY <1>2, <1>3, <2>1 DEF IInv, UnitsAreComputed, Computed
<1>6. PoolIsDeclared'
  BY <1>3 DEF IInv, PoolIsDeclared, Declared, Overlap
<1>7. Settled' \subseteq Settled
  BY <1>3 DEF Settled, Allocated
<1>8. HoldersAreApart' /\ GrantsAreHeld'
  BY <1>3, <1>7 DEF IInv, HoldersAreApart, GrantsAreHeld, Overlap, Allocated
<1>9. UnitsAgree'
  <2> SUFFICES ASSUME NEW c \in Settled'
               PROVE  held[c] \in DOMAIN units' /\ units'[held[c]].nodes = pool[held[c]].nodes
    BY <1>3 DEF UnitsAgree
  <2>1. c \in Allocated /\ c \notin Disturbs(units')
    BY <1>3 DEF Settled, Allocated
  <2> QED
    BY <2>1 DEF Disturbs
<1> QED
  BY <1>1, <1>4, <1>5, <1>6, <1>8, <1>9 DEF IInv

-----------------------------------------------------------------------------
(* Whatever the process stores declares its overlaps: with the gate open   *)
(* the counters do, and with the gate closed the process has chips only.   *)
LEMMA StoredIsDeclared ==
  ASSUME IInv, NEW pub, Computed(pub)
  PROVE  /\ Declared(Stored(pub))
         /\ IsPublication(Stored(pub))
         /\ DOMAIN Stored(pub) = DOMAIN pub
         /\ \A d \in DOMAIN pub : Stored(pub)[d].nodes = pub[d].nodes
<1>1. PICK h \in Hosts : pub = PublicationOf[h][opts]
  BY DEF Computed
<1>2. opts \in Options /\ gate \in BOOLEAN
  BY DEF IInv, LInv, LifecycleTypeOK
<1>3. IsPublication(pub)
  BY <1>1, <1>2, PublicationAssumption
<1>4. /\ DOMAIN Stored(pub) = DOMAIN pub
      /\ \A d \in DOMAIN pub :
           /\ Stored(pub)[d] \in Offers
           /\ Stored(pub)[d].nodes = pub[d].nodes
           /\ gate => Stored(pub)[d].counters = pub[d].counters
  BY <1>2, <1>3 DEF Stored, IsPublication, Offers
<1>5. IsPublication(Stored(pub))
  BY <1>3, <1>4 DEF IsPublication, Stored
<1>6. Declared(Stored(pub))
  <2>1. CASE gate
    <3>1. Declared(pub)
      BY <1>1, <1>2, CountersAssumption
    <3> QED
      BY <1>4, <2>1, <3>1 DEF Declared, Overlap
  <2>2. CASE ~gate
    <3>1. opts = ChipsOnly
      BY <2>2 DEF IInv, LInv, OptionsAreBacked
    <3>2. \A d, e \in DOMAIN pub : d # e => ~Overlap(pub, d, e)
      BY <1>1, <3>1, CountersAssumption
    <3> QED
      BY <1>4, <3>2 DEF Declared, Overlap
  <2> QED
    BY <1>2, <2>1, <2>2
<1> QED
  BY <1>4, <1>5, <1>6

LEMMA PublishKeepsIInv ==
  ASSUME IInv, FirstPublish \/ Republish
  PROVE  IInv'
<1>1. LInv'
  BY NextKeepsLInv DEF IInv, Next
<1>2. /\ opts' = opts /\ phase \in Equipped /\ phase' \in Equipped
      /\ pool' = Stored(alloc)
      /\ moved' = moved \cup Disturbs(alloc)
      /\ UNCHANGED <<units, offer, alloc, held, granted>>
  BY DEF FirstPublish, Republish, Publish, PublishResources, Proceed, Equipped, lifecycleVars
<1>3. Computed(units) /\ Computed(alloc)
  BY <1>2 DEF IInv, UnitsAreComputed
<1>4. PoolIsDeclared'
  BY <1>2, <1>3, StoredIsDeclared DEF PoolIsDeclared
<1>5. PoolTypeOK'
  BY <1>2, <1>3, StoredIsDeclared DEF IInv, PoolTypeOK, IsPublication, Disturbs, Allocated
<1>6. UnitsAreComputed'
  BY <1>2 DEF IInv, UnitsAreComputed, Computed
<1>7. \A c \in Settled' :
        /\ c \in Settled
        /\ held[c] \in DOMAIN pool'
        /\ pool'[held[c]].nodes = pool[held[c]].nodes
  BY <1>2, <1>3, StoredIsDeclared DEF Settled, Allocated, Disturbs
<1>8. HoldersAreApart'
  BY <1>2, <1>7 DEF IInv, HoldersAreApart, Overlap
<1>9. GrantsAreHeld'
  BY <1>2, <1>7 DEF IInv, GrantsAreHeld, Allocated
<1>10. UnitsAgree'
  BY <1>2, <1>7 DEF IInv, UnitsAgree
<1> QED
  BY <1>1, <1>4, <1>5, <1>6, <1>8, <1>9, <1>10 DEF IInv

-----------------------------------------------------------------------------
(* The claims.                                                              *)

LEMMA PoolAlone ==
  ASSUME IInv, UNCHANGED <<phase, opts, units, offer, alloc, pool>>
  PROVE  UnitsAreComputed' /\ PoolIsDeclared'
<1>1. UnitsAreComputed'
  BY DEF IInv, UnitsAreComputed, Computed
<1>2. PoolIsDeclared'
  BY DEF IInv, PoolIsDeclared, Declared, Overlap
<1> QED
  BY <1>1, <1>2

(* A free device overlaps no settled holder's: they would share a counter. *)
LEMMA AllocateKeepsIInv ==
  ASSUME IInv, NEW c \in Claims, NEW d \in Devices, Allocate(c, d)
  PROVE  IInv'
<1>1. LInv'
  BY NextKeepsLInv DEF IInv, Next
<1>2. /\ held[c] = None /\ d \in DOMAIN pool
      /\ held' = [held EXCEPT ![c] = d]
      /\ UNCHANGED <<lifecycleVars, units, offer, alloc, pool, granted>>
  BY DEF Allocate
<1>3. held \in [Claims -> Devices \cup {None}] /\ d # None
  BY AbsenceAssumption DEF IInv, PoolTypeOK
<1>4. /\ held'[c] = d
      /\ \A e \in Claims : e # c => held'[e] = held[e]
      /\ Allocated' = Allocated \cup {c} /\ c \notin Allocated
  BY <1>2, <1>3 DEF Allocated
<1>5. moved \subseteq moved' /\ moved' \in SUBSET Claims
  BY DEF Allocate, IInv, PoolTypeOK
<1>6. \A e \in Settled' : e # c => e \in Settled /\ held'[e] = held[e]
  BY <1>4, <1>5 DEF Settled, Allocated
<1>7. PoolTypeOK'
  BY <1>2, <1>3, <1>5 DEF IInv, PoolTypeOK, IsPublication
<1>8. UnitsAreComputed' /\ PoolIsDeclared'
  BY <1>2, PoolAlone DEF lifecycleVars
<1>9. HoldersAreApart'
  <2>1. \A e \in Settled : ~Overlap(pool, d, held[e]) /\ ~Overlap(pool, held[e], d)
    <3> SUFFICES ASSUME NEW e \in Settled
                 PROVE  ~Overlap(pool, d, held[e]) /\ ~Overlap(pool, held[e], d)
      OBVIOUS
    <3>1. held[e] \in DOMAIN pool /\ e \in Allocated
      BY DEF IInv, HoldersAreApart, Settled
    <3>2. held[e] # d /\ pool[held[e]].counters \cap pool[d].counters = {}
      BY <3>1 DEF Allocate, Free
    <3> QED
      BY <1>2, <3>1, <3>2 DEF IInv, PoolIsDeclared, Declared, Overlap
  <2>2. \A e \in Settled' : held'[e] \in DOMAIN pool'
    BY <1>2, <1>4, <1>6 DEF IInv, HoldersAreApart
  <2>3. ASSUME NEW e \in Settled', NEW f \in Settled', e # f
        PROVE  ~Overlap(pool, held'[e], held'[f])
    <3>1. CASE e = c
      BY <1>4, <1>6, <2>1, <2>3, <3>1
    <3>2. CASE f = c
      BY <1>4, <1>6, <2>1, <2>3, <3>2
    <3>3. CASE e # c /\ f # c
      BY <1>6, <2>3, <3>3 DEF IInv, HoldersAreApart
    <3> QED
      BY <3>1, <3>2, <3>3
  <2> QED
    BY <1>2, <2>2, <2>3 DEF HoldersAreApart, Overlap
<1>10. GrantsAreHeld'
  BY <1>2, <1>4, <1>6 DEF IInv, GrantsAreHeld
<1>11. UnitsAgree'
  <2> SUFFICES ASSUME units # None, NEW e \in Settled'
               PROVE  /\ held'[e] \in DOMAIN units
                      /\ units[held'[e]].nodes = pool[held'[e]].nodes
    BY <1>2 DEF UnitsAgree
  <2>1. CASE e = c
    <3>1. c \notin moved'
      BY <2>1 DEF Settled
    <3> QED
      BY <1>4, <2>1, <3>1 DEF Allocate
  <2>2. CASE e # c
    BY <1>6, <2>2 DEF IInv, UnitsAgree
  <2> QED
    BY <2>1, <2>2
<1> QED
  BY <1>1, <1>7, <1>8, <1>9, <1>10, <1>11 DEF IInv

(* A serving process resolves a settled claim to its nodes of the pool. *)
LEMMA PrepareKeepsIInv ==
  ASSUME IInv, NEW c \in Claims, Prepare(c)
  PROVE  IInv'
<1>1. LInv'
  BY NextKeepsLInv DEF IInv, Next
<1>2. /\ c \in Allocated /\ held[c] \in DOMAIN units
      /\ granted' = [granted EXCEPT ![c] = units[held[c]].nodes]
      /\ UNCHANGED <<lifecycleVars, units, offer, alloc, pool, held, moved>>
  BY DEF Prepare
<1>3. units # None
  BY AbsenceAssumption
  DEF Prepare, IInv, LInv, LifecycleTypeOK, SocketsAreLate, UnitsAreComputed, Computed
<1>4. units[held[c]].nodes \in SUBSET Nodes
  BY <1>2, <1>3 DEF IInv, PoolTypeOK, IsPublication, Offers
<1>5. PoolTypeOK'
  BY <1>2, <1>4 DEF IInv, PoolTypeOK, IsPublication
<1>6. /\ UnitsAreComputed' /\ PoolIsDeclared'
      /\ HoldersAreApart' /\ UnitsAgree'
  <2>1. UnitsAreComputed' /\ PoolIsDeclared'
    BY <1>2, PoolAlone DEF lifecycleVars
  <2>2. HoldersAreApart'
    BY <1>2 DEF IInv, HoldersAreApart, Overlap, Settled, Allocated
  <2>3. UnitsAgree'
    BY <1>2 DEF IInv, UnitsAgree, Settled, Allocated
  <2> QED
    BY <2>1, <2>2, <2>3
<1>7. GrantsAreHeld'
  <2>1. \A e \in Claims : granted'[e] = IF e = c THEN units[held[c]].nodes ELSE granted[e]
    BY <1>2 DEF IInv, PoolTypeOK
  <2>2. Settled' = Settled /\ Allocated' = Allocated
    BY <1>2 DEF Settled, Allocated
  <2>3. c \in Settled => units[held[c]].nodes = pool[held[c]].nodes
    BY <1>3 DEF IInv, UnitsAgree
  <2> QED
    BY <1>2, <2>1, <2>2, <2>3 DEF IInv, GrantsAreHeld
<1> QED
  BY <1>1, <1>5, <1>6, <1>7 DEF IInv

LEMMA ReleaseKeepsIInv ==
  ASSUME IInv, NEW c \in Claims, Release(c)
  PROVE  IInv'
<1>1. LInv'
  BY NextKeepsLInv DEF IInv, Next
<1>2. /\ held' = [held EXCEPT ![c] = None]
      /\ granted' = [granted EXCEPT ![c] = {}]
      /\ moved' = moved \ {c}
      /\ UNCHANGED <<lifecycleVars, units, offer, alloc, pool>>
  BY DEF Release
<1>3. /\ held'[c] = None /\ granted'[c] = {}
      /\ \A e \in Claims : e # c => held'[e] = held[e] /\ granted'[e] = granted[e]
  BY <1>2 DEF IInv, PoolTypeOK
<1>4. \A e \in Claims : (e \in Settled' <=> e \in Settled /\ e # c)
                        /\ (e \in Allocated' <=> e \in Allocated /\ e # c)
  BY <1>2, <1>3 DEF Settled, Allocated
<1>5. Settled' \subseteq Claims
  BY DEF Settled, Allocated
<1>6. PoolTypeOK'
  BY <1>2 DEF IInv, PoolTypeOK, IsPublication
<1>7. UnitsAreComputed' /\ PoolIsDeclared'
  BY <1>2, PoolAlone DEF lifecycleVars
<1>8. HoldersAreApart' /\ UnitsAgree'
  BY <1>2, <1>3, <1>4, <1>5 DEF IInv, HoldersAreApart, UnitsAgree, Overlap
<1>9. GrantsAreHeld'
  BY <1>2, <1>3, <1>4 DEF IInv, GrantsAreHeld
<1> QED
  BY <1>1, <1>6, <1>7, <1>8, <1>9 DEF IInv

(* The driver takes the resources that are on offer. *)
LEMMA SetResourcesKeepsIInv ==
  ASSUME IInv, SetResources
  PROVE  IInv'
<1>1. LInv'
  BY NextKeepsLInv DEF IInv, Next
<1>2. UnitsAreComputed'
  BY DEF SetResources, lifecycleVars, IInv, UnitsAreComputed, Computed
<1> QED
  BY <1>1, <1>2, ClaimsAlone DEF SetResources, IInv

LEMMA NextKeepsIInv == IInv /\ [Next]_vars => IInv'
<1> SUFFICES ASSUME IInv, [Next]_vars PROVE IInv'
  OBVIOUS
<1>1. CASE UNCHANGED vars
  <2>1. LInv'
    BY NextKeepsLInv DEF IInv
  <2>2. UnitsAreComputed'
    BY <1>1 DEF IInv, UnitsAreComputed, Computed, vars, lifecycleVars, exclusionVars
  <2> QED
    BY <1>1, <2>1, <2>2, ClaimsAlone DEF IInv, vars, exclusionVars
<1> QED
  BY <1>1, OtherStepKeepsIInv, TopologyKeepsIInv, PublishKeepsIInv, AllocateKeepsIInv,
     PrepareKeepsIInv, ReleaseKeepsIInv, SetResourcesKeepsIInv
  DEF Next

LEMMA InvariantHolds == Spec => []IInv
<1>1. Init => IInv
  BY InitOK
<1>2. IInv /\ [Next]_vars => IInv'
  BY NextKeepsIInv
<1> QED
  BY <1>1, <1>2, PTL DEF Spec

-----------------------------------------------------------------------------
(* What is proved.                                                          *)

(* The process, the pool and the claims keep their types: the liveness     *)
(* probe never counts past its threshold, and what a claim is prepared     *)
(* with are nodes of the host.                                             *)
THEOREM TypeCorrect == Spec => []TypeOK
<1>1. IInv => TypeOK
  BY DEF IInv, LInv, PoolTypeOK, TypeOK
<1> QED
  BY <1>1, InvariantHolds, PTL

(* The pool never offers two devices that share a node without a counter   *)
(* that says so, whatever the flags and the gate: the downgrade to chips   *)
(* in resolveCompositeDevices is enough.                                   *)
THEOREM PoolsAreDeclared == Spec => []PoolIsDeclared
<1>1. IInv => PoolIsDeclared
  BY DEF IInv
<1> QED
  BY <1>1, InvariantHolds, PTL

(* Two claims never have the same node while their devices stay published  *)
(* as they were allocated, over any number of restarts and topologies.     *)
THEOREM NodesAreExclusive == Spec => []Exclusive
<1>1. IInv => Exclusive
  <2> SUFFICES ASSUME IInv, NEW c \in Claims \ moved, NEW e \in Claims \ moved, c # e
               PROVE  granted[c] \cap granted[e] = {}
    BY DEF Exclusive
  <2>1. CASE granted[c] = {} \/ granted[e] = {}
    BY <2>1
  <2>2. CASE granted[c] # {} /\ granted[e] # {}
    <3>1. /\ c \in Settled /\ granted[c] = pool[held[c]].nodes
          /\ e \in Settled /\ granted[e] = pool[held[e]].nodes
      BY <2>2 DEF IInv, GrantsAreHeld, Settled
    <3> QED
      BY <3>1 DEF IInv, HoldersAreApart, Overlap
  <2> QED
    BY <2>1, <2>2
<1> QED
  BY <1>1, InvariantHolds, PTL
=============================================================================
