------------------------- MODULE DeviceStateProofs --------------------------
(***************************************************************************)
(* Proofs about DeviceState, for any set of processes, claims, devices and *)
(* topologies and any bounds on the events.                                *)
(***************************************************************************)
EXTENDS DeviceState, TLAPS

-----------------------------------------------------------------------------
(* The inductive invariant, in parts.                                       *)

(* At most one call is in progress on the node. *)
OneCall ==
  \A i, j \in Instances : pc[i] \in CallSteps /\ pc[j] \in CallSteps => i = j

(* The first checkpoint is written before any call, by the only process   *)
(* there is, so it drops no entry.                                         *)
FirstCheckpoint ==
  /\ ckptFile = "missing" =>
       /\ ckpt = Empty
       /\ \A i, j \in Instances : pc[i] # "down" /\ pc[j] # "down" => i = j
  /\ \A i \in Instances :
       /\ pc[i] = "create" => ckptFile = "missing"
       /\ pc[i] \in Serving \cup {"load", "regenerate", "prune"} => ckptFile # "missing"

(* A call works on a copy of the checkpoint that is still current. *)
MemIsCurrent ==
  \A i \in Instances :
    /\ pc[i] \in CallSteps \ {"prepare", "unprepare"} => cur[i] \in todo[i]
    /\ pc[i] \in {"apply", "spec", "commit", "rewrite", "delete", "forget"}
         => mem[i] = ckpt

(* What a call knows of the claims of its batch. *)
BatchIsHeld ==
  \A i \in Instances :
    /\ pc[i] \notin CallSteps => ok[i] = {}
    /\ pc[i] \in PrepareSteps => \A c \in todo[i] \cup ok[i] : kube[c] # "none"
    /\ pc[i] \in PrepareSteps => \A c \in ok[i] : ckpt[c] # None
    /\ pc[i] \in UnprepareSteps => \A c \in todo[i] \cup ok[i] : kube[c] = "releasing"
    /\ pc[i] \in UnprepareSteps => \A c \in ok[i] : ckpt[c] = None

(* The entry prepareDevices built is for the claim's allocation. *)
EntryIsBuilt ==
  \A i \in Instances :
    /\ pc[i] \in {"apply", "spec", "commit"} => ckpt[cur[i]] = None
    /\ pc[i] \in {"rewrite"} => ckpt[cur[i]] # None
    /\ pc[i] \in {"spec", "commit"} =>
         entry[i] \in Entries /\ DOMAIN entry[i] = allocation[cur[i]]

HeldIsAllocated == \A c \in Claims : kube[c] # "none" => allocation[c] \in Allocations

IInv ==
  /\ TypeOK
  /\ OneCall
  /\ FirstCheckpoint
  /\ MemIsCurrent
  /\ BatchIsHeld
  /\ EntryIsBuilt
  /\ HeldIsAllocated
  /\ EntryMatchesAllocation
  /\ RunningIsRecorded

-----------------------------------------------------------------------------
(* Types.                                                                   *)

LEMMA HappensTypes ==
  ASSUME WorldTypes, NEW e \in Events, Happens(e)
  PROVE  used' \in [Events -> Nat]
BY DEF WorldTypes, Happens

LEMMA ExitTypes ==
  ASSUME ProcessTypes, ViewTypes, NEW i \in Instances, Exit(i)
  PROVE  ProcessTypes' /\ ViewTypes'
<1>1. Empty \in [Claims -> Entries \cup {None}]
  BY DEF Empty
<1> QED
  BY <1>1 DEF Exit, GoTo, ProcessTypes, ViewTypes, Steps

LEMMA ReturnTypes ==
  ASSUME ProcessTypes, ViewTypes, NEW i \in Instances, NEW c \in Claims, NEW loop \in Steps,
         NEW succeeded \in BOOLEAN, Return(i, c, loop, succeeded)
  PROVE  ProcessTypes' /\ ViewTypes'
<1>1. Empty \in [Claims -> Entries \cup {None}]
  BY DEF Empty
<1> QED
  BY <1>1 DEF Return, GoTo, ProcessTypes, ViewTypes, view

LEMMA ContinueTypes ==
  ASSUME DiskTypes, ProcessTypes, ViewTypes, NEW i \in Instances, NEW c \in Claims,
         NEW step \in Steps, Continue(i, c, step)
  PROVE  ProcessTypes' /\ ViewTypes'
BY DEF Continue, GoTo, DiskTypes, ProcessTypes, ViewTypes, view

-----------------------------------------------------------------------------
(* Steps that leave the checkpoint, the calls and the kubelet alone.        *)

LEMMA Untouched ==
  ASSUME IInv, TypeOK',
         UNCHANGED <<ckptFile, ckpt, pc, todo, ok, cur, mem, entry, kube, allocation, lost>>
  PROVE  IInv'
<1>1. OneCall' /\ FirstCheckpoint'
  BY DEF IInv, OneCall, FirstCheckpoint, Empty
<1>2. MemIsCurrent' /\ BatchIsHeld' /\ EntryIsBuilt'
  BY DEF IInv, MemIsCurrent, BatchIsHeld, EntryIsBuilt
<1>3. HeldIsAllocated' /\ EntryMatchesAllocation' /\ RunningIsRecorded'
  BY DEF IInv, HeldIsAllocated, EntryMatchesAllocation, RunningIsRecorded
<1> QED
  BY <1>1, <1>2, <1>3 DEF IInv

LEMMA StutterKeepsIInv == IInv /\ UNCHANGED vars => IInv'
<1> SUFFICES ASSUME IInv, UNCHANGED vars PROVE IInv'
  OBVIOUS
<1>1. TypeOK'
  BY DEF IInv, vars, disk, work, view, world, TypeOK, DiskTypes, ProcessTypes, ViewTypes,
         WorldTypes
<1> QED
  BY <1>1, Untouched DEF vars, disk, work, view, world

LEMMA TopologyKeepsIInv ==
  ASSUME IInv, NEW i \in Instances,
         \/ \E t \in Topologies : ApplyTopology(i, t)
         \/ ReceiveResources(i)
         \/ SetResources(i)
  PROVE  IInv'
<1>1. CASE \E t \in Topologies : ApplyTopology(i, t)
  <2>1. PICK t \in Topologies : ApplyTopology(i, t)
    BY <1>1
  <2>2. used' \in [Events -> Nat]
    BY <2>1, HappensTypes DEF ApplyTopology, IInv, TypeOK, Events
  <2>3. TypeOK'
    BY <2>1, <2>2, TopologiesAssumption
    DEF ApplyTopology, IInv, TypeOK, DiskTypes, ProcessTypes, ViewTypes, WorldTypes, disk, work,
        world
  <2> QED
    BY <2>1, <2>3, Untouched DEF ApplyTopology, disk, work, world
<1>2. CASE ReceiveResources(i)
  <2>1. TypeOK'
    BY <1>2
    DEF ReceiveResources, IInv, TypeOK, DiskTypes, ProcessTypes, ViewTypes, WorldTypes, disk,
        work, world
  <2> QED
    BY <1>2, <2>1, Untouched DEF ReceiveResources, disk, work, world
<1>3. CASE SetResources(i)
  <2>1. TypeOK'
    BY <1>3
    DEF SetResources, IInv, TypeOK, DiskTypes, ProcessTypes, ViewTypes, WorldTypes, disk, work,
        world
  <2> QED
    BY <1>3, <2>1, Untouched DEF SetResources, disk, work, world
<1> QED
  BY <1>1, <1>2, <1>3

-----------------------------------------------------------------------------
(* Steps outside the calls.                                                 *)

(* A process that is in no call afterwards says nothing of a batch. *)
LEMMA OutsideCalls ==
  ASSUME MemIsCurrent, BatchIsHeld, EntryIsBuilt, NEW i \in Instances,
         pc'[i] \notin CallSteps, ok'[i] = {}, UNCHANGED <<ckpt, kube, allocation>>,
         \A j \in Instances \ {i} :
           /\ pc'[j] = pc[j] /\ todo'[j] = todo[j] /\ ok'[j] = ok[j]
           /\ cur'[j] = cur[j] /\ mem'[j] = mem[j] /\ entry'[j] = entry[j]
  PROVE  MemIsCurrent' /\ BatchIsHeld' /\ EntryIsBuilt'
<1>1. pc'[i] \notin PrepareSteps /\ pc'[i] \notin UnprepareSteps
  BY DEF CallSteps
<1>2. pc'[i] \notin {"apply", "spec", "commit", "rewrite", "delete", "forget"}
  BY <1>1 DEF PrepareSteps, UnprepareSteps
<1>3. MemIsCurrent'
  BY <1>2 DEF MemIsCurrent
<1>4. BatchIsHeld'
  BY <1>1 DEF BatchIsHeld
<1>5. EntryIsBuilt'
  BY <1>2 DEF EntryIsBuilt
<1> QED
  BY <1>3, <1>4, <1>5

(* A CDI spec file that is written or removed keeps the disk well-formed. *)
LEMMA SpecWritten ==
  ASSUME DiskTypes, NEW c \in Claims, NEW e \in Entries \cup {None},
         specs' = [specs EXCEPT ![c] = e], UNCHANGED <<ckptFile, ckpt, common, jsons>>
  PROVE  DiskTypes'
BY DEF DiskTypes

-----------------------------------------------------------------------------
(* Processes that end.                                                      *)

LEMMA ExitKeepsIInv ==
  ASSUME IInv, NEW i \in Instances, Exit(i), used' \in [Events -> Nat]
  PROVE  IInv'
<1>1. TypeOK'
  BY ExitTypes DEF Exit, IInv, TypeOK, DiskTypes, WorldTypes, disk, world
<1>2. pc' = [pc EXCEPT ![i] = "down"] /\ pc \in [Instances -> Steps]
  BY DEF Exit, GoTo, IInv, TypeOK, ProcessTypes
<1>3. OneCall' /\ FirstCheckpoint'
  BY <1>2
  DEF Exit, IInv, OneCall, FirstCheckpoint, CallSteps, PrepareSteps, UnprepareSteps,
      StartupSteps, Serving, Empty, disk
<1>4. MemIsCurrent' /\ BatchIsHeld' /\ EntryIsBuilt'
  <2>1. /\ pc'[i] = "down" /\ ok'[i] = {} /\ ckpt' = ckpt /\ kube' = kube
        /\ allocation' = allocation
        /\ \A j \in Instances \ {i} : /\ pc'[j] = pc[j] /\ todo'[j] = todo[j] /\ ok'[j] = ok[j]
                                     /\ cur'[j] = cur[j] /\ mem'[j] = mem[j]
                                     /\ entry'[j] = entry[j]
    BY <1>2 DEF Exit, IInv, TypeOK, ProcessTypes, disk, world
  <2>2. "down" \notin CallSteps
    BY DEF CallSteps, PrepareSteps, UnprepareSteps
  <2> QED
    BY <2>1, <2>2, OutsideCalls DEF IInv
<1>5. HeldIsAllocated' /\ EntryMatchesAllocation' /\ RunningIsRecorded'
  BY DEF Exit, IInv, HeldIsAllocated, EntryMatchesAllocation, RunningIsRecorded, disk, world
<1> QED
  BY <1>1, <1>3, <1>4, <1>5 DEF IInv

LEMMA CrashKeepsIInv ==
  ASSUME IInv, NEW i \in Instances, Crash(i)
  PROVE  IInv'
BY ExitKeepsIInv, HappensTypes DEF Crash, IInv, TypeOK, Events

LEMMA StartupFailsKeepsIInv ==
  ASSUME IInv, NEW i \in Instances, StartupFails(i)
  PROVE  IInv'
<1>1. used' \in [Events -> Nat]
  BY HappensTypes DEF StartupFails, IInv, TypeOK, WorldTypes, Events
<1> QED
  BY <1>1, ExitKeepsIInv DEF StartupFails

LEMMA RebootKeepsIInv == ASSUME IInv, Reboot PROVE IInv'
<1>1. used' \in [Events -> Nat]
  BY HappensTypes DEF Reboot, IInv, TypeOK, Events
<1>2. TypeOK'
  <2>1. DiskTypes'
    BY DEF Reboot, IInv, TypeOK, DiskTypes, Empty
  <2>2. ProcessTypes' /\ ViewTypes'
    BY DEF Reboot, IInv, TypeOK, ProcessTypes, ViewTypes, Steps, Empty
  <2>3. WorldTypes'
    BY <1>1 DEF Reboot, IInv, TypeOK, WorldTypes
  <2> QED
    BY <2>1, <2>2, <2>3 DEF TypeOK
<1>3. OneCall' /\ FirstCheckpoint'
  BY DEF Reboot, IInv, OneCall, FirstCheckpoint, CallSteps, PrepareSteps,
         UnprepareSteps, StartupSteps, Serving, Empty
<1>4. MemIsCurrent' /\ BatchIsHeld' /\ EntryIsBuilt'
  BY DEF Reboot, MemIsCurrent, BatchIsHeld, EntryIsBuilt, CallSteps, PrepareSteps,
         UnprepareSteps
<1>5. HeldIsAllocated' /\ EntryMatchesAllocation' /\ RunningIsRecorded'
  BY DEF Reboot, IInv, TypeOK, WorldTypes, HeldIsAllocated, EntryMatchesAllocation,
         RunningIsRecorded
<1> QED
  BY <1>2, <1>3, <1>4, <1>5 DEF IInv

LEMMA CorruptCheckpointKeepsIInv == ASSUME IInv, CorruptCheckpoint PROVE IInv'
<1>1. TypeOK'
  BY HappensTypes
  DEF CorruptCheckpoint, IInv, TypeOK, DiskTypes, ProcessTypes, ViewTypes, WorldTypes, Events,
      work, view, world
<1>2. OneCall' /\ FirstCheckpoint'
  BY DEF CorruptCheckpoint, IInv, OneCall, FirstCheckpoint
<1>3. MemIsCurrent' /\ BatchIsHeld' /\ EntryIsBuilt'
  BY DEF CorruptCheckpoint, IInv, MemIsCurrent, BatchIsHeld, EntryIsBuilt, work, world
<1>4. HeldIsAllocated' /\ EntryMatchesAllocation' /\ RunningIsRecorded'
  BY DEF CorruptCheckpoint, IInv, HeldIsAllocated, EntryMatchesAllocation, RunningIsRecorded,
         world
<1> QED
  BY <1>1, <1>2, <1>3, <1>4 DEF IInv

-----------------------------------------------------------------------------
(* Startup.                                                                 *)

LEMMA StartKeepsIInv ==
  ASSUME IInv, NEW i \in Instances, NEW t \in Topologies, Start(i, t)
  PROVE  IInv'
<1> USE DEF IInv, Start, GoTo, disk, work, world
<1>1. TypeOK'
  BY TopologiesAssumption
  DEF TypeOK, DiskTypes, ProcessTypes, ViewTypes, WorldTypes, Steps, StartupSteps
<1>2. pc' = [pc EXCEPT ![i] = "common"] /\ pc \in [Instances -> Steps]
  BY DEF TypeOK, ProcessTypes
<1>3. OneCall' /\ FirstCheckpoint'
  BY <1>2
  DEF OneCall, FirstCheckpoint, CallSteps, PrepareSteps, UnprepareSteps,
      StartupSteps, Serving, Empty
<1>4. MemIsCurrent' /\ BatchIsHeld' /\ EntryIsBuilt'
  <2>1. /\ pc[i] = "down" /\ pc'[i] = "common" /\ \A j \in Instances \ {i} : pc'[j] = pc[j]
        /\ UNCHANGED <<ckpt, kube, allocation, todo, ok, cur, mem, entry>>
    BY <1>2
  <2>2. "down" \notin CallSteps /\ "common" \notin CallSteps
    BY DEF CallSteps, PrepareSteps, UnprepareSteps
  <2>3. ok'[i] = {}
    BY <2>1, <2>2 DEF BatchIsHeld
  <2> HIDE DEF Start
  <2> QED
    BY <2>1, <2>2, <2>3, OutsideCalls
<1>5. HeldIsAllocated' /\ EntryMatchesAllocation' /\ RunningIsRecorded'
  BY DEF HeldIsAllocated, EntryMatchesAllocation, RunningIsRecorded
<1> QED
  BY <1>1, <1>3, <1>4, <1>5

(* A startup that goes on to step s, without writing the checkpoint. *)
LEMMA StartupStepKeepsIInv ==
  ASSUME IInv, TypeOK', NEW i \in Instances, NEW s \in StartupSteps \cup {"idle"},
         pc[i] \in StartupSteps,
         pc' = [pc EXCEPT ![i] = s],
         s = "create" => ckptFile = "missing",
         s \in {"load", "regenerate", "prune", "idle"} => ckptFile # "missing",
         \A j \in Instances \ {i} : todo'[j] = todo[j] /\ mem'[j] = mem[j],
         UNCHANGED <<ckptFile, ckpt, ok, cur, entry, kube, allocation, lost>>
  PROVE  IInv'
<1> USE DEF IInv
<1>1. pc \in [Instances -> Steps] /\ s \notin CallSteps /\ pc[i] \notin CallSteps
  BY DEF TypeOK, ProcessTypes, StartupSteps, CallSteps, PrepareSteps, UnprepareSteps
<1>2. OneCall'
  BY <1>1 DEF OneCall
<1>3. FirstCheckpoint'
  BY <1>1 DEF FirstCheckpoint, Serving, StartupSteps, Empty
<1>4. MemIsCurrent'
  BY <1>1 DEF MemIsCurrent, CallSteps, PrepareSteps, UnprepareSteps
<1>5. BatchIsHeld'
  <2>1. pc'[i] \notin CallSteps /\ ok'[i] = {}
    BY <1>1 DEF BatchIsHeld
  <2>2. \A j \in Instances \ {i} : pc'[j] = pc[j]
    BY <1>1
  <2> QED
    BY <2>1, <2>2 DEF BatchIsHeld, CallSteps
<1>6. EntryIsBuilt'
  BY <1>1 DEF EntryIsBuilt, CallSteps, PrepareSteps
<1>7. HeldIsAllocated' /\ EntryMatchesAllocation' /\ RunningIsRecorded'
  BY DEF HeldIsAllocated, EntryMatchesAllocation, RunningIsRecorded
<1> QED
  BY <1>2, <1>3, <1>4, <1>5, <1>6, <1>7

LEMMA BeforeCheckpointKeepsIInv ==
  ASSUME IInv, NEW i \in Instances, CreateCommonSpecFile(i) \/ ListCheckpoints(i)
  PROVE  IInv'
<1> USE DEF GoTo, disk, work, view, world
<1>1. TypeOK'
  BY DEF CreateCommonSpecFile, ListCheckpoints, IInv, TypeOK, DiskTypes, ProcessTypes, ViewTypes,
         WorldTypes, Steps, StartupSteps
<1>2. pc[i] \in StartupSteps
  BY DEF CreateCommonSpecFile, ListCheckpoints, StartupSteps
<1>3. PICK s \in {"list", "create", "load"} :
        /\ pc' = [pc EXCEPT ![i] = s]
        /\ s = "create" => ckptFile = "missing"
        /\ s = "load" => ckptFile # "missing"
  BY DEF CreateCommonSpecFile, ListCheckpoints
<1>4. UNCHANGED <<ckptFile, ckpt, todo, ok, cur, mem, entry, kube, allocation, lost>>
  BY DEF CreateCommonSpecFile, ListCheckpoints
<1> QED
  BY <1>1, <1>2, <1>3, <1>4, StartupStepKeepsIInv DEF StartupSteps

LEMMA CreateFirstCheckpointKeepsIInv ==
  ASSUME IInv, NEW i \in Instances, CreateFirstCheckpoint(i)
  PROVE  IInv'
<1> USE DEF GoTo, disk, work, view, world
<1>1. ckpt' = ckpt
  BY DEF CreateFirstCheckpoint, IInv, FirstCheckpoint
<1>2. TypeOK'
  BY <1>1
  DEF CreateFirstCheckpoint, IInv, TypeOK, DiskTypes, ProcessTypes, ViewTypes, WorldTypes, Steps,
      StartupSteps
<1>3. pc' = [pc EXCEPT ![i] = "load"] /\ pc \in [Instances -> Steps] /\ pc[i] = "create"
  BY DEF CreateFirstCheckpoint, IInv, TypeOK, ProcessTypes
<1>4. UNCHANGED <<ckpt, todo, ok, cur, mem, entry, kube, allocation, lost>>
  BY <1>1 DEF CreateFirstCheckpoint
<1>5. OneCall'
  BY <1>3 DEF IInv, OneCall, CallSteps, PrepareSteps, UnprepareSteps
<1>6. FirstCheckpoint'
  <2>1. \A j \in Instances \ {i} : pc[j] # "create"
    BY <1>3 DEF IInv, FirstCheckpoint
  <2> QED
    BY <1>3, <2>1 DEF CreateFirstCheckpoint, IInv, FirstCheckpoint
<1>7. MemIsCurrent' /\ BatchIsHeld' /\ EntryIsBuilt'
  <2>1. pc'[i] = "load" /\ \A j \in Instances \ {i} : pc'[j] = pc[j]
    BY <1>3
  <2>2. "create" \notin CallSteps /\ "load" \notin CallSteps
    BY DEF CallSteps, PrepareSteps, UnprepareSteps
  <2>3. ok'[i] = {}
    BY <1>3, <1>4, <2>2 DEF IInv, BatchIsHeld
  <2> QED
    BY <1>4, <2>1, <2>2, <2>3, OutsideCalls DEF IInv
<1>8. HeldIsAllocated' /\ EntryMatchesAllocation' /\ RunningIsRecorded'
  BY <1>4 DEF IInv, HeldIsAllocated, EntryMatchesAllocation, RunningIsRecorded
<1> QED
  BY <1>2, <1>5, <1>6, <1>7, <1>8 DEF IInv

LEMMA ReconcileKeepsIInv ==
  ASSUME IInv, NEW i \in Instances,
         \/ ReconcileLoad(i)
         \/ \E c \in Claims : ReconcileWrite(i, c) \/ PruneRemove(i, c)
         \/ PruneList(i)
         \/ Serve(i)
  PROVE  IInv'
<1> USE DEF GoTo, disk, view, world
<1>1. TypeOK'
  <2> USE DEF IInv, TypeOK
  <2>1. DiskTypes'
    <3>1. CASE ReconcileLoad(i) \/ PruneList(i) \/ Serve(i)
      BY <3>1 DEF ReconcileLoad, PruneList, Serve, DiskTypes
    <3>2. ASSUME NEW c \in Claims, ReconcileWrite(i, c) PROVE DiskTypes'
      <4>1. mem[i][c] \in Entries \cup {None}
        BY DEF ProcessTypes
      <4> QED
        BY <3>2, <4>1, SpecWritten DEF ReconcileWrite
    <3>3. ASSUME NEW c \in Claims, PruneRemove(i, c) PROVE DiskTypes'
      BY <3>3, SpecWritten DEF PruneRemove
    <3> QED
      BY <3>1, <3>2, <3>3
  <2>2. ProcessTypes'
    <3>1. Empty \in [Claims -> Entries \cup {None}]
      BY DEF Empty
    <3>2. CASE ReconcileLoad(i)
      BY <3>2 DEF ReconcileLoad, DiskTypes, ProcessTypes, Steps, StartupSteps, Recorded
    <3>3. CASE \E c \in Claims : ReconcileWrite(i, c) \/ PruneRemove(i, c)
      <4>1. todo' \in [Instances -> SUBSET Claims]
        <5>1. PICK c \in Claims : todo' = [todo EXCEPT ![i] = @ \ {c}]
          BY <3>3 DEF ReconcileWrite, PruneRemove
        <5>2. todo \in [Instances -> SUBSET Claims]
          BY DEF ProcessTypes
        <5> HIDE DEF IInv
        <5> QED
          BY <5>1, <5>2
      <4>2. UNCHANGED <<pc, ok, cur, mem, entry, skipped>>
        BY <3>3 DEF ReconcileWrite, PruneRemove
      <4> QED
        BY <4>1, <4>2 DEF ProcessTypes
    <3>4. CASE PruneList(i)
      BY <3>4 DEF PruneList, ProcessTypes, Steps, StartupSteps, Recorded
    <3>5. CASE Serve(i)
      BY <3>1, <3>5 DEF Serve, ProcessTypes, Steps, Serving
    <3> QED
      BY <3>2, <3>3, <3>4, <3>5
  <2>3. ViewTypes' /\ WorldTypes'
    BY DEF ReconcileLoad, ReconcileWrite, PruneRemove, PruneList, Serve, ViewTypes, WorldTypes
  <2> QED
    BY <2>1, <2>2, <2>3
<1>2. pc[i] \in {"load", "regenerate", "prune"} /\ ckptFile # "missing"
  BY DEF ReconcileLoad, ReconcileWrite, PruneRemove, PruneList, Serve, IInv, FirstCheckpoint
<1>3. PICK s \in {"regenerate", "prune", "idle"} : pc' = [pc EXCEPT ![i] = s]
  <2>1. CASE ReconcileLoad(i) \/ PruneList(i) \/ Serve(i)
    BY <2>1 DEF ReconcileLoad, PruneList, Serve
  <2>2. CASE \E c \in Claims : ReconcileWrite(i, c) \/ PruneRemove(i, c)
    <3>1. pc' = pc /\ pc[i] \in {"regenerate", "prune"}
      BY <2>2 DEF ReconcileWrite, PruneRemove
    <3>2. pc' = [pc EXCEPT ![i] = pc[i]]
      BY <3>1 DEF IInv, TypeOK, ProcessTypes
    <3> QED
      BY <3>1, <3>2
  <2> QED
    BY <2>1, <2>2
<1>4. \A j \in Instances \ {i} : todo'[j] = todo[j] /\ mem'[j] = mem[j]
  BY DEF ReconcileLoad, ReconcileWrite, PruneRemove, PruneList, Serve, IInv, TypeOK, ProcessTypes
<1>5. UNCHANGED <<ckptFile, ckpt, ok, cur, entry, kube, allocation, lost>>
  BY DEF ReconcileLoad, ReconcileWrite, PruneRemove, PruneList, Serve
<1> QED
  BY <1>1, <1>2, <1>3, <1>4, <1>5, StartupStepKeepsIInv DEF StartupSteps

LEMMA PruneRemoveJSONKeepsIInv ==
  ASSUME IInv, NEW i \in Instances, NEW c \in Claims, PruneRemoveJSON(i, c)
  PROVE  IInv'
<1> USE DEF PruneRemoveJSON, work, view, world
<1>1. TypeOK'
  BY DEF IInv, TypeOK, DiskTypes, ProcessTypes, ViewTypes, WorldTypes
<1> QED
  BY <1>1, Untouched

-----------------------------------------------------------------------------
(* Calls.                                                                   *)

LEMMA CallBeginsKeepsIInv ==
  ASSUME IInv, NEW i \in Instances, NEW batch \in SUBSET Claims,
         PrepareResourceClaims(i, batch) \/ UnprepareResourceClaims(i, batch)
  PROVE  IInv'
<1> DEFINE loop == IF PrepareResourceClaims(i, batch) THEN "prepare" ELSE "unprepare"
<1> USE DEF PrepareResourceClaims, UnprepareResourceClaims, GoTo, disk, view, world
<1>1. /\ pc[i] = "idle" /\ CallLockFree
      /\ pc' = [pc EXCEPT ![i] = loop]
      /\ todo' = [todo EXCEPT ![i] = batch]
      /\ loop \in {"prepare", "unprepare"}
      /\ loop = "prepare" => \A c \in batch : kube[c] # "none"
      /\ loop = "unprepare" => \A c \in batch : kube[c] = "releasing"
      /\ UNCHANGED <<disk, ok, cur, mem, entry, skipped, view, world, used>>
  OBVIOUS
<1> HIDE DEF loop, PrepareResourceClaims, UnprepareResourceClaims
<1>2. TypeOK'
  BY <1>1
  DEF IInv, TypeOK, DiskTypes, ProcessTypes, ViewTypes, WorldTypes, Steps, Serving, CallSteps,
      PrepareSteps, UnprepareSteps
<1>3. pc \in [Instances -> Steps] /\ todo \in [Instances -> SUBSET Claims]
  BY DEF IInv, TypeOK, ProcessTypes
<1>4. OneCall' /\ FirstCheckpoint'
  <2>1. OneCall'
    BY <1>1, <1>3 DEF OneCall, CallLockFree
  <2>2. loop \notin StartupSteps /\ loop # "create" /\ pc[i] \in Serving
    BY <1>1 DEF StartupSteps, Serving
  <2>3. FirstCheckpoint'
    BY <1>1, <1>3, <2>2 DEF IInv, FirstCheckpoint, Empty
  <2> QED
    BY <2>1, <2>3
<1>5. MemIsCurrent' /\ EntryIsBuilt'
  BY <1>1, <1>3 DEF IInv, MemIsCurrent, EntryIsBuilt
<1>6. BatchIsHeld'
  <2>1. ok[i] = {}
    BY <1>1 DEF IInv, BatchIsHeld, CallLockFree
  <2>2. \A j \in Instances : pc[j] \notin CallSteps
    BY <1>1 DEF CallLockFree
  <2>3. \A j \in Instances \ {i} : pc'[j] \notin CallSteps /\ ok'[j] = {}
    BY <1>1, <1>3, <2>2 DEF IInv, BatchIsHeld
  <2>4. pc'[i] = loop /\ todo'[i] = batch /\ ok'[i] = {}
    BY <1>1, <1>3, <2>1
  <2> QED
    BY <1>1, <2>3, <2>4 DEF BatchIsHeld, CallSteps, PrepareSteps, UnprepareSteps
<1>7. HeldIsAllocated' /\ EntryMatchesAllocation' /\ RunningIsRecorded'
  BY <1>1 DEF IInv, HeldIsAllocated, EntryMatchesAllocation, RunningIsRecorded
<1> QED
  BY <1>2, <1>4, <1>5, <1>6, <1>7 DEF IInv

(* The one call in progress, at instance i, goes to another of its steps. *)
LEMMA SameCall ==
  ASSUME IInv, NEW i \in Instances, pc[i] \in CallSteps, NEW s \in CallSteps, GoTo(i, s)
  PROVE  /\ OneCall'
         /\ pc' = [pc EXCEPT ![i] = s] /\ pc'[i] = s
         /\ \A j \in Instances \ {i} : pc[j] \notin CallSteps /\ pc'[j] = pc[j]
         /\ ckptFile' # "missing" => FirstCheckpoint'
<1>1. pc \in [Instances -> Steps] /\ pc' = [pc EXCEPT ![i] = s]
  BY DEF IInv, TypeOK, ProcessTypes, GoTo
<1>2. \A j \in Instances \ {i} : pc[j] \notin CallSteps /\ pc'[j] = pc[j]
  BY <1>1 DEF IInv, OneCall
<1>3. s \notin StartupSteps /\ s \in Serving /\ pc[i] \in Serving
  BY DEF CallSteps, PrepareSteps, UnprepareSteps, StartupSteps, Serving
<1>4. OneCall'
  BY <1>1, <1>2, <1>3 DEF IInv, OneCall
<1>5. ckptFile' # "missing" => FirstCheckpoint'
  <2>1. \A j \in Instances : pc'[j] # "create"
    BY <1>1, <1>3 DEF IInv, FirstCheckpoint, StartupSteps
  <2> QED
    BY <2>1 DEF FirstCheckpoint
<1> QED
  BY <1>1, <1>2, <1>4, <1>5

(* A call that is done with claim c holds the claims left and answered. *)
LEMMA BatchStaysHeld ==
  ASSUME IInv, NEW i \in Instances, NEW c \in todo[i], NEW loop, NEW succeeded \in BOOLEAN,
         Return(i, c, loop, succeeded), kube' = kube, pc'[i] = loop,
         \A j \in Instances \ {i} : pc[j] \notin CallSteps /\ pc'[j] = pc[j],
         \/ loop = "prepare" /\ pc[i] \in PrepareSteps /\ \A x \in ok'[i] : ckpt'[x] # None
         \/ loop = "unprepare" /\ pc[i] \in UnprepareSteps /\ \A x \in ok'[i] : ckpt'[x] = None
  PROVE  BatchIsHeld'
<1>1. \A x \in todo'[i] \cup ok'[i] : x \in todo[i] \cup ok[i]
  BY DEF Return, IInv, TypeOK, ProcessTypes
<1>2. \A j \in Instances \ {i} : ok'[j] = ok[j]
  BY DEF Return, IInv, TypeOK, ProcessTypes
<1>3. BatchIsHeld
  BY DEF IInv
<1>4. \A j \in Instances \ {i} :
        /\ pc'[j] \notin CallSteps /\ ok'[j] = {}
        /\ pc'[j] \notin PrepareSteps /\ pc'[j] \notin UnprepareSteps
  BY <1>2, <1>3 DEF BatchIsHeld, CallSteps
<1>5. CASE loop = "prepare"
  <2>1. pc[i] \in PrepareSteps /\ \A x \in ok'[i] : ckpt'[x] # None
    BY <1>5
  <2>2. \A x \in todo'[i] \cup ok'[i] : kube'[x] # "none"
    BY <1>1, <1>3, <2>1 DEF BatchIsHeld
  <2>3. pc'[i] \in CallSteps /\ pc'[i] \notin UnprepareSteps
    BY <1>5 DEF CallSteps, PrepareSteps, UnprepareSteps
  <2> QED
    BY <1>4, <2>1, <2>2, <2>3 DEF BatchIsHeld
<1>6. CASE loop = "unprepare"
  <2>1. pc[i] \in UnprepareSteps /\ \A x \in ok'[i] : ckpt'[x] = None
    BY <1>6
  <2>2. \A x \in todo'[i] \cup ok'[i] : kube'[x] = "releasing"
    BY <1>1, <1>3, <2>1 DEF BatchIsHeld
  <2>3. pc'[i] \in CallSteps /\ pc'[i] \notin PrepareSteps
    BY <1>6 DEF CallSteps, PrepareSteps, UnprepareSteps
  <2> QED
    BY <1>4, <2>1, <2>2, <2>3 DEF BatchIsHeld
<1> QED
  BY <1>5, <1>6

(* The call is done with claim c, and has not written the checkpoint. *)
LEMMA ReturnKeepsIInv ==
  ASSUME IInv, NEW i \in Instances, NEW c \in todo[i], NEW loop, NEW succeeded \in BOOLEAN,
         \/ loop = "prepare" /\ pc[i] \in PrepareSteps /\ (succeeded => ckpt[c] # None)
         \/ loop = "unprepare" /\ pc[i] \in UnprepareSteps /\ (succeeded => ckpt[c] = None),
         Return(i, c, loop, succeeded),
         DiskTypes', WorldTypes', UNCHANGED <<ckptFile, ckpt, kube, allocation, lost>>
  PROVE  IInv'
<1>1. loop \in {"prepare", "unprepare"} /\ pc[i] \in CallSteps /\ loop \in CallSteps
  BY DEF CallSteps, PrepareSteps, UnprepareSteps
<1>2. TypeOK'
  <2>1. c \in Claims /\ loop \in Steps
    BY <1>1 DEF IInv, TypeOK, ProcessTypes, Steps, Serving
  <2>2. ProcessTypes' /\ ViewTypes'
    BY <2>1, ReturnTypes DEF IInv, TypeOK
  <2> QED
    BY <2>2 DEF TypeOK
<1>3. /\ OneCall' /\ FirstCheckpoint' /\ pc'[i] = loop
      /\ \A j \in Instances \ {i} : pc[j] \notin CallSteps /\ pc'[j] = pc[j]
  BY <1>1, SameCall DEF Return, IInv, FirstCheckpoint, Serving
<1>4. MemIsCurrent' /\ EntryIsBuilt'
  BY <1>1, <1>3 DEF MemIsCurrent, EntryIsBuilt, CallSteps, PrepareSteps, UnprepareSteps
<1>5. BatchIsHeld'
  <2>1. ok'[i] = IF succeeded THEN ok[i] \cup {c} ELSE ok[i]
    BY DEF Return, IInv, TypeOK, ProcessTypes
  <2>2. /\ pc[i] \in PrepareSteps => \A x \in ok[i] : ckpt[x] # None
        /\ pc[i] \in UnprepareSteps => \A x \in ok[i] : ckpt[x] = None
    BY DEF IInv, BatchIsHeld
  <2>3. \/ loop = "prepare" /\ pc[i] \in PrepareSteps /\ \A x \in ok'[i] : ckpt'[x] # None
        \/ loop = "unprepare" /\ pc[i] \in UnprepareSteps /\ \A x \in ok'[i] : ckpt'[x] = None
    BY <2>1, <2>2
  <2> QED
    BY <1>3, <2>3, BatchStaysHeld
<1>6. HeldIsAllocated' /\ EntryMatchesAllocation' /\ RunningIsRecorded'
  BY DEF IInv, HeldIsAllocated, EntryMatchesAllocation, RunningIsRecorded
<1> QED
  BY <1>2, <1>3, <1>4, <1>5, <1>6 DEF IInv

(* The call goes on to step s with the claim it is at. *)
LEMMA AdvanceKeepsIInv ==
  ASSUME IInv, TypeOK', NEW i \in Instances, NEW s \in CallSteps \ {"prepare", "unprepare"},
         \/ pc[i] \in PrepareSteps /\ s \in PrepareSteps
         \/ pc[i] \in UnprepareSteps /\ s \in UnprepareSteps,
         GoTo(i, s),
         cur'[i] \in todo[i],
         s # "fresh" => mem'[i] = ckpt,
         s \in {"apply", "spec", "commit"} => ckpt[cur'[i]] = None,
         s = "rewrite" => ckpt[cur'[i]] # None,
         s \in {"spec", "commit"} =>
           entry'[i] \in Entries /\ DOMAIN entry'[i] = allocation[cur'[i]],
         UNCHANGED <<ckptFile, ckpt, todo, ok, kube, allocation, lost>>
  PROVE  IInv'
<1>1. pc[i] \in CallSteps
  BY DEF CallSteps
<1>2. /\ OneCall' /\ FirstCheckpoint' /\ pc'[i] = s
      /\ \A j \in Instances \ {i} : pc[j] \notin CallSteps /\ pc'[j] = pc[j]
  BY <1>1, SameCall DEF IInv, FirstCheckpoint, Serving
<1>3. MemIsCurrent'
  BY <1>2 DEF MemIsCurrent, CallSteps, PrepareSteps, UnprepareSteps
<1>4. EntryIsBuilt'
  BY <1>2 DEF EntryIsBuilt, CallSteps, PrepareSteps, UnprepareSteps
<1>5. BatchIsHeld'
  <2>1. PrepareSteps \cap UnprepareSteps = {}
    BY DEF PrepareSteps, UnprepareSteps
  <2>2. /\ s \in PrepareSteps => pc[i] \in PrepareSteps
        /\ s \in UnprepareSteps => pc[i] \in UnprepareSteps
    BY <2>1
  <2>3. BatchIsHeld
    BY DEF IInv
  <2> QED
    BY <1>1, <1>2, <2>2, <2>3 DEF BatchIsHeld
<1>6. HeldIsAllocated' /\ EntryMatchesAllocation' /\ RunningIsRecorded'
  BY DEF IInv, HeldIsAllocated, EntryMatchesAllocation, RunningIsRecorded
<1> QED
  BY <1>2, <1>3, <1>4, <1>5, <1>6 DEF IInv

LEMMA ContinueKeepsIInv ==
  ASSUME IInv, NEW i \in Instances, NEW c \in todo[i], NEW s \in {"apply", "rewrite", "delete"},
         \/ pc[i] \in PrepareSteps /\ s \in PrepareSteps
         \/ pc[i] \in UnprepareSteps /\ s \in UnprepareSteps,
         Continue(i, c, s),
         s = "apply" => ckpt[c] = None,
         s = "rewrite" => ckpt[c] # None,
         UNCHANGED <<disk, world, used>>
  PROVE  IInv'
<1>1. s \in CallSteps \ {"prepare", "unprepare"} /\ s \in Steps /\ c \in Claims
  BY DEF CallSteps, PrepareSteps, UnprepareSteps, Steps, Serving, IInv, TypeOK, ProcessTypes
<1>2. TypeOK'
  <2>1. ProcessTypes' /\ ViewTypes'
    BY <1>1, ContinueTypes DEF IInv, TypeOK
  <2> QED
    BY <2>1 DEF IInv, TypeOK, DiskTypes, WorldTypes, disk, world
<1>3. GoTo(i, s) /\ cur'[i] = c /\ mem'[i] = ckpt
  BY DEF Continue, IInv, TypeOK, ProcessTypes
<1>4. UNCHANGED <<ckptFile, ckpt, todo, ok, kube, allocation, lost>>
  BY DEF Continue, disk, world
<1> QED
  BY <1>1, <1>2, <1>3, <1>4, AdvanceKeepsIInv

LEMMA LoadKeepsIInv ==
  ASSUME IInv, NEW i \in Instances, NEW c \in Claims, PrepareLoad(i, c) \/ UnprepareLoad(i, c)
  PROVE  IInv'
<1>1. c \in todo[i] /\ UNCHANGED <<disk, world, used>>
  BY DEF PrepareLoad, UnprepareLoad
<1>2. DiskTypes' /\ WorldTypes' /\ UNCHANGED <<ckptFile, ckpt, kube, allocation, lost>>
  BY <1>1 DEF IInv, TypeOK, DiskTypes, WorldTypes, disk, world
<1>3. CASE PrepareLoad(i, c)
  <2>1. pc[i] \in PrepareSteps /\ "apply" \in PrepareSteps /\ "rewrite" \in PrepareSteps
    BY <1>3 DEF PrepareLoad, PrepareSteps
  <2>2. CASE Return(i, c, "prepare", FALSE)
    BY <1>1, <1>2, <2>1, <2>2, ReturnKeepsIInv
  <2>3. CASE ckpt[c] # None /\ Continue(i, c, "rewrite")
    BY <1>1, <2>1, <2>3, ContinueKeepsIInv
  <2>4. CASE ckpt[c] = None /\ Continue(i, c, "apply")
    BY <1>1, <2>1, <2>4, ContinueKeepsIInv
  <2> QED
    BY <1>3, <2>2, <2>3, <2>4 DEF PrepareLoad
<1>4. CASE UnprepareLoad(i, c)
  <2>1. pc[i] \in UnprepareSteps /\ "delete" \in UnprepareSteps
    BY <1>4 DEF UnprepareLoad, UnprepareSteps
  <2>2. CASE ckpt[c] = None /\ Return(i, c, "unprepare", TRUE)
    BY <1>1, <1>2, <2>1, <2>2, ReturnKeepsIInv
  <2>3. CASE ckpt[c] # None /\ Continue(i, c, "delete")
    BY <1>1, <2>1, <2>3, ContinueKeepsIInv
  <2> QED
    BY <1>4, <2>2, <2>3 DEF UnprepareLoad
<1> QED
  BY <1>3, <1>4

LEMMA PrepareUnreadableKeepsIInv ==
  ASSUME IInv, NEW i \in Instances, NEW c \in Claims, PrepareUnreadable(i, c)
  PROVE  IInv'
<1>1. used' \in [Events -> Nat]
  BY HappensTypes DEF PrepareUnreadable, IInv, TypeOK, WorldTypes, Events
<1>2. DiskTypes' /\ WorldTypes' /\ UNCHANGED <<ckptFile, ckpt, kube, allocation, lost>>
  BY <1>1 DEF PrepareUnreadable, IInv, TypeOK, DiskTypes, WorldTypes, disk, world
<1> QED
  BY <1>2, ReturnKeepsIInv DEF PrepareUnreadable, PrepareSteps

LEMMA UnprepareUnreadableKeepsIInv ==
  ASSUME IInv, NEW i \in Instances, NEW c \in Claims, UnprepareUnreadable(i, c)
  PROVE  IInv'
<1>1. used' \in [Events -> Nat]
  BY HappensTypes DEF UnprepareUnreadable, IInv, TypeOK, WorldTypes, Events
<1>2. /\ c \in todo[i] /\ pc[i] \in UnprepareSteps /\ GoTo(i, "fresh")
      /\ cur' = [cur EXCEPT ![i] = c]
      /\ UNCHANGED <<disk, todo, ok, mem, entry, skipped, view, world>>
  BY DEF UnprepareUnreadable, UnprepareSteps
<1>3. TypeOK'
  <2>1. DiskTypes' /\ WorldTypes' /\ ViewTypes'
    BY <1>1, <1>2 DEF IInv, TypeOK, DiskTypes, WorldTypes, ViewTypes, disk, view, world
  <2>2. ProcessTypes'
    BY <1>2
    DEF IInv, TypeOK, ProcessTypes, GoTo, Steps, Serving, CallSteps, UnprepareSteps
  <2> QED
    BY <2>1, <2>2 DEF TypeOK
<1>4. cur'[i] = c
  BY <1>2 DEF IInv, TypeOK, ProcessTypes
<1> QED
  BY <1>2, <1>3, <1>4, AdvanceKeepsIInv DEF CallSteps, UnprepareSteps, disk, world

(* The claim a call is at. *)
LEMMA CurrentClaim ==
  ASSUME IInv, NEW i \in Instances, pc[i] \in CallSteps \ {"prepare", "unprepare"}
  PROVE  cur[i] \in todo[i] /\ cur[i] \in Claims
BY DEF IInv, MemIsCurrent, TypeOK, ProcessTypes

LEMMA ApplyConfigKeepsIInv ==
  ASSUME IInv, NEW i \in Instances, ApplyConfig(i)
  PROVE  IInv'
<1>1. /\ pc[i] = "apply" /\ pc[i] \in PrepareSteps /\ pc[i] \in CallSteps \ {"prepare", "unprepare"}
      /\ UNCHANGED <<disk, world, used>>
  BY DEF ApplyConfig, CallSteps, PrepareSteps
<1>2. DiskTypes' /\ WorldTypes' /\ UNCHANGED <<ckptFile, ckpt, kube, allocation, lost>>
  BY <1>1 DEF IInv, TypeOK, DiskTypes, WorldTypes, disk, world
<1>3. cur[i] \in todo[i] /\ cur[i] \in Claims
  BY <1>1, CurrentClaim
<1>4. CASE Return(i, cur[i], "prepare", FALSE)
  BY <1>1, <1>2, <1>3, <1>4, ReturnKeepsIInv
<1>5. CASE /\ allocation[cur[i]] \subseteq DOMAIN units[i]
           /\ entry' = [entry EXCEPT ![i] = [d \in allocation[cur[i]] |-> units[i][d]]]
           /\ GoTo(i, "spec")
           /\ UNCHANGED <<todo, ok, cur, mem, skipped, view>>
  <2> DEFINE e == [d \in allocation[cur[i]] |-> units[i][d]]
  <2>1. allocation[cur[i]] \in Allocations
    BY <1>1, <1>3 DEF IInv, BatchIsHeld, HeldIsAllocated
  <2>2. \A d \in allocation[cur[i]] : units[i][d] \in Edits
    <3>1. units[i] \in Topologies \cup {NoUnits}
      BY DEF IInv, TypeOK, ViewTypes
    <3>2. units[i] # NoUnits
      <4>1. allocation[cur[i]] # {}
        BY <2>1, AllocationsAssumption
      <4> QED
        BY <1>5, <4>1 DEF NoUnits
    <3> QED
      BY <1>5, <3>1, <3>2, TopologiesAssumption
  <2>3. e \in Entries /\ DOMAIN e = allocation[cur[i]]
    BY <2>1, <2>2 DEF Entries
  <2>4. entry'[i] = e
    BY <1>5 DEF IInv, TypeOK, ProcessTypes
  <2>5. ProcessTypes' /\ ViewTypes'
    BY <1>5, <2>3
    DEF IInv, TypeOK, ProcessTypes, ViewTypes, GoTo, Steps, Serving, CallSteps, PrepareSteps, view
  <2>6. ckpt[cur[i]] = None /\ mem[i] = ckpt
    BY <1>1 DEF IInv, EntryIsBuilt, MemIsCurrent
  <2> HIDE DEF e
  <2>7. /\ cur'[i] \in todo[i] /\ mem'[i] = ckpt /\ ckpt[cur'[i]] = None
        /\ entry'[i] \in Entries /\ DOMAIN entry'[i] = allocation[cur'[i]]
        /\ UNCHANGED <<ckptFile, ckpt, todo, ok, kube, allocation, lost>>
    BY <1>2, <1>3, <1>5, <2>3, <2>4, <2>6
  <2>8. "spec" \in CallSteps \ {"prepare", "unprepare"} /\ "spec" \in PrepareSteps
    BY DEF CallSteps, PrepareSteps
  <2> QED
    BY <1>1, <1>2, <1>5, <2>5, <2>7, <2>8, AdvanceKeepsIInv DEF TypeOK
<1> QED
  BY <1>4, <1>5 DEF ApplyConfig

LEMMA SpecFileKeepsIInv ==
  ASSUME IInv, NEW i \in Instances, PrepareWriteSpec(i) \/ UnprepareDeleteSpec(i)
  PROVE  IInv'
<1> DEFINE s == IF PrepareWriteSpec(i) THEN "commit" ELSE "forget"
<1>1. /\ pc[i] = IF s = "commit" THEN "spec" ELSE "delete"
      /\ s \in {"commit", "forget"} /\ GoTo(i, s)
      /\ specs' = [specs EXCEPT ![cur[i]] = IF s = "commit" THEN entry[i] ELSE None]
      /\ UNCHANGED <<ckptFile, ckpt, common, jsons, work, skipped, view, world, used>>
  BY DEF PrepareWriteSpec, UnprepareDeleteSpec
<1> HIDE DEF s
<1>2. pc[i] \in CallSteps \ {"prepare", "unprepare"} /\ s \in CallSteps \ {"prepare", "unprepare"}
  BY <1>1 DEF CallSteps, PrepareSteps, UnprepareSteps
<1>3. cur[i] \in todo[i] /\ cur[i] \in Claims
  BY <1>2, CurrentClaim
<1>4. TypeOK'
  <2>1. DiskTypes'
    BY <1>1, <1>3 DEF IInv, TypeOK, DiskTypes, ProcessTypes
  <2>2. ProcessTypes' /\ ViewTypes' /\ WorldTypes'
    BY <1>1, <1>2
    DEF IInv, TypeOK, ProcessTypes, ViewTypes, WorldTypes, GoTo, Steps, Serving, work, view, world
  <2> QED
    BY <2>1, <2>2 DEF TypeOK
<1>5. /\ mem[i] = ckpt
      /\ s = "commit" => /\ ckpt[cur[i]] = None
                         /\ entry[i] \in Entries /\ DOMAIN entry[i] = allocation[cur[i]]
  BY <1>1 DEF IInv, MemIsCurrent, EntryIsBuilt
<1>6. UNCHANGED <<ckptFile, ckpt, todo, ok, cur, mem, entry, kube, allocation, lost>>
  BY <1>1 DEF work, world
<1>7. \/ pc[i] \in PrepareSteps /\ s \in PrepareSteps
      \/ pc[i] \in UnprepareSteps /\ s \in UnprepareSteps
  BY <1>1 DEF PrepareSteps, UnprepareSteps
<1> QED
  BY <1>1, <1>2, <1>3, <1>4, <1>5, <1>6, <1>7, AdvanceKeepsIInv

LEMMA PrepareRewriteSpecKeepsIInv ==
  ASSUME IInv, NEW i \in Instances, PrepareRewriteSpec(i)
  PROVE  IInv'
<1>1. /\ pc[i] = "rewrite" /\ pc[i] \in CallSteps \ {"prepare", "unprepare"}
      /\ pc[i] \in PrepareSteps
  BY DEF PrepareRewriteSpec, CallSteps, PrepareSteps
<1>2. cur[i] \in todo[i] /\ cur[i] \in Claims
  BY <1>1, CurrentClaim
<1>3. DiskTypes' /\ WorldTypes'
  <2>1. mem[i][cur[i]] \in Entries \cup {None}
    BY <1>2 DEF IInv, TypeOK, ProcessTypes
  <2>2. DiskTypes'
    BY <1>2, <2>1, SpecWritten DEF PrepareRewriteSpec, IInv, TypeOK
  <2>3. WorldTypes'
    BY DEF PrepareRewriteSpec, IInv, TypeOK, WorldTypes, world
  <2> QED
    BY <2>2, <2>3
<1>4. ckpt[cur[i]] # None
  BY <1>1 DEF IInv, EntryIsBuilt
<1> QED
  BY <1>1, <1>2, <1>3, <1>4, ReturnKeepsIInv DEF PrepareRewriteSpec, world

LEMMA CallFailsKeepsIInv ==
  ASSUME IInv, NEW i \in Instances, PrepareFails(i) \/ UnprepareFails(i)
  PROVE  IInv'
<1>1. pc[i] \in CallSteps \ {"prepare", "unprepare"}
  BY DEF PrepareFails, UnprepareFails, CallSteps, PrepareSteps, UnprepareSteps
<1>2. cur[i] \in todo[i] /\ cur[i] \in Claims
  BY <1>1, CurrentClaim
<1>3. used' \in [Events -> Nat]
  BY HappensTypes DEF PrepareFails, UnprepareFails, IInv, TypeOK, Events
<1>4. DiskTypes' /\ WorldTypes' /\ UNCHANGED <<ckptFile, ckpt, kube, allocation, lost>>
  BY <1>3
  DEF PrepareFails, UnprepareFails, IInv, TypeOK, DiskTypes, WorldTypes, disk, world
<1>5. CASE PrepareFails(i)
  BY <1>2, <1>4, <1>5, ReturnKeepsIInv DEF PrepareFails, PrepareSteps
<1>6. CASE UnprepareFails(i)
  BY <1>2, <1>4, <1>6, ReturnKeepsIInv DEF UnprepareFails, UnprepareSteps
<1> QED
  BY <1>5, <1>6

(* The call writes the checkpoint and is done with its claim. *)
LEMMA CommitKeepsIInv ==
  ASSUME IInv, NEW i \in Instances, NEW loop, pc[i] \in CallSteps \ {"prepare", "unprepare"},
         \/ loop = "prepare" /\ pc[i] \in PrepareSteps /\ ckpt'[cur[i]] # None
         \/ loop = "unprepare" /\ pc[i] \in UnprepareSteps /\ ckpt'[cur[i]] = None,
         Return(i, cur[i], loop, TRUE),
         ckptFile' = "valid", DiskTypes', WorldTypes', UNCHANGED <<kube, allocation>>,
         pc[i] \in PrepareSteps =>
           \A c \in Claims \ {cur[i]} : ckpt[c] # None => ckpt'[c] # None,
         pc[i] \in UnprepareSteps =>
           \A c \in Claims \ {cur[i]} : ckpt[c] = None => ckpt'[c] = None,
         EntryMatchesAllocation', RunningIsRecorded'
  PROVE  IInv'
<1>1. cur[i] \in todo[i] /\ cur[i] \in Claims
  BY CurrentClaim
<1>2. loop \in {"prepare", "unprepare"} /\ loop \in CallSteps /\ loop \in Steps
  BY DEF CallSteps, PrepareSteps, UnprepareSteps, Steps, Serving
<1>3. TypeOK'
  BY <1>1, <1>2, ReturnTypes DEF IInv, TypeOK
<1>4. /\ OneCall' /\ FirstCheckpoint' /\ pc'[i] = loop
      /\ \A j \in Instances \ {i} : pc[j] \notin CallSteps /\ pc'[j] = pc[j]
  BY <1>2, SameCall DEF Return
<1>5. MemIsCurrent' /\ EntryIsBuilt'
  BY <1>2, <1>4 DEF MemIsCurrent, EntryIsBuilt, CallSteps, PrepareSteps, UnprepareSteps
<1>6. BatchIsHeld'
  <2>1. ok'[i] = ok[i] \cup {cur[i]} /\ ok[i] \subseteq Claims
    BY DEF Return, IInv, TypeOK, ProcessTypes
  <2>2. /\ pc[i] \in PrepareSteps => \A x \in ok[i] : ckpt[x] # None
        /\ pc[i] \in UnprepareSteps => \A x \in ok[i] : ckpt[x] = None
    BY DEF IInv, BatchIsHeld
  <2>3. \/ loop = "prepare" /\ pc[i] \in PrepareSteps /\ \A x \in ok'[i] : ckpt'[x] # None
        \/ loop = "unprepare" /\ pc[i] \in UnprepareSteps /\ \A x \in ok'[i] : ckpt'[x] = None
    BY <2>1, <2>2
  <2> QED
    BY <1>1, <1>4, <2>3, BatchStaysHeld
<1>7. HeldIsAllocated'
  BY DEF IInv, HeldIsAllocated
<1> QED
  BY <1>3, <1>4, <1>5, <1>6, <1>7 DEF IInv

LEMMA PrepareCommitKeepsIInv ==
  ASSUME IInv, NEW i \in Instances, PrepareCommit(i)
  PROVE  IInv'
<1>1. /\ pc[i] = "commit" /\ pc[i] \in CallSteps \ {"prepare", "unprepare"}
      /\ pc[i] \in PrepareSteps /\ pc[i] \notin UnprepareSteps
  BY DEF PrepareCommit, CallSteps, PrepareSteps, UnprepareSteps
<1>2. cur[i] \in todo[i] /\ cur[i] \in Claims
  BY <1>1, CurrentClaim
<1>3. /\ entry[i] \in Entries /\ entry[i] # None /\ DOMAIN entry[i] = allocation[cur[i]]
      /\ kube[cur[i]] # "none"
  BY <1>1, <1>2, NoneAssumption DEF IInv, EntryIsBuilt, BatchIsHeld
<1>4. ckpt' = [ckpt EXCEPT ![cur[i]] = entry[i]]
  BY <1>1 DEF PrepareCommit, IInv, MemIsCurrent
<1>5. DiskTypes' /\ WorldTypes'
  BY <1>2, <1>3, <1>4 DEF PrepareCommit, IInv, TypeOK, DiskTypes, WorldTypes
<1>6. /\ ckpt'[cur[i]] = entry[i]
      /\ \A c \in Claims \ {cur[i]} : ckpt'[c] = ckpt[c]
  BY <1>2, <1>4 DEF IInv, TypeOK, DiskTypes
<1>7. EntryMatchesAllocation' /\ RunningIsRecorded'
  BY <1>3, <1>6 DEF PrepareCommit, IInv, EntryMatchesAllocation, RunningIsRecorded
<1> QED
  BY <1>1, <1>3, <1>5, <1>6, <1>7, CommitKeepsIInv DEF PrepareCommit

LEMMA UnprepareFreshKeepsIInv ==
  ASSUME IInv, NEW i \in Instances, UnprepareFresh(i)
  PROVE  IInv'
<1>1. /\ pc[i] \in CallSteps \ {"prepare", "unprepare"}
      /\ pc[i] \in UnprepareSteps /\ pc[i] \notin PrepareSteps
  BY DEF UnprepareFresh, CallSteps, PrepareSteps, UnprepareSteps
<1>2. cur[i] \in todo[i] /\ cur[i] \in Claims
  BY <1>1, CurrentClaim
<1>3. \A c \in Claims : ckpt'[c] = None
  BY DEF UnprepareFresh, Empty
<1>4. DiskTypes' /\ WorldTypes'
  BY DEF UnprepareFresh, IInv, TypeOK, DiskTypes, WorldTypes, Empty, Recorded
<1>5. EntryMatchesAllocation' /\ RunningIsRecorded'
  BY <1>3 DEF UnprepareFresh, IInv, EntryMatchesAllocation, RunningIsRecorded, Recorded
<1> QED
  BY <1>1, <1>2, <1>3, <1>4, <1>5, CommitKeepsIInv DEF UnprepareFresh

LEMMA UnprepareCommitKeepsIInv ==
  ASSUME IInv, NEW i \in Instances, UnprepareCommit(i)
  PROVE  IInv'
<1>1. /\ pc[i] = "forget" /\ pc[i] \in CallSteps \ {"prepare", "unprepare"}
      /\ pc[i] \in UnprepareSteps /\ pc[i] \notin PrepareSteps
  BY DEF UnprepareCommit, CallSteps, PrepareSteps, UnprepareSteps
<1>2. cur[i] \in todo[i] /\ cur[i] \in Claims
  BY <1>1, CurrentClaim
<1>3. kube[cur[i]] = "releasing"
  BY <1>1, <1>2 DEF IInv, BatchIsHeld
<1>4. ckpt' = [ckpt EXCEPT ![cur[i]] = None]
  BY <1>1 DEF UnprepareCommit, IInv, MemIsCurrent
<1>5. DiskTypes' /\ WorldTypes'
  BY <1>2, <1>4 DEF UnprepareCommit, IInv, TypeOK, DiskTypes, WorldTypes, world
<1>6. /\ ckpt'[cur[i]] = None
      /\ \A c \in Claims \ {cur[i]} : ckpt'[c] = ckpt[c]
  BY <1>2, <1>4 DEF IInv, TypeOK, DiskTypes
<1>7. EntryMatchesAllocation' /\ RunningIsRecorded'
  BY <1>3, <1>6 DEF UnprepareCommit, IInv, EntryMatchesAllocation, RunningIsRecorded, world
<1> QED
  BY <1>1, <1>5, <1>6, <1>7, CommitKeepsIInv DEF UnprepareCommit, world

(* The kubelet gets the answer of the call, or gives up on it. *)
LEMMA ReplyKeepsIInv ==
  ASSUME IInv, NEW i \in Instances, PrepareReply(i) \/ UnprepareReply(i)
  PROVE  IInv'
<1>1. /\ pc[i] \in CallSteps /\ GoTo(i, "idle")
      /\ ok' = [ok EXCEPT ![i] = {}]
      /\ UNCHANGED <<disk, todo, cur, mem, entry, skipped, view>>
  BY DEF PrepareReply, UnprepareReply, CallSteps, PrepareSteps, UnprepareSteps
<1>2. pc \in [Instances -> Steps] /\ pc' = [pc EXCEPT ![i] = "idle"]
  BY <1>1 DEF IInv, TypeOK, ProcessTypes, GoTo
<1>3. "idle" \notin CallSteps \cup StartupSteps /\ pc[i] \in Serving /\ "idle" \in Steps
  BY <1>1 DEF CallSteps, PrepareSteps, UnprepareSteps, StartupSteps, Serving, Steps
<1>4. \A j \in Instances : pc'[j] \notin CallSteps
  BY <1>1, <1>2, <1>3 DEF IInv, OneCall
<1>5. TypeOK'
  <2>1. DiskTypes' /\ ProcessTypes' /\ ViewTypes'
    BY <1>1, <1>2, <1>3 DEF IInv, TypeOK, DiskTypes, ProcessTypes, ViewTypes, disk, view
  <2>2. used' \in [Events -> Nat]
    BY HappensTypes DEF PrepareReply, UnprepareReply, IInv, TypeOK, WorldTypes, Events
  <2>3. WorldTypes'
    BY <2>2 DEF PrepareReply, UnprepareReply, IInv, TypeOK, WorldTypes, world
  <2> QED
    BY <2>1, <2>3 DEF TypeOK
<1>6. OneCall'
  BY <1>2, <1>3, <1>4 DEF IInv, OneCall
<1>7. FirstCheckpoint'
  BY <1>1, <1>2, <1>3 DEF IInv, FirstCheckpoint, Empty, disk
<1>8. MemIsCurrent' /\ EntryIsBuilt'
  BY <1>4 DEF MemIsCurrent, EntryIsBuilt, CallSteps, PrepareSteps, UnprepareSteps
<1>9. BatchIsHeld'
  BY <1>1, <1>2, <1>4 DEF IInv, TypeOK, ProcessTypes, BatchIsHeld, CallSteps
<1>10. HeldIsAllocated' /\ EntryMatchesAllocation' /\ RunningIsRecorded'
  <2>1. CASE PrepareReply(i)
    <3>1. \A c \in ok[i] : kube[c] # "none" /\ ckpt[c] # None
      BY <2>1 DEF PrepareReply, IInv, BatchIsHeld, PrepareSteps
    <3>2. UNCHANGED <<ckpt, allocation, lost>>
      BY <1>1, <2>1 DEF PrepareReply, disk
    <3>3. HeldIsAllocated' /\ EntryMatchesAllocation'
      BY <2>1, <3>1, <3>2
      DEF PrepareReply, IInv, TypeOK, WorldTypes, HeldIsAllocated, EntryMatchesAllocation
    <3>4. RunningIsRecorded'
      BY <2>1, <3>1, <3>2 DEF PrepareReply, IInv, TypeOK, WorldTypes, RunningIsRecorded
    <3> QED
      BY <3>3, <3>4
  <2>2. CASE UnprepareReply(i)
    <3>1. \A c \in ok[i] : kube[c] = "releasing" /\ ckpt[c] = None
      BY <2>2 DEF UnprepareReply, IInv, BatchIsHeld, UnprepareSteps
    <3> QED
      BY <1>1, <2>2, <3>1
      DEF UnprepareReply, IInv, TypeOK, WorldTypes, HeldIsAllocated, EntryMatchesAllocation,
          RunningIsRecorded, disk, world
  <2> QED
    BY <2>1, <2>2
<1> QED
  BY <1>5, <1>6, <1>7, <1>8, <1>9, <1>10 DEF IInv

-----------------------------------------------------------------------------
(* The scheduler and the kubelet.                                           *)

LEMMA PodKeepsIInv ==
  ASSUME IInv, NEW c \in Claims, Release(c) \/ \E devices \in Allocations : Want(c, devices)
  PROVE  IInv'
<1> USE DEF IInv, Release, Want
<1>1. /\ UNCHANGED <<disk, pc, work, skipped, view, lost, used>>
      /\ \A x \in Claims \ {c} : kube'[x] = kube[x] /\ allocation'[x] = allocation[x]
      /\ kube'[c] \in {"pending", "releasing"} /\ allocation'[c] \in Allocations
      /\ kube[c] # "none" => allocation'[c] = allocation[c] /\ kube'[c] = "releasing"
  BY DEF TypeOK, WorldTypes, HeldIsAllocated
<1>2. TypeOK'
  <2>1. WorldTypes'
    BY DEF TypeOK, WorldTypes
  <2>2. DiskTypes' /\ ProcessTypes' /\ ViewTypes'
    BY <1>1 DEF TypeOK, DiskTypes, ProcessTypes, ViewTypes, disk, work, view
  <2> QED
    BY <2>1, <2>2 DEF TypeOK
<1> HIDE DEF Release, Want
<1>3. OneCall' /\ FirstCheckpoint' /\ MemIsCurrent'
  BY <1>1 DEF OneCall, FirstCheckpoint, MemIsCurrent, Empty, disk, work
<1>4. BatchIsHeld'
  <2>1. pc' = pc /\ todo' = todo /\ ok' = ok /\ ckpt' = ckpt
    BY <1>1 DEF disk, work
  <2>2. \A i \in Instances : todo[i] \cup ok[i] \subseteq Claims
    BY DEF TypeOK, ProcessTypes
  <2>3. \A x \in Claims : /\ kube[x] # "none" => kube'[x] # "none"
                          /\ kube[x] = "releasing" => kube'[x] = "releasing"
    BY <1>1
  <2>4. BatchIsHeld
    OBVIOUS
  <2>5. \A i \in Instances :
          pc[i] \in PrepareSteps => \A x \in todo[i] \cup ok[i] : kube'[x] # "none"
    <3> HIDE DEF IInv
    <3> SUFFICES ASSUME NEW i \in Instances, pc[i] \in PrepareSteps, NEW x \in todo[i] \cup ok[i]
                 PROVE  kube'[x] # "none"
      OBVIOUS
    <3>1. x \in Claims
      BY <2>2
    <3>2. kube[x] # "none"
      BY <2>4 DEF BatchIsHeld
    <3> QED
      BY <2>3, <3>1, <3>2
  <2>6. \A i \in Instances :
          pc[i] \in UnprepareSteps => \A x \in todo[i] \cup ok[i] : kube'[x] = "releasing"
    <3> HIDE DEF IInv
    <3> SUFFICES ASSUME NEW i \in Instances, pc[i] \in UnprepareSteps, NEW x \in todo[i] \cup ok[i]
                 PROVE  kube'[x] = "releasing"
      OBVIOUS
    <3>1. x \in Claims
      BY <2>2
    <3>2. kube[x] = "releasing"
      BY <2>4 DEF BatchIsHeld
    <3> QED
      BY <2>3, <3>1, <3>2
  <2> QED
    BY <2>1, <2>4, <2>5, <2>6 DEF BatchIsHeld
<1>5. EntryIsBuilt'
  <2>1. \A i \in Instances : pc[i] \in {"spec", "commit"} =>
          cur[i] \in Claims /\ kube[cur[i]] # "none"
    BY DEF TypeOK, ProcessTypes, MemIsCurrent, BatchIsHeld, CallSteps, PrepareSteps
  <2>2. \A i \in Instances : pc[i] \in {"spec", "commit"} =>
          allocation'[cur[i]] = allocation[cur[i]]
    BY <1>1, <2>1
  <2> QED
    BY <1>1, <2>2 DEF EntryIsBuilt, disk, work
<1>6. HeldIsAllocated' /\ EntryMatchesAllocation' /\ RunningIsRecorded'
  BY <1>1 DEF HeldIsAllocated, EntryMatchesAllocation, RunningIsRecorded, disk
<1> QED
  BY <1>2, <1>3, <1>4, <1>5, <1>6

-----------------------------------------------------------------------------
(* The invariant holds in every reachable state.                            *)

LEMMA InitIInv == Init => IInv
<1> SUFFICES ASSUME Init PROVE IInv
  OBVIOUS
<1>1. TypeOK
  BY DEF Init, TypeOK, DiskTypes, ProcessTypes, ViewTypes, WorldTypes, Steps, Empty
<1>2. OneCall /\ FirstCheckpoint
  BY DEF Init, OneCall, FirstCheckpoint, CallSteps, PrepareSteps, UnprepareSteps,
         StartupSteps, Serving
<1>3. MemIsCurrent /\ BatchIsHeld /\ EntryIsBuilt
  BY DEF Init, MemIsCurrent, BatchIsHeld, EntryIsBuilt, CallSteps, PrepareSteps, UnprepareSteps
<1>4. HeldIsAllocated /\ EntryMatchesAllocation /\ RunningIsRecorded
  BY DEF Init, Empty, HeldIsAllocated, EntryMatchesAllocation, RunningIsRecorded
<1> QED
  BY <1>1, <1>2, <1>3, <1>4 DEF IInv

LEMMA NextKeepsIInv == IInv /\ [Next]_vars => IInv'
<1> SUFFICES ASSUME IInv, [Next]_vars PROVE IInv'
  OBVIOUS
<1>1. CASE UNCHANGED vars
  BY <1>1, StutterKeepsIInv
<1>2. CASE Reboot
  BY <1>2, RebootKeepsIInv
<1>3. CASE CorruptCheckpoint
  BY <1>3, CorruptCheckpointKeepsIInv
<1>4. ASSUME NEW c \in Claims, Release(c) \/ \E devices \in Allocations : Want(c, devices)
      PROVE  IInv'
  BY <1>4, PodKeepsIInv
<1>5. ASSUME NEW i \in Instances, Startup(i)
      PROVE  IInv'
  BY <1>5, BeforeCheckpointKeepsIInv, CreateFirstCheckpointKeepsIInv, ReconcileKeepsIInv,
     PruneRemoveJSONKeepsIInv, StartupFailsKeepsIInv
  DEF Startup
<1>6. ASSUME NEW i \in Instances, Prepare(i)
      PROVE  IInv'
  BY <1>6, LoadKeepsIInv, PrepareUnreadableKeepsIInv, ApplyConfigKeepsIInv, SpecFileKeepsIInv,
     PrepareCommitKeepsIInv, PrepareRewriteSpecKeepsIInv, CallFailsKeepsIInv, ReplyKeepsIInv
  DEF Prepare
<1>7. ASSUME NEW i \in Instances, Unprepare(i)
      PROVE  IInv'
  BY <1>7, LoadKeepsIInv, UnprepareUnreadableKeepsIInv, UnprepareFreshKeepsIInv,
     SpecFileKeepsIInv, UnprepareCommitKeepsIInv, CallFailsKeepsIInv, ReplyKeepsIInv
  DEF Unprepare
<1>8. ASSUME NEW i \in Instances,
             \/ \E t \in Topologies : Start(i, t) \/ ApplyTopology(i, t)
             \/ \E batch \in SUBSET Claims :
                  PrepareResourceClaims(i, batch) \/ UnprepareResourceClaims(i, batch)
             \/ ReceiveResources(i) \/ SetResources(i) \/ Crash(i)
      PROVE  IInv'
  BY <1>8, StartKeepsIInv, TopologyKeepsIInv, CallBeginsKeepsIInv, CrashKeepsIInv
<1> QED
  BY <1>1, <1>2, <1>3, <1>4, <1>5, <1>6, <1>7, <1>8 DEF Next

LEMMA InvariantHolds == Spec => []IInv
<1>1. Init => IInv
  BY InitIInv
<1>2. IInv /\ [Next]_vars => IInv'
  BY NextKeepsIInv
<1> QED
  BY <1>1, <1>2, PTL DEF Spec

-----------------------------------------------------------------------------
(* The theorems.                                                            *)

(* Every variable keeps its type; in particular ApplyConfig never builds   *)
(* an entry from a mapping that lacks one of the claim's devices, although *)
(* the mapping may be newer than the allocatable set Prepare consulted.    *)
THEOREM TypeCorrect == Spec => []TypeOK
<1>1. IInv => TypeOK
  BY DEF IInv
<1> QED
  BY <1>1, InvariantHolds, PTL

(* However many processes overlap, an entry of the checkpoint describes    *)
(* the current allocation of a claim the kubelet has not released, so the  *)
(* answer Prepare gives from an entry is never one for an earlier          *)
(* allocation of the claim.                                                *)
THEOREM EntriesMatchAllocations == Spec => []EntryMatchesAllocation
<1>1. IInv => EntryMatchesAllocation
  BY DEF IInv
<1> QED
  BY <1>1, InvariantHolds, PTL

(* A claim the kubelet runs a pod with is in the checkpoint, unless an     *)
(* Unprepare that could not read the checkpoint replaced it by a fresh     *)
(* one: no crash, overlap or failed operation loses it.                    *)
THEOREM RunningClaimsAreRecorded == Spec => []RunningIsRecorded
<1>1. IInv => RunningIsRecorded
  BY DEF IInv
<1> QED
  BY <1>1, InvariantHolds, PTL

(* The steps that write the checkpoint, and what they do to other entries. *)
LEMMA WritesKeepEntries ==
  ASSUME IInv, Next, NEW c \in Claims, ckpt[c] # None
  PROVE  ckpt'[c] = ckpt[c] \/ (ckpt'[c] = None /\ (kube[c] = "releasing" \/ c \in lost'))
<1>1. CASE ckpt' = ckpt
  BY <1>1
<1>2. ASSUME NEW i \in Instances, CreateFirstCheckpoint(i)
      PROVE  ckpt' = ckpt
  BY <1>2 DEF CreateFirstCheckpoint, IInv, FirstCheckpoint
<1>3. ASSUME NEW i \in Instances, PrepareCommit(i)
      PROVE  ckpt'[c] = ckpt[c]
  <2>1. mem[i] = ckpt /\ ckpt[cur[i]] = None
    BY <1>3 DEF PrepareCommit, IInv, MemIsCurrent, EntryIsBuilt
  <2> QED
    BY <1>3, <2>1 DEF PrepareCommit, IInv, TypeOK, DiskTypes
<1>4. ASSUME NEW i \in Instances, UnprepareFresh(i)
      PROVE  ckpt'[c] = None /\ c \in lost'
  BY <1>4 DEF UnprepareFresh, Empty, Recorded
<1>5. ASSUME NEW i \in Instances, UnprepareCommit(i)
      PROVE  ckpt'[c] = ckpt[c] \/ (ckpt'[c] = None /\ kube[c] = "releasing")
  <2>1. mem[i] = ckpt /\ cur[i] \in todo[i] /\ kube[cur[i]] = "releasing"
    BY <1>5
    DEF UnprepareCommit, IInv, MemIsCurrent, BatchIsHeld, CallSteps, PrepareSteps, UnprepareSteps
  <2> QED
    BY <1>5, <2>1 DEF UnprepareCommit, IInv, TypeOK, DiskTypes
<1>6. \/ ckpt' = ckpt
      \/ \E i \in Instances : \/ CreateFirstCheckpoint(i) \/ PrepareCommit(i)
                              \/ UnprepareFresh(i) \/ UnprepareCommit(i)
  <2>1. CASE Reboot \/ CorruptCheckpoint
    BY <2>1 DEF Reboot, CorruptCheckpoint
  <2>2. ASSUME NEW x \in Claims, Release(x) \/ \E devices \in Allocations : Want(x, devices)
        PROVE  ckpt' = ckpt
    BY <2>2 DEF Release, Want, disk
  <2>3. ASSUME NEW i \in Instances, Startup(i), ~CreateFirstCheckpoint(i)
        PROVE  ckpt' = ckpt
    BY <2>3
    DEF Startup, CreateCommonSpecFile, ListCheckpoints, ReconcileLoad, ReconcileWrite, PruneList,
        PruneRemove, PruneRemoveJSON, Serve, StartupFails, Exit, disk
  <2>4. ASSUME NEW i \in Instances, Prepare(i), ~PrepareCommit(i)
        PROVE  ckpt' = ckpt
    BY <2>4
    DEF Prepare, PrepareLoad, PrepareUnreadable, ApplyConfig, PrepareWriteSpec,
        PrepareRewriteSpec, PrepareFails, PrepareReply, disk
  <2>5. ASSUME NEW i \in Instances, Unprepare(i), ~UnprepareFresh(i), ~UnprepareCommit(i)
        PROVE  ckpt' = ckpt
    BY <2>5
    DEF Unprepare, UnprepareLoad, UnprepareUnreadable, UnprepareDeleteSpec, UnprepareFails,
        UnprepareReply, disk
  <2>6. ASSUME NEW i \in Instances,
               \/ \E t \in Topologies : Start(i, t) \/ ApplyTopology(i, t)
               \/ \E batch \in SUBSET Claims :
                    PrepareResourceClaims(i, batch) \/ UnprepareResourceClaims(i, batch)
               \/ ReceiveResources(i) \/ SetResources(i) \/ Crash(i)
        PROVE  ckpt' = ckpt
    BY <2>6
    DEF Start, ApplyTopology, PrepareResourceClaims, UnprepareResourceClaims, ReceiveResources,
        SetResources, Crash, Exit, disk
  <2> QED
    BY <2>1, <2>2, <2>3, <2>4, <2>5, <2>6 DEF Next
<1> QED
  BY <1>1, <1>2, <1>3, <1>4, <1>5, <1>6

(* An entry never changes while it exists, and only its own claim's        *)
(* release, or a fresh checkpoint, removes it: although every call         *)
(* rewrites the whole file from the copy it read, none loses or alters     *)
(* what another call, of any process, has recorded.                        *)
THEOREM EntriesStayPut == Spec => EntriesAreStable
<1> DEFINE Stable == \A c \in Claims : ckpt[c] # None =>
                       \/ ckpt'[c] = ckpt[c]
                       \/ ckpt'[c] = None /\ (kube[c] = "releasing" \/ c \in lost')
<1>1. IInv /\ [Next]_vars => [Stable]_vars
  BY WritesKeepEntries
<1> QED
  BY <1>1, InvariantHolds, PTL DEF Spec, EntriesAreStable
=============================================================================
