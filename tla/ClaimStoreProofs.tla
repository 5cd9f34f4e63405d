-------------------------- MODULE ClaimStoreProofs --------------------------
(***************************************************************************)
(* DeviceState implements ClaimStore: seven kinds of step show, each as    *)
(* one step of the store, and every other step leaves the store alone.     *)
(***************************************************************************)
EXTENDS DeviceStateProofs

(* What the kubelet can see of a step that does not show. *)
Invisible == UNCHANGED <<ckpt, lost, kube, allocation>>

LEMMA InitImplements == Init => Store!Init
BY DEF Init, Store!Init, Empty

-----------------------------------------------------------------------------
(* The steps that write the checkpoint.                                     *)

(* The first checkpoint is written when there is nothing to lose. *)
LEMMA CreateFirstCheckpointImplements ==
  ASSUME IInv, NEW i \in Instances, CreateFirstCheckpoint(i)
  PROVE  Invisible
BY DEF CreateFirstCheckpoint, IInv, FirstCheckpoint, Invisible, world

(* PrepareCommit writes the copy of the checkpoint it holds, which is      *)
(* current and has no entry for the claim.                                 *)
LEMMA PrepareCommitImplements ==
  ASSUME IInv, NEW i \in Instances, PrepareCommit(i)
  PROVE  Store!Next
<1>1. /\ mem[i] = ckpt /\ ckpt[cur[i]] = None /\ cur[i] \in todo[i]
      /\ entry[i] \in Entries /\ DOMAIN entry[i] = allocation[cur[i]]
  BY DEF PrepareCommit, IInv, MemIsCurrent, EntryIsBuilt, CallSteps, PrepareSteps
<1>2. cur[i] \in Claims /\ kube[cur[i]] # "none"
  BY <1>1 DEF PrepareCommit, IInv, TypeOK, ProcessTypes, BatchIsHeld, PrepareSteps
<1>3. entry[i] \in [allocation[cur[i]] -> Edits]
  BY <1>1 DEF Entries
<1>4. Store!Record(cur[i], entry[i])
  BY <1>1, <1>2 DEF PrepareCommit, Store!Record
<1> QED
  BY <1>2, <1>3, <1>4 DEF Store!Next

LEMMA UnprepareFreshImplements ==
  ASSUME NEW i \in Instances, UnprepareFresh(i)
  PROVE  Store!Next
<1>1. Store!StartOver
  BY DEF UnprepareFresh, Empty, Recorded, Store!StartOver
<1> QED
  BY <1>1 DEF Store!Next

LEMMA UnprepareCommitImplements ==
  ASSUME IInv, NEW i \in Instances, UnprepareCommit(i)
  PROVE  Store!Next
<1>1. mem[i] = ckpt /\ cur[i] \in todo[i]
  BY DEF UnprepareCommit, IInv, MemIsCurrent, CallSteps, UnprepareSteps
<1>2. cur[i] \in Claims /\ kube[cur[i]] = "releasing"
  BY <1>1 DEF UnprepareCommit, IInv, TypeOK, ProcessTypes, BatchIsHeld, UnprepareSteps
<1>3. Store!Forget(cur[i])
  BY <1>1, <1>2 DEF UnprepareCommit, Store!Forget, world
<1> QED
  BY <1>2, <1>3 DEF Store!Next

-----------------------------------------------------------------------------
(* The answers to the kubelet.                                              *)

(* PrepareReply reports the claims of the batch that succeeded, all of     *)
(* which are recorded.                                                     *)
LEMMA PrepareReplyImplements ==
  ASSUME IInv, NEW i \in Instances, PrepareReply(i)
  PROVE  Store!Next \/ Invisible
<1> DEFINE claims == {c \in ok[i] : kube[c] = "pending"}
<1>1. ok[i] \in SUBSET Claims /\ \A c \in ok[i] : ckpt[c] # None
  BY DEF PrepareReply, IInv, TypeOK, ProcessTypes, BatchIsHeld, PrepareSteps
<1>2. CASE UNCHANGED kube
  BY <1>2 DEF PrepareReply, Invisible, disk
<1>3. CASE kube' = [c \in Claims |->
                      IF c \in ok[i] /\ kube[c] = "pending" THEN "running" ELSE kube[c]]
  <2>1. Store!Prepared(claims)
    BY <1>1, <1>3 DEF PrepareReply, Store!Prepared, disk
  <2>2. claims \in SUBSET Claims
    BY <1>1
  <2> QED
    BY <2>1, <2>2 DEF Store!Next
<1> QED
  BY <1>2, <1>3 DEF PrepareReply

(* UnprepareReply reports claims that have no entry any more. *)
LEMMA UnprepareReplyImplements ==
  ASSUME IInv, NEW i \in Instances, UnprepareReply(i)
  PROVE  Store!Next \/ Invisible
<1>1. ok[i] \in SUBSET Claims /\ \A c \in ok[i] : kube[c] = "releasing" /\ ckpt[c] = None
  BY DEF UnprepareReply, IInv, TypeOK, ProcessTypes, BatchIsHeld, UnprepareSteps
<1>2. CASE UNCHANGED world
  BY <1>2 DEF UnprepareReply, Invisible, disk, world
<1>3. CASE ~UNCHANGED world
  <2>1. Store!Released(ok[i])
    BY <1>1, <1>3 DEF UnprepareReply, Store!Released, disk
  <2> QED
    BY <1>1, <2>1 DEF Store!Next
<1> QED
  BY <1>2, <1>3

-----------------------------------------------------------------------------
(* Every step.                                                              *)

LEMMA CallImplements ==
  ASSUME IInv, NEW i \in Instances, Prepare(i) \/ Unprepare(i)
  PROVE  Store!Next \/ Invisible
<1>1. CASE Prepare(i) /\ ~PrepareCommit(i) /\ ~PrepareReply(i)
  BY <1>1
  DEF Prepare, PrepareLoad, PrepareUnreadable, ApplyConfig, PrepareWriteSpec,
      PrepareRewriteSpec, PrepareFails, Invisible, disk, world
<1>2. CASE Unprepare(i) /\ ~UnprepareFresh(i) /\ ~UnprepareCommit(i) /\ ~UnprepareReply(i)
  BY <1>2
  DEF Unprepare, UnprepareLoad, UnprepareUnreadable, UnprepareDeleteSpec, UnprepareFails,
      Invisible, disk, world
<1> QED
  BY <1>1, <1>2, PrepareCommitImplements, PrepareReplyImplements, UnprepareFreshImplements,
     UnprepareCommitImplements, UnprepareReplyImplements

LEMMA StartupImplements ==
  ASSUME IInv, NEW i \in Instances, Startup(i)
  PROVE  Invisible
<1>1. CASE Startup(i) /\ ~CreateFirstCheckpoint(i)
  BY <1>1
  DEF Startup, CreateCommonSpecFile, ListCheckpoints, ReconcileLoad, ReconcileWrite, PruneList,
      PruneRemove, PruneRemoveJSON, Serve, StartupFails, Exit, Invisible, disk, world
<1> QED
  BY <1>1, CreateFirstCheckpointImplements

LEMMA OutsideImplements ==
  ASSUME \/ Reboot \/ CorruptCheckpoint
         \/ \E c \in Claims : Release(c) \/ \E devices \in Allocations : Want(c, devices)
  PROVE  Store!Next \/ Invisible
<1>1. CASE Reboot
  <2>1. Store!Reboot
    BY <1>1 DEF Reboot, Store!Reboot
  <2> QED
    BY <2>1 DEF Store!Next
<1>2. CASE CorruptCheckpoint
  BY <1>2 DEF CorruptCheckpoint, Invisible, world
<1>3. ASSUME NEW c \in Claims, Release(c)
      PROVE  Store!Next
  <2>1. Store!Release(c)
    BY <1>3 DEF Release, Store!Release, disk
  <2> QED
    BY <2>1 DEF Store!Next
<1>4. ASSUME NEW c \in Claims, NEW devices \in Allocations, Want(c, devices)
      PROVE  Store!Next
  <2>1. Store!Want(c, devices)
    BY <1>4 DEF Want, Store!Want, disk
  <2> QED
    BY <2>1 DEF Store!Next
<1> QED
  BY <1>1, <1>2, <1>3, <1>4

LEMMA NextImplements == IInv /\ [Next]_vars => [Store!Next]_(Store!vars)
<1> SUFFICES ASSUME IInv, [Next]_vars PROVE Store!Next \/ Invisible
  BY DEF Invisible, Store!vars
<1>1. CASE UNCHANGED vars
  BY <1>1 DEF vars, disk, world, Invisible
<1>2. ASSUME NEW i \in Instances,
             \/ \E t \in Topologies : Start(i, t) \/ ApplyTopology(i, t)
             \/ \E batch \in SUBSET Claims :
                  PrepareResourceClaims(i, batch) \/ UnprepareResourceClaims(i, batch)
             \/ ReceiveResources(i) \/ SetResources(i) \/ Crash(i)
      PROVE  Invisible
  BY <1>2
  DEF Start, ApplyTopology, PrepareResourceClaims, UnprepareResourceClaims, ReceiveResources,
      SetResources, Crash, Exit, Invisible, disk, world
<1> QED
  BY <1>1, <1>2, CallImplements, StartupImplements, OutsideImplements DEF Next

(* However many processes overlap, crash and fail in the middle of a call, *)
(* what the kubelet sees of Prepare and Unprepare is a store in which each *)
(* takes effect at once.                                                   *)
THEOREM DeviceStateImplementsClaimStore == Spec => ImplementsClaimStore
<1>1. Init => Store!Init
  BY InitImplements
<1>2. IInv /\ [Next]_vars => [Store!Next]_(Store!vars)
  BY NextImplements
<1> QED
  BY <1>1, <1>2, InvariantHolds, PTL DEF Spec, ImplementsClaimStore, Store!Spec
=============================================================================
