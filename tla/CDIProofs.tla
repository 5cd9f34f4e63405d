----------------------------- MODULE CDIProofs ------------------------------
(***************************************************************************)
(* What DeviceState promises about the CDI root, for one process at a time *)
(* on the node and any set of claims, devices and topologies.  During a    *)
(* rolling update two processes overlap, and RunningResolves does not      *)
(* hold: see DeviceState_upgrade_race.                                     *)
(***************************************************************************)
EXTENDS DeviceStateProofs

(* No process runs beside another one. *)
Alone == \A i, j \in Instances : i = j

-----------------------------------------------------------------------------
(* The inductive invariant, on top of that of the checkpoint.               *)

(* reconcileCDISpecs has written the specs its loop has passed. *)
Regenerated(i) ==
  \A c \in Claims : ckpt[c] # None /\ c \notin skipped[i] \cup todo[i] => specs[c] = ckpt[c]

(* Only the listed specs are still to go, and none of them is needed. *)
Pruned(i) ==
  \A c \in Claims :
    /\ ckpt[c] # None /\ c \notin skipped[i] => specs[c] = ckpt[c] /\ c \notin todo[i]
    /\ ckpt[c] = None \/ c \in skipped[i] => specs[c] = None \/ c \in todo[i]

(* A claim that is recorded has its spec until its release begins. *)
Kept(i) ==
  \A c \in Claims :
    ckpt[c] # None /\ kube[c] # "releasing" /\ c \notin skipped[i] => specs[c] = ckpt[c]

(* What a process at each of its steps knows of the CDI root. *)
RootOf(i) ==
  /\ pc[i] = "commit" => specs[cur[i]] = entry[i]
  /\ pc[i] \in {"regenerate", "prune"} => mem[i] = ckpt
  /\ pc[i] = "regenerate" => Regenerated(i)
  /\ pc[i] = "prune" => Pruned(i)
  /\ pc[i] \in Serving => Kept(i)

(* The common spec is there once it was written: only a reboot removes it. *)
CommonIsThere == \A i \in Instances : pc[i] \notin {"down", "common"} => common = TRUE

CDIInv == SpecAgreesWithEntry /\ CommonIsThere /\ \A i \in Instances : RootOf(i)

-----------------------------------------------------------------------------
(* Steps that leave the CDI root and the process alone.                     *)

LEMMA QuietKeepsCDIInv ==
  ASSUME CDIInv, UNCHANGED <<ckpt, common, specs, pc, todo, cur, mem, entry, skipped>>,
         \A c \in Claims : ckpt[c] # None /\ kube'[c] # "releasing" => kube[c] # "releasing"
  PROVE  CDIInv'
<1>1. SpecAgreesWithEntry' /\ CommonIsThere'
  BY DEF CDIInv, SpecAgreesWithEntry, CommonIsThere
<1>2. ASSUME NEW i \in Instances PROVE RootOf(i)'
  <2>1. RootOf(i)
    BY DEF CDIInv
  <2>2. Regenerated(i) => Regenerated(i)'
    BY DEF Regenerated
  <2>3. Pruned(i) => Pruned(i)'
    BY DEF Pruned
  <2>4. Kept(i) => Kept(i)'
    BY DEF Kept
  <2> QED
    BY <2>1, <2>2, <2>3, <2>4 DEF RootOf
<1> QED
  BY <1>1, <1>2 DEF CDIInv

LEMMA OutsideKeepsCDIInv ==
  ASSUME IInv, CDIInv,
         \/ UNCHANGED vars
         \/ CorruptCheckpoint
         \/ \E c \in Claims : Release(c) \/ \E devices \in Allocations : Want(c, devices)
         \/ \E i \in Instances :
              \/ \E t \in Topologies : ApplyTopology(i, t)
              \/ ReceiveResources(i) \/ SetResources(i)
              \/ \E c \in Claims : PruneRemoveJSON(i, c)
  PROVE  CDIInv'
<1>1. UNCHANGED <<ckpt, common, specs, pc, todo, cur, mem, entry, skipped>>
  BY DEF vars, disk, work, CorruptCheckpoint, Release, Want, ApplyTopology, ReceiveResources,
         SetResources, PruneRemoveJSON
<1>2. \/ kube' = kube
      \/ \E c \in Claims : kube' = [kube EXCEPT ![c] = "releasing"]
      \/ \E c \in Claims : kube[c] = "none" /\ kube' = [kube EXCEPT ![c] = "pending"]
  BY DEF vars, world, CorruptCheckpoint, Release, Want, ApplyTopology, ReceiveResources,
         SetResources, PruneRemoveJSON
<1>3. \A c \in Claims : kube'[c] # "releasing" => kube[c] # "releasing"
  BY <1>2 DEF IInv, TypeOK, WorldTypes
<1> QED
  BY <1>1, <1>3, QuietKeepsCDIInv

-----------------------------------------------------------------------------
(* Steps of the process, which is alone.                                    *)

(* What follows is about the one process, after a step that takes it to s. *)
LEMMA TheProcess ==
  ASSUME Alone, IInv, NEW i \in Instances, NEW s, GoTo(i, s),
         SpecAgreesWithEntry', s \notin {"down", "common"} => common' = TRUE, RootOf(i)'
  PROVE  CDIInv'
<1>1. \A j \in Instances : j = i
  BY DEF Alone
<1>2. pc'[i] = s
  BY DEF GoTo, IInv, TypeOK, ProcessTypes
<1>3. CommonIsThere'
  BY <1>1, <1>2 DEF CommonIsThere
<1>4. \A j \in Instances : RootOf(j)'
  <2> SUFFICES ASSUME NEW j \in Instances PROVE RootOf(j)'
    OBVIOUS
  <2>1. j = i
    BY <1>1
  <2> QED
    BY <2>1
<1> QED
  BY <1>3, <1>4 DEF CDIInv

(* A process that ends, or only begins, asks nothing of the CDI root. *)
LEMMA NothingToKeep ==
  ASSUME NEW i \in Instances, pc'[i] \in {"down", "common", "list", "create", "load"}
  PROVE  RootOf(i)'
BY DEF RootOf, Serving, CallSteps, PrepareSteps, UnprepareSteps

LEMMA ExitKeepsCDIInv ==
  ASSUME Alone, IInv, CDIInv, NEW i \in Instances, Exit(i)
  PROVE  CDIInv'
<1>1. GoTo(i, "down") /\ UNCHANGED <<ckpt, specs>>
  BY DEF Exit, disk
<1>2. SpecAgreesWithEntry'
  BY <1>1 DEF CDIInv, SpecAgreesWithEntry
<1>3. RootOf(i)'
  BY <1>1, NothingToKeep DEF GoTo, IInv, TypeOK, ProcessTypes
<1> QED
  BY <1>1, <1>2, <1>3, TheProcess

LEMMA RebootKeepsCDIInv == ASSUME Reboot PROVE CDIInv'
<1>1. \A i \in Instances : pc'[i] = "down"
  BY DEF Reboot
<1>2. SpecAgreesWithEntry' /\ CommonIsThere'
  BY <1>1 DEF Reboot, Empty, SpecAgreesWithEntry, CommonIsThere
<1>3. \A i \in Instances : RootOf(i)'
  BY <1>1, NothingToKeep
<1> QED
  BY <1>2, <1>3 DEF CDIInv

-----------------------------------------------------------------------------
(* Startup.                                                                 *)

LEMMA BeforeReconcileKeepsCDIInv ==
  ASSUME Alone, IInv, CDIInv, NEW i \in Instances,
         \/ \E t \in Topologies : Start(i, t)
         \/ CreateCommonSpecFile(i) \/ ListCheckpoints(i) \/ CreateFirstCheckpoint(i)
  PROVE  CDIInv'
<1>1. ckpt' = ckpt /\ specs' = specs
  BY DEF Start, CreateCommonSpecFile, ListCheckpoints, CreateFirstCheckpoint, disk, IInv,
         FirstCheckpoint
<1>2. PICK s \in {"common", "list", "create", "load"} :
        GoTo(i, s) /\ (s # "common" => common' = TRUE)
  <2>1. CASE \E t \in Topologies : Start(i, t)
    BY <2>1 DEF Start
  <2>2. CASE CreateCommonSpecFile(i)
    BY <2>2 DEF CreateCommonSpecFile
  <2>3. CASE ListCheckpoints(i) \/ CreateFirstCheckpoint(i)
    <3>1. pc[i] \in {"list", "create"} /\ common' = common
      BY <2>3 DEF ListCheckpoints, CreateFirstCheckpoint, disk
    <3>2. common = TRUE
      BY <3>1 DEF CDIInv, CommonIsThere
    <3> QED
      BY <2>3, <3>1, <3>2 DEF ListCheckpoints, CreateFirstCheckpoint
  <2> QED
    BY <2>1, <2>2, <2>3
<1>3. SpecAgreesWithEntry'
  BY <1>1 DEF CDIInv, SpecAgreesWithEntry
<1>4. pc'[i] = s
  BY <1>2 DEF GoTo, IInv, TypeOK, ProcessTypes
<1>5. RootOf(i)'
  BY <1>4, NothingToKeep
<1> QED
  BY <1>2, <1>3, <1>5, TheProcess

LEMMA ReconcileLoadKeepsCDIInv ==
  ASSUME Alone, IInv, CDIInv, NEW i \in Instances, ReconcileLoad(i)
  PROVE  CDIInv'
<1>1. /\ pc[i] = "load" /\ GoTo(i, "regenerate")
      /\ mem' = [mem EXCEPT ![i] = ckpt]
      /\ UNCHANGED <<ckpt, common, specs>>
  BY DEF ReconcileLoad, disk
<1>2. common = TRUE
  BY <1>1 DEF CDIInv, CommonIsThere
<1>3. SpecAgreesWithEntry'
  BY <1>1 DEF CDIInv, SpecAgreesWithEntry
<1>4. pc'[i] = "regenerate" /\ mem'[i] = ckpt'
  BY <1>1 DEF GoTo, IInv, TypeOK, ProcessTypes
<1>5. \A c \in Claims : ckpt[c] # None => c \in skipped'[i] \cup todo'[i]
  BY DEF ReconcileLoad, Recorded, IInv, TypeOK, ProcessTypes
<1>6. Regenerated(i)'
  BY <1>1, <1>5 DEF Regenerated
<1>7. RootOf(i)'
  BY <1>4, <1>6 DEF RootOf, Serving, CallSteps, PrepareSteps, UnprepareSteps
<1> QED
  BY <1>1, <1>2, <1>3, <1>7, TheProcess

(* A spec that is written from the checkpoint, or removed, agrees with it. *)
LEMMA SpecStaysInAgreement ==
  ASSUME IInv, CDIInv, NEW c \in Claims, NEW e, e = None \/ e = ckpt[c] \/ ckpt[c] = None,
         specs' = [specs EXCEPT ![c] = e], ckpt' = ckpt
  PROVE  SpecAgreesWithEntry'
BY DEF CDIInv, SpecAgreesWithEntry, IInv, TypeOK, DiskTypes

LEMMA ReconcileWriteKeepsCDIInv ==
  ASSUME Alone, IInv, CDIInv, NEW i \in Instances, NEW c \in Claims, ReconcileWrite(i, c)
  PROVE  CDIInv'
<1>1. /\ pc[i] = "regenerate" /\ pc' = pc
      /\ specs' = [specs EXCEPT ![c] = mem[i][c]]
      /\ todo' = [todo EXCEPT ![i] = @ \ {c}]
      /\ UNCHANGED <<ckpt, common, mem, skipped>>
  BY DEF ReconcileWrite
<1>2. common = TRUE /\ mem[i] = ckpt /\ Regenerated(i)
  BY <1>1 DEF CDIInv, CommonIsThere, RootOf
<1>3. SpecAgreesWithEntry'
  BY <1>1, <1>2, SpecStaysInAgreement
<1>4. GoTo(i, "regenerate")
  BY <1>1 DEF GoTo, IInv, TypeOK, ProcessTypes
<1>5. Regenerated(i)'
  <2>1. specs'[c] = ckpt[c] /\ \A x \in Claims \ {c} : specs'[x] = specs[x]
    BY <1>1, <1>2 DEF IInv, TypeOK, DiskTypes
  <2>2. todo'[i] = todo[i] \ {c}
    BY <1>1 DEF IInv, TypeOK, ProcessTypes
  <2> QED
    BY <1>1, <1>2, <2>1, <2>2 DEF Regenerated
<1>6. RootOf(i)'
  BY <1>1, <1>2, <1>5 DEF RootOf, Serving, CallSteps, PrepareSteps, UnprepareSteps
<1> QED
  BY <1>1, <1>2, <1>3, <1>4, <1>6, TheProcess

LEMMA PruneListKeepsCDIInv ==
  ASSUME Alone, IInv, CDIInv, NEW i \in Instances, PruneList(i)
  PROVE  CDIInv'
<1>1. /\ pc[i] = "regenerate" /\ todo[i] = {} /\ GoTo(i, "prune")
      /\ todo' = [todo EXCEPT ![i] = Recorded(specs) \ (Recorded(mem[i]) \ skipped[i])]
      /\ UNCHANGED <<ckpt, common, specs, mem, skipped>>
  BY DEF PruneList, disk
<1>2. common = TRUE /\ mem[i] = ckpt /\ Regenerated(i)
  BY <1>1 DEF CDIInv, CommonIsThere, RootOf
<1>3. SpecAgreesWithEntry'
  BY <1>1 DEF CDIInv, SpecAgreesWithEntry
<1>4. pc'[i] = "prune"
  BY <1>1 DEF GoTo, IInv, TypeOK, ProcessTypes
<1>5. todo'[i] = Recorded(specs) \ (Recorded(ckpt) \ skipped[i])
  BY <1>1, <1>2 DEF IInv, TypeOK, ProcessTypes
<1>6. \A c \in Claims : ckpt[c] # None /\ c \notin skipped[i] => specs[c] = ckpt[c]
  BY <1>1, <1>2 DEF Regenerated
<1>7. Pruned(i)'
  BY <1>1, <1>5, <1>6 DEF Pruned, Recorded
<1>8. RootOf(i)'
  BY <1>1, <1>2, <1>4, <1>7 DEF RootOf, Serving, CallSteps, PrepareSteps, UnprepareSteps
<1> QED
  BY <1>1, <1>2, <1>3, <1>8, TheProcess

LEMMA PruneRemoveKeepsCDIInv ==
  ASSUME Alone, IInv, CDIInv, NEW i \in Instances, NEW c \in Claims, PruneRemove(i, c)
  PROVE  CDIInv'
<1>1. /\ pc[i] = "prune" /\ pc' = pc /\ c \in todo[i]
      /\ specs' = [specs EXCEPT ![c] = None]
      /\ todo' = [todo EXCEPT ![i] = @ \ {c}]
      /\ UNCHANGED <<ckpt, common, mem, skipped>>
  BY DEF PruneRemove
<1>2. common = TRUE /\ mem[i] = ckpt /\ Pruned(i)
  BY <1>1 DEF CDIInv, CommonIsThere, RootOf
<1>3. SpecAgreesWithEntry'
  BY <1>1, SpecStaysInAgreement
<1>4. GoTo(i, "prune")
  BY <1>1 DEF GoTo, IInv, TypeOK, ProcessTypes
<1>5. Pruned(i)'
  <2>1. specs'[c] = None /\ \A x \in Claims \ {c} : specs'[x] = specs[x]
    BY <1>1 DEF IInv, TypeOK, DiskTypes
  <2>2. todo'[i] = todo[i] \ {c}
    BY <1>1 DEF IInv, TypeOK, ProcessTypes
  <2> QED
    BY <1>1, <1>2, <2>1, <2>2 DEF Pruned
<1>6. RootOf(i)'
  BY <1>1, <1>2, <1>5 DEF RootOf, Serving, CallSteps, PrepareSteps, UnprepareSteps
<1> QED
  BY <1>1, <1>2, <1>3, <1>4, <1>6, TheProcess

(* With nothing left to prune, the root is what the checkpoint asks for. *)
LEMMA ServeFindsRootReady ==
  ASSUME CDIInv, NEW i \in Instances, Serve(i)
  PROVE  /\ common = TRUE
         /\ \A c \in Claims : specs[c] = IF c \in skipped[i] THEN None ELSE ckpt[c]
<1>1. pc[i] = "prune" /\ todo[i] = {}
  BY DEF Serve
<1>2. common = TRUE /\ Pruned(i)
  BY <1>1 DEF CDIInv, CommonIsThere, RootOf
<1> QED
  BY <1>1, <1>2 DEF Pruned

LEMMA ServeKeepsCDIInv ==
  ASSUME Alone, IInv, CDIInv, NEW i \in Instances, Serve(i)
  PROVE  CDIInv'
<1>1. GoTo(i, "idle") /\ UNCHANGED <<ckpt, common, specs, skipped, kube>>
  BY DEF Serve, disk, world
<1>2. pc'[i] = "idle"
  BY <1>1 DEF GoTo, IInv, TypeOK, ProcessTypes
<1>3. SpecAgreesWithEntry'
  BY <1>1 DEF CDIInv, SpecAgreesWithEntry
<1>4. Kept(i)'
  BY <1>1, ServeFindsRootReady DEF Kept
<1>5. RootOf(i)'
  BY <1>2, <1>4 DEF RootOf
<1> QED
  BY <1>1, <1>3, <1>5, ServeFindsRootReady, TheProcess

-----------------------------------------------------------------------------
(* Calls.                                                                   *)

(* A serving process goes to another step of serving. *)
LEMMA ServingStep ==
  ASSUME Alone, IInv, CDIInv, NEW i \in Instances, pc[i] \in Serving, NEW s \in Serving,
         GoTo(i, s), common' = common, SpecAgreesWithEntry', Kept(i)',
         s = "commit" => specs'[cur'[i]] = entry'[i]
  PROVE  CDIInv'
<1>1. pc[i] \notin {"down", "common"} /\ s \notin {"regenerate", "prune"}
  BY DEF Serving, CallSteps, PrepareSteps, UnprepareSteps
<1>2. common' = TRUE
  BY <1>1 DEF CDIInv, CommonIsThere
<1>3. pc'[i] = s
  BY DEF GoTo, IInv, TypeOK, ProcessTypes
<1>4. RootOf(i)'
  BY <1>1, <1>3 DEF RootOf
<1> QED
  BY <1>2, <1>4, TheProcess

(* The call touches no file; the kubelet may learn of its outcome. *)
LEMMA FilesUntouched ==
  ASSUME Alone, IInv, CDIInv, NEW i \in Instances, pc[i] \in Serving,
         NEW s \in Serving \ {"commit"}, GoTo(i, s),
         UNCHANGED <<ckpt, common, specs, skipped>>,
         \A c \in Claims : ckpt[c] # None /\ kube'[c] # "releasing" => kube[c] # "releasing"
  PROVE  CDIInv'
<1>1. SpecAgreesWithEntry'
  BY DEF CDIInv, SpecAgreesWithEntry
<1>2. Kept(i)
  BY DEF CDIInv, RootOf
<1>3. Kept(i)'
  BY <1>2 DEF Kept
<1> QED
  BY <1>1, <1>3, ServingStep

(* The call is done with claim c: it has changed nothing, or the files of   *)
(* claim c agree.                                                           *)
LEMMA ReturnKeepsCDIInv ==
  ASSUME Alone, IInv, CDIInv, NEW i \in Instances, pc[i] \in Serving, NEW c \in Claims,
         NEW loop \in {"prepare", "unprepare"}, NEW succeeded \in BOOLEAN,
         Return(i, c, loop, succeeded), UNCHANGED <<common, kube>>,
         \A x \in Claims \ {c} :
           specs'[x] = specs[x] /\ (ckpt'[x] = ckpt[x] \/ ckpt'[x] = None),
         \/ ~succeeded /\ UNCHANGED <<ckpt, specs>>
         \/ ckpt'[c] = None
         \/ specs'[c] = ckpt'[c]
  PROVE  CDIInv'
<1>1. GoTo(i, loop) /\ loop \in Serving /\ loop # "commit"
  BY DEF Return, Serving, CallSteps, PrepareSteps, UnprepareSteps
<1>2. \A x \in Claims \ {c} : x \notin skipped'[i] => x \notin skipped[i]
  BY DEF Return, IInv, TypeOK, ProcessTypes
<1>3. ~succeeded => skipped'[i] = skipped[i]
  BY DEF Return, IInv, TypeOK, ProcessTypes
<1>4. SpecAgreesWithEntry /\ Kept(i)
  BY DEF CDIInv, RootOf
<1>5. SpecAgreesWithEntry'
  BY <1>4 DEF SpecAgreesWithEntry
<1>6. Kept(i)'
  <2> SUFFICES ASSUME NEW x \in Claims, ckpt'[x] # None, kube'[x] # "releasing",
                      x \notin skipped'[i]
               PROVE  specs'[x] = ckpt'[x]
    BY DEF Kept
  <2>1. CASE x # c
    BY <1>2, <1>4, <2>1 DEF Kept
  <2>2. CASE x = c
    BY <1>3, <1>4, <2>2 DEF Kept
  <2> QED
    BY <2>1, <2>2
<1> QED
  BY <1>1, <1>5, <1>6, ServingStep

LEMMA CallBeginsKeepsCDIInv ==
  ASSUME Alone, IInv, CDIInv, NEW i \in Instances, NEW batch \in SUBSET Claims,
         PrepareResourceClaims(i, batch) \/ UnprepareResourceClaims(i, batch)
  PROVE  CDIInv'
<1>1. /\ pc[i] \in Serving
      /\ \E s \in {"prepare", "unprepare"} : GoTo(i, s)
      /\ UNCHANGED <<ckpt, common, specs, skipped, kube>>
  BY DEF PrepareResourceClaims, UnprepareResourceClaims, Serving, disk, world
<1>2. {"prepare", "unprepare"} \subseteq Serving \ {"commit"}
  BY DEF Serving, CallSteps, PrepareSteps, UnprepareSteps
<1> QED
  BY <1>1, <1>2, FilesUntouched

LEMMA LoadKeepsCDIInv ==
  ASSUME Alone, IInv, CDIInv, NEW i \in Instances, NEW c \in Claims,
         PrepareLoad(i, c) \/ UnprepareLoad(i, c)
  PROVE  CDIInv'
<1>1. pc[i] \in Serving /\ UNCHANGED <<ckpt, common, specs, kube>>
  BY DEF PrepareLoad, UnprepareLoad, Serving, CallSteps, PrepareSteps, UnprepareSteps, disk, world
<1>2. ASSUME NEW s \in {"rewrite", "apply", "delete"}, Continue(i, c, s) PROVE CDIInv'
  <2>1. s \in Serving \ {"commit"} /\ GoTo(i, s) /\ UNCHANGED skipped
    BY <1>2 DEF Continue, Serving, CallSteps, PrepareSteps, UnprepareSteps
  <2> QED
    BY <1>1, <2>1, FilesUntouched
<1>3. CASE Return(i, c, "prepare", FALSE)
  BY <1>1, <1>3, ReturnKeepsCDIInv
<1>4. CASE ckpt[c] = None /\ Return(i, c, "unprepare", TRUE)
  BY <1>1, <1>4, ReturnKeepsCDIInv
<1> QED
  BY <1>2, <1>3, <1>4 DEF PrepareLoad, UnprepareLoad

LEMMA UnreadableKeepsCDIInv ==
  ASSUME Alone, IInv, CDIInv, NEW i \in Instances, NEW c \in Claims,
         PrepareUnreadable(i, c) \/ UnprepareUnreadable(i, c)
  PROVE  CDIInv'
<1>1. pc[i] \in Serving /\ UNCHANGED <<ckpt, common, specs, kube>>
  BY DEF PrepareUnreadable, UnprepareUnreadable, Serving, CallSteps, PrepareSteps, UnprepareSteps,
         disk, world
<1>2. CASE Return(i, c, "prepare", FALSE)
  BY <1>1, <1>2, ReturnKeepsCDIInv
<1>3. CASE UnprepareUnreadable(i, c)
  <2>1. "fresh" \in Serving \ {"commit"} /\ GoTo(i, "fresh") /\ UNCHANGED skipped
    BY <1>3 DEF UnprepareUnreadable, Serving, CallSteps, UnprepareSteps
  <2> QED
    BY <1>1, <2>1, FilesUntouched
<1> QED
  BY <1>2, <1>3 DEF PrepareUnreadable

LEMMA ApplyConfigKeepsCDIInv ==
  ASSUME Alone, IInv, CDIInv, NEW i \in Instances, ApplyConfig(i)
  PROVE  CDIInv'
<1>1. pc[i] = "apply" /\ UNCHANGED <<ckpt, common, specs, kube>>
  BY DEF ApplyConfig, disk, world
<1>2. /\ pc[i] \in Serving /\ "spec" \in Serving \ {"commit"}
      /\ pc[i] \in CallSteps \ {"prepare", "unprepare"}
  BY <1>1 DEF Serving, CallSteps, PrepareSteps
<1>3. cur[i] \in Claims
  BY <1>2, CurrentClaim
<1>4. CASE Return(i, cur[i], "prepare", FALSE)
  BY <1>1, <1>2, <1>3, <1>4, ReturnKeepsCDIInv
<1>5. CASE GoTo(i, "spec") /\ UNCHANGED skipped
  BY <1>1, <1>2, <1>5, FilesUntouched
<1> QED
  BY <1>4, <1>5 DEF ApplyConfig

(* The spec is written before the entry, so there is none to disagree with. *)
LEMMA PrepareWriteSpecKeepsCDIInv ==
  ASSUME Alone, IInv, CDIInv, NEW i \in Instances, PrepareWriteSpec(i)
  PROVE  CDIInv'
<1>1. /\ pc[i] = "spec" /\ GoTo(i, "commit")
      /\ specs' = [specs EXCEPT ![cur[i]] = entry[i]]
      /\ UNCHANGED <<ckpt, common, cur, entry, skipped, kube>>
  BY DEF PrepareWriteSpec, work, world
<1>2. /\ pc[i] \in Serving /\ "commit" \in Serving
      /\ pc[i] \in CallSteps \ {"prepare", "unprepare"}
  BY <1>1 DEF Serving, CallSteps, PrepareSteps
<1>3. cur[i] \in Claims /\ ckpt[cur[i]] = None
  BY <1>1, <1>2, CurrentClaim DEF IInv, EntryIsBuilt
<1>4. SpecAgreesWithEntry'
  BY <1>1, <1>3, SpecStaysInAgreement
<1>5. specs'[cur[i]] = entry[i] /\ \A c \in Claims \ {cur[i]} : specs'[c] = specs[c]
  BY <1>1, <1>3 DEF IInv, TypeOK, DiskTypes
<1>6. Kept(i)
  BY <1>2 DEF CDIInv, RootOf
<1>7. Kept(i)'
  BY <1>1, <1>3, <1>5, <1>6 DEF Kept
<1> QED
  BY <1>1, <1>2, <1>4, <1>5, <1>7, ServingStep

LEMMA PrepareCommitKeepsCDIInv ==
  ASSUME Alone, IInv, CDIInv, NEW i \in Instances, PrepareCommit(i)
  PROVE  CDIInv'
<1>1. /\ pc[i] = "commit" /\ Return(i, cur[i], "prepare", TRUE)
      /\ ckpt' = [mem[i] EXCEPT ![cur[i]] = entry[i]]
      /\ UNCHANGED <<common, specs, kube>>
  BY DEF PrepareCommit
<1>2. pc[i] \in Serving /\ pc[i] \in CallSteps \ {"prepare", "unprepare"}
  BY <1>1 DEF Serving, CallSteps, PrepareSteps
<1>3. cur[i] \in Claims /\ mem[i] = ckpt
  BY <1>1, <1>2, CurrentClaim DEF IInv, MemIsCurrent
<1>4. specs[cur[i]] = entry[i]
  BY <1>1 DEF CDIInv, RootOf
<1>5. ckpt'[cur[i]] = entry[i] /\ \A c \in Claims \ {cur[i]} : ckpt'[c] = ckpt[c]
  BY <1>1, <1>3 DEF IInv, TypeOK, DiskTypes
<1> QED
  BY <1>1, <1>2, <1>3, <1>4, <1>5, ReturnKeepsCDIInv

LEMMA PrepareRewriteSpecKeepsCDIInv ==
  ASSUME Alone, IInv, CDIInv, NEW i \in Instances, PrepareRewriteSpec(i)
  PROVE  CDIInv'
<1>1. /\ pc[i] = "rewrite" /\ Return(i, cur[i], "prepare", TRUE)
      /\ specs' = [specs EXCEPT ![cur[i]] = mem[i][cur[i]]]
      /\ UNCHANGED <<ckpt, common, kube>>
  BY DEF PrepareRewriteSpec, world
<1>2. pc[i] \in Serving /\ pc[i] \in CallSteps \ {"prepare", "unprepare"}
  BY <1>1 DEF Serving, CallSteps, PrepareSteps
<1>3. cur[i] \in Claims /\ mem[i] = ckpt
  BY <1>1, <1>2, CurrentClaim DEF IInv, MemIsCurrent
<1>4. specs'[cur[i]] = ckpt'[cur[i]] /\ \A c \in Claims \ {cur[i]} : specs'[c] = specs[c]
  BY <1>1, <1>3 DEF IInv, TypeOK, DiskTypes
<1> QED
  BY <1>1, <1>2, <1>3, <1>4, ReturnKeepsCDIInv

LEMMA CallFailsKeepsCDIInv ==
  ASSUME Alone, IInv, CDIInv, NEW i \in Instances, PrepareFails(i) \/ UnprepareFails(i)
  PROVE  CDIInv'
<1>1. /\ pc[i] \in {"spec", "commit", "rewrite", "fresh", "delete", "forget"}
      /\ \E loop \in {"prepare", "unprepare"} : Return(i, cur[i], loop, FALSE)
      /\ UNCHANGED <<ckpt, common, specs, kube>>
  BY DEF PrepareFails, UnprepareFails, disk, world
<1>2. pc[i] \in Serving /\ pc[i] \in CallSteps \ {"prepare", "unprepare"}
  BY <1>1 DEF Serving, CallSteps, PrepareSteps, UnprepareSteps
<1>3. cur[i] \in Claims
  BY <1>2, CurrentClaim
<1> QED
  BY <1>1, <1>2, <1>3, ReturnKeepsCDIInv

(* A reply starts the pods of claims that have their specs, and ends the   *)
(* claims that have no entry left.                                         *)
LEMMA ReplyKeepsCDIInv ==
  ASSUME Alone, IInv, CDIInv, NEW i \in Instances, PrepareReply(i) \/ UnprepareReply(i)
  PROVE  CDIInv'
<1>1. /\ pc[i] \in Serving /\ GoTo(i, "idle") /\ "idle" \in Serving \ {"commit"}
      /\ UNCHANGED <<ckpt, common, specs, skipped>>
  BY DEF PrepareReply, UnprepareReply, Serving, CallSteps, PrepareSteps, UnprepareSteps, disk
<1>2. CASE PrepareReply(i)
  <2>1. \A c \in Claims : kube'[c] # "releasing" => kube[c] # "releasing"
    BY <1>2 DEF PrepareReply, IInv, TypeOK, WorldTypes
  <2> QED
    BY <1>1, <2>1, FilesUntouched
<1>3. CASE UnprepareReply(i)
  <2>1. \A c \in ok[i] : ckpt[c] = None
    BY <1>3 DEF UnprepareReply, UnprepareSteps, IInv, BatchIsHeld
  <2>2. \A c \in Claims \ ok[i] : kube'[c] = kube[c]
    BY <1>3 DEF UnprepareReply, world, IInv, TypeOK, WorldTypes
  <2> QED
    BY <1>1, <2>1, <2>2, FilesUntouched
<1> QED
  BY <1>2, <1>3

LEMMA UnprepareFreshKeepsCDIInv ==
  ASSUME Alone, IInv, CDIInv, NEW i \in Instances, UnprepareFresh(i)
  PROVE  CDIInv'
<1>1. /\ pc[i] = "fresh" /\ Return(i, cur[i], "unprepare", TRUE)
      /\ \A c \in Claims : ckpt'[c] = None
      /\ UNCHANGED <<common, specs, kube>>
  BY DEF UnprepareFresh, Empty
<1>2. pc[i] \in Serving /\ pc[i] \in CallSteps \ {"prepare", "unprepare"}
  BY <1>1 DEF Serving, CallSteps, UnprepareSteps
<1>3. cur[i] \in Claims
  BY <1>2, CurrentClaim
<1> QED
  BY <1>1, <1>2, <1>3, ReturnKeepsCDIInv

(* The spec goes first, while the claim is being released. *)
LEMMA UnprepareDeleteSpecKeepsCDIInv ==
  ASSUME Alone, IInv, CDIInv, NEW i \in Instances, UnprepareDeleteSpec(i)
  PROVE  CDIInv'
<1>1. /\ pc[i] = "delete" /\ GoTo(i, "forget")
      /\ specs' = [specs EXCEPT ![cur[i]] = None]
      /\ UNCHANGED <<ckpt, common, skipped, kube>>
  BY DEF UnprepareDeleteSpec, world
<1>2. /\ pc[i] \in Serving /\ "forget" \in Serving /\ pc[i] \in UnprepareSteps
      /\ pc[i] \in CallSteps \ {"prepare", "unprepare"}
  BY <1>1 DEF Serving, CallSteps, UnprepareSteps
<1>3. cur[i] \in Claims /\ kube[cur[i]] = "releasing"
  BY <1>2, CurrentClaim DEF IInv, BatchIsHeld
<1>4. SpecAgreesWithEntry'
  BY <1>1, <1>3, SpecStaysInAgreement
<1>5. \A c \in Claims \ {cur[i]} : specs'[c] = specs[c]
  BY <1>1 DEF IInv, TypeOK, DiskTypes
<1>6. Kept(i)
  BY <1>2 DEF CDIInv, RootOf
<1>7. Kept(i)'
  BY <1>1, <1>3, <1>5, <1>6 DEF Kept
<1> QED
  BY <1>1, <1>2, <1>4, <1>7, ServingStep

LEMMA UnprepareCommitKeepsCDIInv ==
  ASSUME Alone, IInv, CDIInv, NEW i \in Instances, UnprepareCommit(i)
  PROVE  CDIInv'
<1>1. /\ pc[i] = "forget" /\ Return(i, cur[i], "unprepare", TRUE)
      /\ ckpt' = [mem[i] EXCEPT ![cur[i]] = None]
      /\ UNCHANGED <<common, specs, kube>>
  BY DEF UnprepareCommit, world
<1>2. pc[i] \in Serving /\ pc[i] \in CallSteps \ {"prepare", "unprepare"}
  BY <1>1 DEF Serving, CallSteps, UnprepareSteps
<1>3. cur[i] \in Claims /\ mem[i] = ckpt
  BY <1>1, <1>2, CurrentClaim DEF IInv, MemIsCurrent
<1>4. ckpt'[cur[i]] = None /\ \A c \in Claims \ {cur[i]} : ckpt'[c] = ckpt[c]
  BY <1>1, <1>3 DEF IInv, TypeOK, DiskTypes
<1> QED
  BY <1>1, <1>2, <1>3, <1>4, ReturnKeepsCDIInv

-----------------------------------------------------------------------------
(* The invariant holds in every reachable state.                            *)

LEMMA InitCDIInv == Init => CDIInv
<1> SUFFICES ASSUME Init PROVE CDIInv
  OBVIOUS
<1>1. \A i \in Instances : pc[i] = "down"
  BY DEF Init
<1>2. SpecAgreesWithEntry /\ CommonIsThere
  BY <1>1 DEF Init, Empty, SpecAgreesWithEntry, CommonIsThere
<1>3. \A i \in Instances : RootOf(i)
  BY <1>1 DEF RootOf, Serving, CallSteps, PrepareSteps, UnprepareSteps
<1> QED
  BY <1>2, <1>3 DEF CDIInv

LEMMA NextKeepsCDIInv ==
  ASSUME Alone, IInv, CDIInv, [Next]_vars
  PROVE  CDIInv'
<1>1. CASE \/ UNCHANGED vars \/ Reboot \/ CorruptCheckpoint
           \/ \E c \in Claims : Release(c) \/ \E devices \in Allocations : Want(c, devices)
  BY <1>1, OutsideKeepsCDIInv, RebootKeepsCDIInv
<1>2. ASSUME NEW i \in Instances, Startup(i)
      PROVE  CDIInv'
  <2>1. CASE StartupFails(i)
    BY <2>1, ExitKeepsCDIInv DEF StartupFails
  <2>2. CASE ~StartupFails(i)
    BY <1>2, <2>2, BeforeReconcileKeepsCDIInv, ReconcileLoadKeepsCDIInv, ReconcileWriteKeepsCDIInv,
       PruneListKeepsCDIInv, PruneRemoveKeepsCDIInv, OutsideKeepsCDIInv, ServeKeepsCDIInv
    DEF Startup
  <2> QED
    BY <2>1, <2>2
<1>3. ASSUME NEW i \in Instances, Prepare(i)
      PROVE  CDIInv'
  BY <1>3, LoadKeepsCDIInv, UnreadableKeepsCDIInv, ApplyConfigKeepsCDIInv,
     PrepareWriteSpecKeepsCDIInv, PrepareCommitKeepsCDIInv, PrepareRewriteSpecKeepsCDIInv,
     CallFailsKeepsCDIInv, ReplyKeepsCDIInv
  DEF Prepare
<1>4. ASSUME NEW i \in Instances, Unprepare(i)
      PROVE  CDIInv'
  BY <1>4, LoadKeepsCDIInv, UnreadableKeepsCDIInv, UnprepareFreshKeepsCDIInv,
     UnprepareDeleteSpecKeepsCDIInv, UnprepareCommitKeepsCDIInv, CallFailsKeepsCDIInv,
     ReplyKeepsCDIInv
  DEF Unprepare
<1>5. ASSUME NEW i \in Instances,
             \/ \E t \in Topologies : Start(i, t) \/ ApplyTopology(i, t)
             \/ \E batch \in SUBSET Claims :
                  PrepareResourceClaims(i, batch) \/ UnprepareResourceClaims(i, batch)
             \/ ReceiveResources(i) \/ SetResources(i) \/ Crash(i)
      PROVE  CDIInv'
  <2>1. CASE Crash(i)
    BY <2>1, ExitKeepsCDIInv DEF Crash
  <2>2. CASE ~Crash(i)
    BY <1>5, <2>2, BeforeReconcileKeepsCDIInv, OutsideKeepsCDIInv, CallBeginsKeepsCDIInv
  <2> QED
    BY <2>1, <2>2
<1> QED
  BY <1>1, <1>2, <1>3, <1>4, <1>5 DEF Next

LEMMA RootIsKept == ASSUME Alone PROVE Spec => [](IInv /\ CDIInv)
<1>1. Init => IInv /\ CDIInv
  BY InitIInv, InitCDIInv
<1>2. IInv /\ CDIInv /\ [Next]_vars => IInv' /\ CDIInv'
  BY NextKeepsIInv, NextKeepsCDIInv
<1> QED
  BY <1>1, <1>2, PTL DEF Spec

-----------------------------------------------------------------------------
(* The theorems.                                                            *)

(* A driver that is alone on the node never leaves a spec file that        *)
(* disagrees with the checkpoint entry of its claim, however its calls and *)
(* its startups are cut short.                                             *)
THEOREM SpecsAgree == ASSUME Alone PROVE Spec => []SpecAgreesWithEntry
<1>1. IInv /\ CDIInv => SpecAgreesWithEntry
  BY DEF CDIInv
<1> QED
  BY <1>1, RootIsKept, PTL

(* While a driver that is alone on the node serves, the CDI names of every *)
(* running pod's claim resolve, but for the claims reconcileCDISpecs could *)
(* not validate and those a fresh checkpoint dropped.                      *)
THEOREM RunningClaimsResolve == ASSUME Alone PROVE Spec => []RunningResolves
<1>1. IInv /\ CDIInv => RunningResolves
  <2> SUFFICES ASSUME IInv, CDIInv, NEW i \in Instances, NEW c \in Claims, pc[i] \in Serving,
                      kube[c] = "running", c \notin lost \cup skipped[i]
               PROVE  common /\ ckpt[c] # None /\ specs[c] = ckpt[c]
    BY DEF RunningResolves
  <2>1. common = TRUE
    BY DEF CDIInv, CommonIsThere, Serving, CallSteps, PrepareSteps, UnprepareSteps
  <2>2. ckpt[c] # None
    BY DEF IInv, RunningIsRecorded
  <2>3. specs[c] = ckpt[c]
    BY <2>2 DEF CDIInv, RootOf, Kept
  <2> QED
    BY <2>1, <2>2, <2>3
<1> QED
  BY <1>1, RootIsKept, PTL

(* The only step out of the pruning loop into service is Serve. *)
LEMMA ServingBeginsByServe ==
  ASSUME Alone, IInv, Next, NEW i \in Instances, pc[i] = "prune", pc'[i] = "idle"
  PROVE  Serve(i)
<1>1. \A j \in Instances : j = i
  BY DEF Alone
<1>2. \A s : GoTo(i, s) => s = "idle"
  BY DEF GoTo, IInv, TypeOK, ProcessTypes
<1>3. pc' # pc
  OBVIOUS
<1>4. ~Reboot /\ ~CorruptCheckpoint
  BY <1>3 DEF Reboot, CorruptCheckpoint
<1>5. \A c \in Claims : ~Release(c) /\ \A devices \in Allocations : ~Want(c, devices)
  BY <1>3 DEF Release, Want
<1>6. ~Prepare(i)
  BY DEF Prepare, PrepareLoad, PrepareUnreadable, ApplyConfig, PrepareWriteSpec, PrepareCommit,
         PrepareRewriteSpec, PrepareFails, PrepareReply
<1>7. ~Unprepare(i)
  BY DEF Unprepare, UnprepareLoad, UnprepareUnreadable, UnprepareFresh, UnprepareDeleteSpec,
         UnprepareCommit, UnprepareFails, UnprepareReply
<1>8. /\ \A t \in Topologies : ~Start(i, t) /\ ~ApplyTopology(i, t)
      /\ \A batch \in SUBSET Claims :
           ~PrepareResourceClaims(i, batch) /\ ~UnprepareResourceClaims(i, batch)
      /\ ~ReceiveResources(i) /\ ~SetResources(i) /\ ~Crash(i)
  BY <1>2, <1>3
  DEF Start, ApplyTopology, PrepareResourceClaims, UnprepareResourceClaims, ReceiveResources,
      SetResources, Crash, Exit
<1>9. Startup(i)
  BY <1>1, <1>4, <1>5, <1>6, <1>7, <1>8 DEF Next
<1> QED
  BY <1>2, <1>3, <1>9
  DEF Startup, CreateCommonSpecFile, ListCheckpoints, CreateFirstCheckpoint, ReconcileLoad,
      ReconcileWrite, PruneList, PruneRemove, PruneRemoveJSON, StartupFails, Exit

(* Whatever earlier processes left in the CDI root, a driver that starts   *)
(* alone has it hold exactly the specs of the recorded claims it could     *)
(* validate, and no other form of them, when it begins to serve.           *)
THEOREM ReconcileIsComplete == ASSUME Alone PROVE Spec => ReconcileConverges
<1> DEFINE Converges ==
      \A i \in Instances : pc[i] = "prune" /\ pc'[i] = "idle" =>
        /\ common' /\ jsons' = {}
        /\ \A c \in Claims : specs'[c] = IF c \in skipped'[i] THEN None ELSE ckpt'[c]
<1>1. IInv /\ CDIInv /\ [Next]_vars => [Converges]_vars
  <2> SUFFICES ASSUME IInv, CDIInv, Next, NEW i \in Instances, pc[i] = "prune", pc'[i] = "idle"
               PROVE  /\ common' /\ jsons' = {}
                      /\ \A c \in Claims :
                           specs'[c] = IF c \in skipped'[i] THEN None ELSE ckpt'[c]
    OBVIOUS
  <2>1. Serve(i)
    BY ServingBeginsByServe
  <2>2. jsons = {} /\ UNCHANGED <<ckpt, common, specs, jsons, skipped>>
    BY <2>1 DEF Serve, disk
  <2>3. common = TRUE
        /\ \A c \in Claims : specs[c] = IF c \in skipped[i] THEN None ELSE ckpt[c]
    BY <2>1, ServeFindsRootReady
  <2> QED
    BY <2>2, <2>3
<1> QED
  BY <1>1, RootIsKept, PTL DEF Spec, ReconcileConverges
=============================================================================
