---------------------------- MODULE DeviceState ----------------------------
(***************************************************************************)
(* The claim lifecycle of one node: what DeviceState.Prepare, Unprepare,   *)
(* reconcileCDISpecs and SetResources do to the three places that must     *)
(* agree about a claim -- the kubelet, the checkpoint file and the CDI     *)
(* spec files -- when driver processes crash, restart and overlap, when    *)
(* the node reboots, and when single file operations fail.                 *)
(*                                                                         *)
(* A driver process holds the DeviceState mutex over a whole Prepare or    *)
(* Unprepare, so within a process the steps below interleave only with     *)
(* the topology goroutines, which do not take that mutex.  Across          *)
(* processes nothing but the helper's call lock serialises them.           *)
(***************************************************************************)
EXTENDS Naturals

CONSTANTS
  Instances,      \* driver processes that may run on the node
  Claims,         \* claim UIDs
  OpaqueClaims,   \* claims carrying opaque configuration for this driver
  Devices,        \* device names
  Edits,          \* container edits: the device nodes a device resolves to
  Topologies,     \* usable topologies: device name -> container edits
  Allocations,    \* what the scheduler may allocate to a claim
  Limit,          \* how often each event outside the driver may happen
  None            \* absence of an entry, a spec, a claim or a message

Events == {"crash", "reboot", "read", "write", "corrupt", "topology", "lost"}

ASSUME ClaimsAssumption == OpaqueClaims \subseteq Claims

ASSUME TopologiesAssumption ==
  \A t \in Topologies : DOMAIN t \subseteq Devices /\ t \in [DOMAIN t -> Edits]

(* The kubelet only calls a driver that appears in the claim's results. *)
ASSUME AllocationsAssumption ==
  Allocations \subseteq SUBSET Devices /\ {} \notin Allocations

ASSUME LimitAssumption == Limit \in [Events -> Nat]

(* The prepared devices of one claim: the edits of each allocated device. *)
Entries == UNION {[D -> Edits] : D \in Allocations}

ASSUME NoneAssumption ==
  /\ None \notin Claims
  /\ None \notin Entries
  /\ \A D \in SUBSET Devices : D # None

VARIABLES
  ckptFile,    \* "missing", "valid" or "corrupt"
  ckpt,        \* the entries the checkpoint file holds
  common,      \* the common CDI spec exists
  specs,       \* the per-claim CDI spec files
  jsons,       \* claims with a spec file in the JSON form of other writers
  pc,          \* the step each process is at
  todo,        \* claims, or spec files, its loop has still to handle
  ok,          \* claims of the current call that succeeded
  cur,         \* the claim whose Prepare or Unprepare holds the mutex
  mem,         \* the checkpoint as that call read it
  entry,       \* the devices prepareDevices built for it
  skipped,     \* claims its reconciliation did not regenerate, and no call has since
  alloc,       \* DeviceState.allocatable
  units,       \* Profile.unitByDevice
  sent,        \* resources deviceWatch.run is sending
  got,         \* resources republishDevices is about to install
  kube,        \* what the kubelet is doing with each claim
  allocation,  \* the devices the scheduler allocated to each claim
  lost,        \* claims whose entry an Unprepare discarded
  used         \* how often each event has happened

disk == <<ckptFile, ckpt, common, specs, jsons>>
work == <<todo, ok, cur, mem, entry>>
view == <<alloc, units, sent, got>>
world == <<kube, allocation, lost>>
vars == <<disk, pc, work, skipped, view, world, used>>

StartupSteps == {"common", "list", "create", "load", "regenerate", "prune"}
PrepareSteps == {"prepare", "apply", "spec", "commit", "rewrite"}
UnprepareSteps == {"unprepare", "fresh", "delete", "forget"}
CallSteps == PrepareSteps \cup UnprepareSteps
Serving == {"idle"} \cup CallSteps
Steps == {"down"} \cup StartupSteps \cup Serving

Empty == [c \in Claims |-> None]
NoUnits == [d \in {} |-> None]

(* A file with the given name is written or removed in one rename, so a    *)
(* failed operation leaves what was there.                                 *)
Happens(event) ==
  /\ used[event] < Limit[event]
  /\ used' = [used EXCEPT ![event] = @ + 1]

GoTo(i, step) == pc' = [pc EXCEPT ![i] = step]

-----------------------------------------------------------------------------
(* Processes come and go.                                                   *)

Init ==
  /\ ckptFile \in {"missing", "valid"}
  /\ ckpt = Empty
  /\ common = FALSE
  /\ specs = Empty
  /\ jsons \in SUBSET Claims
  /\ pc = [i \in Instances |-> "down"]
  /\ todo = [i \in Instances |-> {}]
  /\ ok = [i \in Instances |-> {}]
  /\ cur = [i \in Instances |-> None]
  /\ mem = [i \in Instances |-> Empty]
  /\ entry = [i \in Instances |-> None]
  /\ skipped = [i \in Instances |-> {}]
  /\ alloc = [i \in Instances |-> {}]
  /\ units = [i \in Instances |-> NoUnits]
  /\ sent = [i \in Instances |-> None]
  /\ got = [i \in Instances |-> None]
  /\ kube = [c \in Claims |-> "none"]
  /\ allocation = [c \in Claims |-> {}]
  /\ lost = {}
  /\ used = [e \in Events |-> 0]

(* A process ends, by a startup error, a fatal error or a crash, and takes  *)
(* its memory with it.                                                      *)
Exit(i) ==
  /\ GoTo(i, "down")
  /\ todo' = [todo EXCEPT ![i] = {}]
  /\ ok' = [ok EXCEPT ![i] = {}]
  /\ cur' = [cur EXCEPT ![i] = None]
  /\ mem' = [mem EXCEPT ![i] = Empty]
  /\ entry' = [entry EXCEPT ![i] = None]
  /\ alloc' = [alloc EXCEPT ![i] = {}]
  /\ units' = [units EXCEPT ![i] = NoUnits]
  /\ sent' = [sent EXCEPT ![i] = None]
  /\ got' = [got EXCEPT ![i] = None]
  /\ UNCHANGED <<disk, skipped, world>>

Crash(i) ==
  /\ pc[i] # "down"
  /\ Happens("crash")
  /\ Exit(i)

(* A reboot ends every process and empties the CDI root, which is a tmpfs; *)
(* the kubelet prepares the claims of its pods again.                      *)
Reboot ==
  /\ Happens("reboot")
  /\ pc' = [i \in Instances |-> "down"]
  /\ todo' = [i \in Instances |-> {}]
  /\ ok' = [i \in Instances |-> {}]
  /\ cur' = [i \in Instances |-> None]
  /\ mem' = [i \in Instances |-> Empty]
  /\ entry' = [i \in Instances |-> None]
  /\ alloc' = [i \in Instances |-> {}]
  /\ units' = [i \in Instances |-> NoUnits]
  /\ sent' = [i \in Instances |-> None]
  /\ got' = [i \in Instances |-> None]
  /\ common' = FALSE
  /\ specs' = Empty
  /\ jsons' = {}
  /\ kube' = [c \in Claims |-> IF kube[c] = "running" THEN "pending" ELSE kube[c]]
  /\ UNCHANGED <<ckptFile, ckpt, skipped, allocation, lost>>

(* The checkpoint file stops passing its checksum. *)
CorruptCheckpoint ==
  /\ ckptFile = "valid"
  /\ Happens("corrupt")
  /\ ckptFile' = "corrupt"
  /\ UNCHANGED <<ckpt, common, specs, jsons, pc, work, skipped, view, world>>

-----------------------------------------------------------------------------
(* Startup: NewDriver up to the point where the helper serves calls.        *)

(* The first resources of the device watch have arrived.  The DaemonSet    *)
(* surges, so that another process may be serving or still be starting;    *)
(* only the driver's very first start on a node is assumed to be alone     *)
(* until it has created the checkpoint.                                    *)
Start(i, t) ==
  /\ pc[i] = "down"
  /\ ckptFile = "missing" => \A j \in Instances : pc[j] = "down"
  /\ GoTo(i, "common")
  /\ alloc' = [alloc EXCEPT ![i] = DOMAIN t]
  /\ units' = [units EXCEPT ![i] = t]
  /\ UNCHANGED <<disk, work, skipped, sent, got, world, used>>

CreateCommonSpecFile(i) ==
  /\ pc[i] = "common"
  /\ common' = TRUE
  /\ GoTo(i, "list")
  /\ UNCHANGED <<ckptFile, ckpt, specs, jsons, work, skipped, view, world, used>>

ListCheckpoints(i) ==
  /\ pc[i] = "list"
  /\ GoTo(i, IF ckptFile = "missing" THEN "create" ELSE "load")
  /\ UNCHANGED <<disk, work, skipped, view, world, used>>

CreateFirstCheckpoint(i) ==
  /\ pc[i] = "create"
  /\ ckptFile' = "valid"
  /\ ckpt' = Empty
  /\ GoTo(i, "load")
  /\ UNCHANGED <<common, specs, jsons, work, skipped, view, world, used>>

(* validatePreparedDevices: every checkpointed device is still allocatable. *)
ValidatePreparedDevices(i, e) == DOMAIN e \subseteq alloc[i]

Recorded(entries) == {c \in Claims : entries[c] # None}

ReconcileLoad(i) ==
  /\ pc[i] = "load"
  /\ ckptFile = "valid"
  /\ mem' = [mem EXCEPT ![i] = ckpt]
  /\ skipped' = [skipped EXCEPT ![i] =
       {c \in Recorded(ckpt) : ~ValidatePreparedDevices(i, ckpt[c])}]
  /\ todo' = [todo EXCEPT ![i] =
       {c \in Recorded(ckpt) : ValidatePreparedDevices(i, ckpt[c])}]
  /\ GoTo(i, "regenerate")
  /\ UNCHANGED <<disk, ok, cur, entry, view, world, used>>

ReconcileWrite(i, c) ==
  /\ pc[i] = "regenerate"
  /\ c \in todo[i]
  /\ specs' = [specs EXCEPT ![c] = mem[i][c]]
  /\ todo' = [todo EXCEPT ![i] = @ \ {c}]
  /\ UNCHANGED <<ckptFile, ckpt, common, jsons, pc, ok, cur, mem, entry, skipped,
                 view, world, used>>

(* A mutant: the specs of all recorded claims are kept. *)
PruneListRecorded(i) ==
  /\ pc[i] = "regenerate"
  /\ todo[i] = {}
  /\ todo' = [todo EXCEPT ![i] = Recorded(specs) \ Recorded(mem[i])]
  /\ GoTo(i, "prune")
  /\ UNCHANGED <<disk, ok, cur, mem, entry, skipped, view, world, used>>

(* PruneClaimSpecFiles lists the CDI root once, and then removes from that *)
(* listing; the common spec and the specs just regenerated are kept.       *)
PruneList(i) ==
  /\ pc[i] = "regenerate"
  /\ todo[i] = {}
  /\ todo' = [todo EXCEPT ![i] =
       Recorded(specs) \ (Recorded(mem[i]) \ skipped[i])]
  /\ GoTo(i, "prune")
  /\ UNCHANGED <<disk, ok, cur, mem, entry, skipped, view, world, used>>

PruneRemove(i, c) ==
  /\ pc[i] = "prune"
  /\ c \in todo[i]
  /\ specs' = [specs EXCEPT ![c] = None]
  /\ todo' = [todo EXCEPT ![i] = @ \ {c}]
  /\ UNCHANGED <<ckptFile, ckpt, common, jsons, pc, ok, cur, mem, entry, skipped,
                 view, world, used>>

(* The driver never writes JSON specs, so the listing holds all of them. *)
PruneRemoveJSON(i, c) ==
  /\ pc[i] = "prune"
  /\ c \in jsons
  /\ jsons' = jsons \ {c}
  /\ UNCHANGED <<ckptFile, ckpt, common, specs, pc, work, skipped, view, world, used>>

(* reconcileCDISpecs returns and the helper registers with the kubelet. *)
Serve(i) ==
  /\ pc[i] = "prune"
  /\ todo[i] = {}
  /\ jsons = {}
  /\ GoTo(i, "idle")
  /\ mem' = [mem EXCEPT ![i] = Empty]
  /\ UNCHANGED <<disk, todo, ok, cur, entry, skipped, view, world, used>>

(* Every file operation of the startup may fail, and ends it; so does a    *)
(* checkpoint that cannot be read.                                         *)
StartupFails(i) ==
  /\ \/ pc[i] = "load" /\ ckptFile # "valid" /\ UNCHANGED used
     \/ pc[i] \in {"list", "load", "regenerate"} /\ Happens("read")
     \/ pc[i] \in {"common", "create", "regenerate", "prune"} /\ Happens("write")
  /\ Exit(i)

-----------------------------------------------------------------------------
(* Topology: the watch goroutines of a live process.                        *)

(* applyTopology replaces the mapping ApplyConfig uses, under its own      *)
(* mutex, before it offers the resources on the unbuffered channel.        *)
ApplyTopology(i, t) ==
  /\ pc[i] # "down"
  /\ sent[i] = None
  /\ Happens("topology")
  /\ units' = [units EXCEPT ![i] = t]
  /\ sent' = [sent EXCEPT ![i] = DOMAIN t]
  /\ UNCHANGED <<disk, pc, work, skipped, alloc, got, world>>

ReceiveResources(i) ==
  /\ pc[i] \in Serving
  /\ sent[i] # None
  /\ got[i] = None
  /\ got' = [got EXCEPT ![i] = sent[i]]
  /\ sent' = [sent EXCEPT ![i] = None]
  /\ UNCHANGED <<disk, pc, work, skipped, alloc, units, world, used>>

(* SetResources needs the DeviceState mutex. *)
SetResources(i) ==
  /\ pc[i] \in Serving
  /\ cur[i] = None
  /\ got[i] # None
  /\ alloc' = [alloc EXCEPT ![i] = got[i]]
  /\ got' = [got EXCEPT ![i] = None]
  /\ UNCHANGED <<disk, pc, work, skipped, units, sent, world, used>>

-----------------------------------------------------------------------------
(* Prepare.  The helper lets one call at a time through, across processes; *)
(* a call carries a batch of claims, handled one after another.            *)

(* A mutant: a lock per process. *)
OwnLockFree == \A j \in Instances : pc[j] \in Steps

CallLockFree == \A j \in Instances : pc[j] \notin CallSteps

PrepareResourceClaims(i, batch) ==
  /\ pc[i] = "idle"
  /\ CallLockFree
  /\ batch # {}
  /\ \A c \in batch : kube[c] \in {"pending", "running"}
  /\ GoTo(i, "prepare")
  /\ todo' = [todo EXCEPT ![i] = batch]
  /\ UNCHANGED <<disk, ok, cur, mem, entry, skipped, view, world, used>>

(* The call is done with claim c, and is at the given loop again. *)
Return(i, c, loop, succeeded) ==
  /\ GoTo(i, loop)
  /\ todo' = [todo EXCEPT ![i] = @ \ {c}]
  /\ ok' = [ok EXCEPT ![i] = IF succeeded THEN @ \cup {c} ELSE @]
  /\ cur' = [cur EXCEPT ![i] = None]
  /\ mem' = [mem EXCEPT ![i] = Empty]
  /\ entry' = [entry EXCEPT ![i] = None]
  /\ skipped' = [skipped EXCEPT ![i] = IF succeeded THEN @ \ {c} ELSE @]
  /\ UNCHANGED view

(* The call goes on with claim c, holding the checkpoint it has read. *)
Continue(i, c, step) ==
  /\ GoTo(i, step)
  /\ cur' = [cur EXCEPT ![i] = c]
  /\ mem' = [mem EXCEPT ![i] = ckpt]
  /\ UNCHANGED <<todo, ok, entry, skipped, view>>

(* A mutant: the checkpoint is not asked whether the claim is prepared. *)
PrepareLoadAnew(i, c) ==
  /\ pc[i] = "prepare"
  /\ c \in todo[i]
  /\ ckptFile = "valid"
  /\ \/ /\ c \notin OpaqueClaims
        /\ allocation[c] \subseteq alloc[i]
        /\ Continue(i, c, "apply")
     \/ /\ c \in OpaqueClaims \/ ~(allocation[c] \subseteq alloc[i])
        /\ Return(i, c, "prepare", FALSE)
  /\ UNCHANGED <<disk, world, used>>

(* A mutant: a claim that is prepared already is an error. *)
PrepareLoadOnce(i, c) ==
  /\ pc[i] = "prepare"
  /\ c \in todo[i]
  /\ ckptFile = "valid"
  /\ \/ /\ ckpt[c] = None
        /\ c \notin OpaqueClaims
        /\ allocation[c] \subseteq alloc[i]
        /\ Continue(i, c, "apply")
     \/ /\ ckpt[c] # None \/ c \in OpaqueClaims \/ ~(allocation[c] \subseteq alloc[i])
        /\ Return(i, c, "prepare", FALSE)
  /\ UNCHANGED <<disk, world, used>>

(* GetCheckpoint succeeds.  A claim with an entry has its spec rewritten if *)
(* its devices are still allocatable; any other claim goes through          *)
(* prepareDevices, which rejects opaque configuration and unknown devices.  *)
PrepareLoad(i, c) ==
  /\ pc[i] = "prepare"
  /\ c \in todo[i]
  /\ ckptFile = "valid"
  /\ \/ /\ ckpt[c] # None
        /\ ValidatePreparedDevices(i, ckpt[c])
        /\ Continue(i, c, "rewrite")
     \/ /\ ckpt[c] # None
        /\ ~ValidatePreparedDevices(i, ckpt[c])
        /\ Return(i, c, "prepare", FALSE)
     \/ /\ ckpt[c] = None
        /\ c \notin OpaqueClaims
        /\ allocation[c] \subseteq alloc[i]
        /\ Continue(i, c, "apply")
     \/ /\ ckpt[c] = None
        /\ c \in OpaqueClaims \/ ~(allocation[c] \subseteq alloc[i])
        /\ Return(i, c, "prepare", FALSE)
  /\ UNCHANGED <<disk, world, used>>

PrepareUnreadable(i, c) ==
  /\ pc[i] = "prepare"
  /\ c \in todo[i]
  /\ \/ ckptFile # "valid" /\ UNCHANGED used
     \/ ckptFile = "valid" /\ Happens("read")
  /\ Return(i, c, "prepare", FALSE)
  /\ UNCHANGED <<disk, world>>

(* A mutant: a device the mapping lacks gets no edits. *)
ApplyConfigUnchecked(i) ==
  /\ pc[i] = "apply"
  /\ entry' = [entry EXCEPT ![i] =
       [d \in allocation[cur[i]] |->
          IF d \in DOMAIN units[i] THEN units[i][d] ELSE None]]
  /\ GoTo(i, "spec")
  /\ UNCHANGED <<todo, ok, cur, mem, skipped, view>>
  /\ UNCHANGED <<disk, world, used>>

(* ApplyConfig resolves every device against the newest topology, which    *)
(* may be newer than the allocatable set just consulted.                   *)
ApplyConfig(i) ==
  /\ pc[i] = "apply"
  /\ \/ /\ allocation[cur[i]] \subseteq DOMAIN units[i]
        /\ entry' = [entry EXCEPT ![i] = [d \in allocation[cur[i]] |-> units[i][d]]]
        /\ GoTo(i, "spec")
        /\ UNCHANGED <<todo, ok, cur, mem, skipped, view>>
     \/ /\ ~(allocation[cur[i]] \subseteq DOMAIN units[i])
        /\ Return(i, cur[i], "prepare", FALSE)
  /\ UNCHANGED <<disk, world, used>>

PrepareWriteSpec(i) ==
  /\ pc[i] = "spec"
  /\ specs' = [specs EXCEPT ![cur[i]] = entry[i]]
  /\ GoTo(i, "commit")
  /\ UNCHANGED <<ckptFile, ckpt, common, jsons, work, skipped, view, world, used>>

(* A mutant: the new checkpoint holds the claim at hand only. *)
PrepareCommitAlone(i) ==
  /\ pc[i] = "commit"
  /\ ckptFile' = "valid"
  /\ ckpt' = [Empty EXCEPT ![cur[i]] = entry[i]]
  /\ lost' = lost \ {cur[i]}
  /\ Return(i, cur[i], "prepare", TRUE)
  /\ UNCHANGED <<common, specs, jsons, kube, allocation, used>>

(* CreateCheckpoint replaces the whole file by the copy read at the start. *)
PrepareCommit(i) ==
  /\ pc[i] = "commit"
  /\ ckptFile' = "valid"
  /\ ckpt' = [mem[i] EXCEPT ![cur[i]] = entry[i]]
  /\ lost' = lost \ {cur[i]}
  /\ Return(i, cur[i], "prepare", TRUE)
  /\ UNCHANGED <<common, specs, jsons, kube, allocation, used>>

(* A mutant: a prepared claim is answered without touching its spec. *)
PrepareAnswerOnly(i) ==
  /\ pc[i] = "rewrite"
  /\ Return(i, cur[i], "prepare", TRUE)
  /\ UNCHANGED <<disk, world, used>>

PrepareRewriteSpec(i) ==
  /\ pc[i] = "rewrite"
  /\ specs' = [specs EXCEPT ![cur[i]] = mem[i][cur[i]]]
  /\ Return(i, cur[i], "prepare", TRUE)
  /\ UNCHANGED <<ckptFile, ckpt, common, jsons, world, used>>

PrepareFails(i) ==
  /\ pc[i] \in {"spec", "commit", "rewrite"}
  /\ Happens("write")
  /\ Return(i, cur[i], "prepare", FALSE)
  /\ UNCHANGED <<disk, world>>

(* The kubelet learns which claims are prepared, unless it has given up on *)
(* the call.                                                               *)
PrepareReply(i) ==
  /\ pc[i] = "prepare"
  /\ todo[i] = {}
  /\ \/ /\ kube' = [c \in Claims |->
             IF c \in ok[i] /\ kube[c] = "pending" THEN "running" ELSE kube[c]]
        /\ UNCHANGED used
     \/ Happens("lost") /\ UNCHANGED kube
  /\ GoTo(i, "idle")
  /\ ok' = [ok EXCEPT ![i] = {}]
  /\ UNCHANGED <<disk, todo, cur, mem, entry, skipped, view, allocation, lost>>

-----------------------------------------------------------------------------
(* Unprepare.                                                               *)

UnprepareResourceClaims(i, batch) ==
  /\ pc[i] = "idle"
  /\ CallLockFree
  /\ batch # {}
  /\ \A c \in batch : kube[c] = "releasing"
  /\ GoTo(i, "unprepare")
  /\ todo' = [todo EXCEPT ![i] = batch]
  /\ UNCHANGED <<disk, ok, cur, mem, entry, skipped, view, world, used>>

(* A mutant: what is released has to be allocatable. *)
UnprepareLoadValidated(i, c) ==
  /\ pc[i] = "unprepare"
  /\ c \in todo[i]
  /\ ckptFile = "valid"
  /\ \/ ckpt[c] = None /\ Return(i, c, "unprepare", TRUE)
     \/ /\ ckpt[c] # None
        /\ ValidatePreparedDevices(i, ckpt[c])
        /\ Continue(i, c, "delete")
     \/ /\ ckpt[c] # None
        /\ ~ValidatePreparedDevices(i, ckpt[c])
        /\ Return(i, c, "unprepare", FALSE)
  /\ UNCHANGED <<disk, world, used>>

(* A claim without an entry is released already, whatever specs it has. *)
UnprepareLoad(i, c) ==
  /\ pc[i] = "unprepare"
  /\ c \in todo[i]
  /\ ckptFile = "valid"
  /\ \/ ckpt[c] = None /\ Return(i, c, "unprepare", TRUE)
     \/ ckpt[c] # None /\ Continue(i, c, "delete")
  /\ UNCHANGED <<disk, world, used>>

UnprepareUnreadable(i, c) ==
  /\ pc[i] = "unprepare"
  /\ c \in todo[i]
  /\ \/ ckptFile # "valid" /\ UNCHANGED used
     \/ ckptFile = "valid" /\ Happens("read")
  /\ GoTo(i, "fresh")
  /\ cur' = [cur EXCEPT ![i] = c]
  /\ UNCHANGED <<disk, todo, ok, mem, entry, skipped, view, world>>

(* The fresh checkpoint replaces the unreadable one; every claim it held   *)
(* is forgotten, and the one at hand has nothing left to unprepare.        *)
UnprepareFresh(i) ==
  /\ pc[i] = "fresh"
  /\ ckptFile' = "valid"
  /\ ckpt' = Empty
  /\ lost' = lost \cup Recorded(ckpt)
  /\ Return(i, cur[i], "unprepare", TRUE)
  /\ UNCHANGED <<common, specs, jsons, kube, allocation, used>>

UnprepareDeleteSpec(i) ==
  /\ pc[i] = "delete"
  /\ specs' = [specs EXCEPT ![cur[i]] = None]
  /\ GoTo(i, "forget")
  /\ UNCHANGED <<ckptFile, ckpt, common, jsons, work, skipped, view, world, used>>

UnprepareCommit(i) ==
  /\ pc[i] = "forget"
  /\ ckptFile' = "valid"
  /\ ckpt' = [mem[i] EXCEPT ![cur[i]] = None]
  /\ Return(i, cur[i], "unprepare", TRUE)
  /\ UNCHANGED <<common, specs, jsons, world, used>>

(* A mutant: the error of a failed write is not returned. *)
UnprepareFailsQuietly(i) ==
  /\ pc[i] \in {"fresh", "delete", "forget"}
  /\ Happens("write")
  /\ Return(i, cur[i], "unprepare", TRUE)
  /\ UNCHANGED <<disk, world>>

UnprepareFails(i) ==
  /\ pc[i] \in {"fresh", "delete", "forget"}
  /\ Happens("write")
  /\ Return(i, cur[i], "unprepare", FALSE)
  /\ UNCHANGED <<disk, world>>

(* A released claim may be deallocated, and allocated anew. *)
UnprepareReply(i) ==
  /\ pc[i] = "unprepare"
  /\ todo[i] = {}
  /\ \/ /\ kube' = [c \in Claims |-> IF c \in ok[i] THEN "none" ELSE kube[c]]
        /\ allocation' = [c \in Claims |-> IF c \in ok[i] THEN {} ELSE allocation[c]]
        /\ lost' = lost \ ok[i]
        /\ UNCHANGED used
     \/ Happens("lost") /\ UNCHANGED world
  /\ GoTo(i, "idle")
  /\ ok' = [ok EXCEPT ![i] = {}]
  /\ UNCHANGED <<disk, todo, cur, mem, entry, skipped, view>>

-----------------------------------------------------------------------------
(* The scheduler and the kubelet.                                           *)

(* A pod using claim c is bound to the node. *)
Want(c, devices) ==
  /\ kube[c] = "none"
  /\ kube' = [kube EXCEPT ![c] = "pending"]
  /\ allocation' = [allocation EXCEPT ![c] = devices]
  /\ UNCHANGED <<disk, pc, work, skipped, view, lost, used>>

(* The last pod using claim c is gone. *)
Release(c) ==
  /\ kube[c] \in {"pending", "running"}
  /\ kube' = [kube EXCEPT ![c] = "releasing"]
  /\ UNCHANGED <<disk, pc, work, skipped, view, allocation, lost, used>>

-----------------------------------------------------------------------------
Startup(i) ==
  \/ CreateCommonSpecFile(i)
  \/ ListCheckpoints(i)
  \/ CreateFirstCheckpoint(i)
  \/ ReconcileLoad(i)
  \/ \E c \in Claims : ReconcileWrite(i, c)
  \/ PruneList(i)
  \/ \E c \in Claims : PruneRemove(i, c) \/ PruneRemoveJSON(i, c)
  \/ Serve(i)
  \/ StartupFails(i)

Prepare(i) ==
  \/ \E c \in Claims : PrepareLoad(i, c) \/ PrepareUnreadable(i, c)
  \/ ApplyConfig(i)
  \/ PrepareWriteSpec(i)
  \/ PrepareCommit(i)
  \/ PrepareRewriteSpec(i)
  \/ PrepareFails(i)
  \/ PrepareReply(i)

Unprepare(i) ==
  \/ \E c \in Claims : UnprepareLoad(i, c) \/ UnprepareUnreadable(i, c)
  \/ UnprepareFresh(i)
  \/ UnprepareDeleteSpec(i)
  \/ UnprepareCommit(i)
  \/ UnprepareFails(i)
  \/ UnprepareReply(i)

Next ==
  \/ \E i \in Instances :
       \/ \E t \in Topologies : Start(i, t) \/ ApplyTopology(i, t)
       \/ Startup(i)
       \/ \E batch \in SUBSET Claims :
            PrepareResourceClaims(i, batch) \/ UnprepareResourceClaims(i, batch)
       \/ Prepare(i)
       \/ Unprepare(i)
       \/ ReceiveResources(i)
       \/ SetResources(i)
       \/ Crash(i)
  \/ Reboot
  \/ CorruptCheckpoint
  \/ \E c \in Claims : Release(c) \/ \E devices \in Allocations : Want(c, devices)

Spec == Init /\ [][Next]_vars

(* A process keeps running and is restarted when it ends; its goroutines   *)
(* get scheduled.  The kubelet retries a claim until its call is answered, *)
(* and the call lock is not withheld from one caller for ever.             *)
Fairness ==
  /\ \A i \in Instances :
       /\ WF_vars(Startup(i))
       /\ WF_vars(Prepare(i))
       /\ WF_vars(Unprepare(i))
       /\ WF_vars(ReceiveResources(i))
       /\ WF_vars(SetResources(i))
  /\ WF_vars(\E i \in Instances, t \in Topologies : Start(i, t))
  /\ \A c \in Claims :
       /\ SF_vars(\E i \in Instances : PrepareResourceClaims(i, {c}))
       /\ SF_vars(\E i \in Instances : UnprepareResourceClaims(i, {c}))

FairSpec == Spec /\ Fairness

-----------------------------------------------------------------------------
(* What each variable may hold; the parts are what the disk, a process, its *)
(* view of the host and the world outside the driver each own.              *)
DiskTypes ==
  /\ ckptFile \in {"missing", "valid", "corrupt"}
  /\ ckpt \in [Claims -> Entries \cup {None}]
  /\ common \in BOOLEAN
  /\ specs \in [Claims -> Entries \cup {None}]
  /\ jsons \in SUBSET Claims

ProcessTypes ==
  /\ pc \in [Instances -> Steps]
  /\ todo \in [Instances -> SUBSET Claims]
  /\ ok \in [Instances -> SUBSET Claims]
  /\ cur \in [Instances -> Claims \cup {None}]
  /\ mem \in [Instances -> [Claims -> Entries \cup {None}]]
  /\ entry \in [Instances -> Entries \cup {None}]
  /\ skipped \in [Instances -> SUBSET Claims]

ViewTypes ==
  /\ alloc \in [Instances -> SUBSET Devices]
  /\ units \in [Instances -> Topologies \cup {NoUnits}]
  /\ sent \in [Instances -> {None} \cup SUBSET Devices]
  /\ got \in [Instances -> {None} \cup SUBSET Devices]

WorldTypes ==
  /\ kube \in [Claims -> {"none", "pending", "running", "releasing"}]
  /\ allocation \in [Claims -> Allocations \cup {{}}]
  /\ lost \in SUBSET Claims
  /\ used \in [Events -> Nat]

(* Every variable of the driver, the files, the kubelet and the scheduler  *)
(* keeps its type: in particular what ApplyConfig builds is an entry for   *)
(* an allocation, from a mapping that has all of its devices.              *)
TypeOK == DiskTypes /\ ProcessTypes /\ ViewTypes /\ WorldTypes

(* What the kubelet believes and what the checkpoint holds.                 *)

(* An entry of the checkpoint describes the current allocation of a claim  *)
(* the kubelet has not released: Prepare answers a repeated call from the  *)
(* entry, so one that outlived its claim's Unprepare would hand the pod    *)
(* the devices of an earlier allocation.                                   *)
EntryMatchesAllocation ==
  \A c \in Claims :
    ckpt[c] # None => kube[c] # "none" /\ DOMAIN ckpt[c] = allocation[c]

(* A claim the kubelet was told is prepared stays recorded until it is     *)
(* released, through crashes, reboots, failed operations and other         *)
(* claims' calls; only an Unprepare that cannot read the checkpoint, and   *)
(* replaces it by a fresh one, makes the driver forget it.                 *)
RunningIsRecorded ==
  \A c \in Claims : kube[c] = "running" => ckpt[c] # None \/ c \in lost

(* An entry never changes while it exists -- a repeated Prepare returns    *)
(* what the first one returned -- and goes away only when its own claim is *)
(* being released or the checkpoint is replaced by a fresh one: a call     *)
(* rewrites the whole file without losing another claim's entry.           *)
EntriesAreStable ==
  [][\A c \in Claims : ckpt[c] # None =>
       \/ ckpt'[c] = ckpt[c]
       \/ ckpt'[c] = None /\ (kube[c] = "releasing" \/ c \in lost')]_vars

-----------------------------------------------------------------------------
Store == INSTANCE ClaimStore WITH record <- ckpt, forgotten <- lost

(* Seen by the kubelet, all of the above is a store in which Prepare and   *)
(* Unprepare take effect at once: a claim is recorded at most once, for    *)
(* its allocation, and answered only when it is; its record goes only      *)
(* while it is released, and is gone when the release is answered.  The    *)
(* steps between, and every crash and error among them, do not show.       *)
ImplementsClaimStore == Store!Spec

-----------------------------------------------------------------------------
(* What the CDI root holds.                                                 *)

(* A spec file never disagrees with the checkpoint entry of its claim:     *)
(* Prepare and reconcileCDISpecs derive the spec from the entry they       *)
(* record or have read, and Prepare writes it first.                       *)
SpecAgreesWithEntry ==
  \A c \in Claims : ckpt[c] # None /\ specs[c] # None => specs[c] = ckpt[c]

(* The CDI names a running pod's claim was answered with resolve while the *)
(* driver serves: the common spec and the claim's spec file exist.  The    *)
(* exceptions are the ones the code logs: a claim reconcileCDISpecs could  *)
(* not validate, and one whose entry a fresh checkpoint dropped.           *)
RunningResolves ==
  \A i \in Instances, c \in Claims :
    pc[i] \in Serving /\ kube[c] = "running" /\ c \notin lost \cup skipped[i]
      => common /\ ckpt[c] # None /\ specs[c] = ckpt[c]

(* When reconcileCDISpecs has finished, the CDI root holds exactly the     *)
(* specs of the checkpointed claims it could validate, whatever earlier    *)
(* processes left behind, and no spec in another format.                   *)
ReconcileConverges ==
  [][\A i \in Instances : pc[i] = "prune" /\ pc'[i] = "idle" =>
       /\ common' /\ jsons' = {}
       /\ \A c \in Claims :
            specs'[c] = IF c \in skipped'[i] THEN None ELSE ckpt'[c]]_vars

-----------------------------------------------------------------------------
(* Progress.                                                                *)

(* A claim can always be released in the end: Unprepare asks neither for   *)
(* the devices to be allocatable nor for the spec file to exist.           *)
ReleaseCompletes ==
  \A c \in Claims : kube[c] = "releasing" ~> kube[c] = "none"

(* A claim whose devices the serving driver can allocate does not stay     *)
(* pending for ever: what a failed or interrupted Prepare left behind does *)
(* not stand in the way of the kubelet's next attempt.                     *)
PrepareCompletes ==
  \A c \in Claims \ OpaqueClaims :
    []<>~( /\ kube[c] = "pending"
           /\ \E i \in Instances :
                /\ pc[i] \in Serving
                /\ allocation[c] \subseteq alloc[i] \cap DOMAIN units[i] )

-----------------------------------------------------------------------------
(* What a comment in the code says, and the code does not do.               *)

(* Regenerating a spec from an entry whose devices are gone "would inject  *)
(* a device node that does not exist on the host": a spec is only written  *)
(* with the nodes its devices have in a topology some live process knows.  *)
WrittenNodesExist ==
  [][\A c \in Claims : specs'[c] # None /\ specs'[c] # specs[c] =>
       \E i \in Instances : \A d \in DOMAIN specs'[c] :
         d \in DOMAIN units[i] /\ units[i][d] = specs'[c][d]]_vars
=============================================================================
