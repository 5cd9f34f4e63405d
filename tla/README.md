# A TLA+ model of tt-dra-driver

tt-dra-driver is a Kubernetes DRA kubelet plugin for Tenstorrent hardware. It
learns the chips of its node from the fabric manager agent, publishes them as
ResourceSlices, and prepares allocated claims for the kubelet by writing CDI
spec files and a checkpoint. This directory holds TLA+ models of the parts
where that is hard to get right, the TLC runs that check them, and TLAPS
proofs about the claim lifecycle, the topology flow, the devices published for
a host and the exclusive use of the hardware.

Paths below are relative to `src/`; `K/` is `cmd/tt-dra-driver-kubeletplugin/`.

## The system

| Part | Source | State | Operations |
|---|---|---|---|
| Claim lifecycle | `K/state.go` | allocatable devices; mutex | Prepare, Unprepare, SetResources, reconcileCDISpecs |
| Checkpoint | `K/checkpoint.go` | one file with a checksum | read whole, replace whole |
| CDI specs | `K/cdi.go` | a common file, one file per claim | create, delete, prune |
| Driver | `K/driver.go` | the watch it follows | NewDriver, republishDevices, the two gRPC handlers |
| Agent client | `internal/fabricmanager/client.go` | stream, timer, backoff, error | run, stream, watchError, transient |
| Profile | `internal/profiles/tenstorrent/` | `unitByDevice` | WatchDevices, applyTopology, ApplyConfig |
| Process | `K/main.go` | main context | Action, RunPlugin: directories, signals, shutdown |
| Counter probe | `K/counters.go` | the options of the profile | once per start |
| Health check | `K/health.go` | a gRPC server | start, Check, Stop |

The parts meet in four places.

* **Topology flow.** agent stream → `agentWatch` → `deviceWatch` (applyTopology)
  → `republishDevices` (SetResources) → ResourceSlices. Three goroutines hand
  values over on unbuffered channels.
* **Claim flow.** kubelet → helper's call lock → DeviceState mutex → spec file →
  checkpoint → reply.
* **Both meet** in `allocatable`, which SetResources replaces under the
  DeviceState mutex, and in `unitByDevice`, which applyTopology replaces under
  a mutex of its own, so also in the middle of a Prepare.
* **Process life.** The kubelet's liveness probe asks the health check, which
  calls the process's own sockets; the answer of the counter probe, taken
  once per process, decides which overlapping devices the scheduler sees.

What makes it hard: processes crash between any two file operations and
overlap during a rolling update; a reboot empties the CDI root, which is a
tmpfs, and keeps the checkpoint; single file operations fail; replies get
lost and the kubelet retries; streams break, time out and reconnect;
topologies change while claims are prepared; API limits cut the publication
into sets and slices; a process may offer other devices than the one before
it while claims of that one are still held.

## Modules

| Module | Models |
|---|---|
| `DeviceState` | claim lifecycle, checkpoint, CDI root, any number of driver processes, kubelet and scheduler |
| `ClaimStore` | the abstract store `DeviceState` implements |
| `TopologyWatch` | topology flow from the agent's state to the published slices |
| `Profile` | what applyTopology computes: bundles, trays, counters, meshes, slices |
| `Lists` | the sorted, filtered and chunked lists `Profile` is built from |
| `Lifecycle` | one process after another: counter probe, startup, health check, liveness probe, shutdown |
| `Exclusion` | `Lifecycle` composed with the pool, the apiserver, the scheduler and the prepared claims |
| `DeviceStateProofs`, `CDIProofs`, `ClaimStoreProofs`, `TopologyWatchProofs`, `ListsProofs`, `ProfileProofs`, `ProfileCompositesProofs`, `ExclusionProofs` | the inductive invariants and theorems |
| `MCDeviceState`, `MCTopologyWatch`, `MCProfile`, `MCExclusion` | instances for TLC |

Each definition that translates code is named in the `map` of `PROJECT.json`
with its lines. Operators commented "A mutant" are deliberate bugs: one
replaces the definition it mutates to show that a property can fail.

### DeviceState

An action is one step that another actor can see: a file operation, or the
use of a value another goroutine may change. `pc[i]` is the step of process
`i`, `cur[i]` the claim for which it holds the mutex, `mem[i]` the checkpoint
as the call read it. The startup steps are `NewDeviceState` with
`reconcileCDISpecs`; pruning lists the CDI root once and removes the listed
files one by one. `alloc[i]` is `DeviceState.allocatable`, `units[i]` is
`Profile.unitByDevice`, `sent[i]` and `got[i]` are the resources on their way
between the two goroutines.

A prepared claim's entry is the function from its devices to their container
edits, and a spec file is that function; the text of a CDI spec is not
modelled. `lost` remembers claims whose entry an Unprepare discarded with an
unreadable checkpoint, and `skipped[i]` those whose spec reconcileCDISpecs did
not regenerate; both are there to state the exceptions the code itself makes.

Assumed of code outside `src/`:

* the kubeletplugin helper lets one prepare or unprepare call at a time
  through, across the pods of a rolling update, in the order the kubelet
  issued them;
* writing a spec and writing the checkpoint are atomic renames;
* the first start of the driver on a node is alone until it has created the
  checkpoint file. After that startups and calls of different processes
  overlap freely: the DaemonSet surges, and without a readiness probe in the
  chart an old pod that is still starting counts as available too;
* after a reboot the kubelet prepares the claims of its pods again, and it
  calls Unprepare for every claim it has tried to prepare.

`ClaimStore` is what all this amounts to for the kubelet: one record per
claim, made and removed at once. Processes, files, batches, crashes and
failed operations are not in it. The refinement mapping (`Store` in
`DeviceState`) takes the checkpoint for the records and `lost` for the
forgotten ones; every other variable is hidden. `StartOver` is the one
imperfection that shows: an Unprepare that cannot read the checkpoint replaces
it by an empty one.

### TopologyWatch

The state follows the goroutines: `watch` for `agentWatch.run`, `conv` for
`deviceWatch.run`, `phase` for `NewDriver` and `republishDevices`. A snapshot
is `[gen, view]`, where `gen` is a ghost that numbers the agent's states in the
order in which they were true; the code never sees it, and its own version
counter is per connection and only logged. `timer` is the first-snapshot
timer, whose callback may run until Stop is called, that is also after Recv
has returned. Topologies `t1` and `t2` publish the same resources, so that
SetResources sometimes finds nothing new.

The agent is external. It writes its state when a stream opens and again when
the state has changed, may pass over states nobody was sent
(`fm-proto/agent.proto`), stops, starts with any state, and may be a version
without WatchTopology.

### Profile

`ApplyTopology(h)` computes, for a reported host `h`, the units, the counter
layout and the slices, as `applyTopology` does. A chip's unique id is its chip
id. `base` is the location the agent gives the first place of a tray; the
code does not see it and guesses it from the bundles. Attributes and
capacities of devices are left out. Chip ids, places and device nodes are
assumed to identify a chip (`HostsAssumption`). The groupings are a constant, of
which `MeshesAssumption` says what holds of the transcribed ones
(`BhGalaxyRevCMeshes`): a grouping is a rectangle of more than one chip, lies on
no more trays than a device may draw on counter sets, and does not start in the
same place as another one of its shape. TLC evaluates it for them.

The code's loops are written without recursion. A sort is `Ascending`, which
puts the element with n elements up to it in place n; a loop that skips
elements is `Pick`; the one loop whose state matters, the packing of counters,
is a recursive function, `Packed`.

### Lifecycle

`phase` walks through `newApp`'s Action, `RunPlugin`, `NewDriver` and
`Shutdown`, with every early return leading to `Exits`. `ctx` is the main
context with the reason it was cancelled: a signal, `HandleError`, or the
kubelet ending the container. A signal only cancels the context while
`NotifyContext` is in force; before it, and after `stop()`, it ends the process.
`check` is the health check in flight, between its two calls. `GracefulStop`
lets it finish (`HealthcheckStops`), and the helper stops afterwards.

Time is counted in periods of the liveness probe. Only the wait for the
agent takes that long; the other steps of a start and of a shutdown are over
before the next period begins. `gate` is the apiserver's
DRAPartitionableDevices gate, which may open and does not close again.

External: the kubelet's probe and restarts, the agent, the gate, and the
helper, whose sockets may close with the context or stay until Stop.

### Exclusion

The devices of a host are abstracted to the nodes each resolves to and the
counters each consumes: `PublicationOf[host][options]`. What the proofs need of
it, that counters declare overlaps and that chips do not overlap, is
`CountersAssumption`; it is what `OverlapIsDeclared` proves of `applyTopology`: with
counters, overlapping devices share one, and with chips only, where no device
has a counter, no two devices share a node. `MCExclusion` gives a table for a small
host and has TLC check that it is exactly what `Profile` computes
(`PublishedByProfile`).

The apiserver stores the slices and strips counters while the gate is closed.
The scheduler allocates a device that is not allocated and whose counters no
allocated device *of the pool* consumes; an allocated device that is no longer
published consumes nothing. `units` is the mapping, `offer` the resources
`deviceWatch.run` is sending and `alloc` those the driver received last; the driver
publishes `alloc`, which the mapping may be one topology ahead of. Prepare wants
the device in `alloc` and hands out the nodes the mapping resolves it to. `moved`
is a ghost: the claims whose device was withdrawn or resolves to other nodes
than when it was allocated.

## Runs

All passing runs end without an error. Deadlock is checked for `DeviceState`
and `Exclusion`. It is not checked for the other two: a healthy watch is silent
while the topology does not change, and a `Profile` behaviour ends after
`MaxUpdates` topologies.

| Run | Checks | Bounds |
|---|---|---|
| `DeviceState_faults` | `EntryMatchesAllocation`, `SpecAgreesWithEntry`, `RunningResolves`, `ReconcileConverges`, `TypeOK` | one claim, one process, every kind of event once |
| `DeviceState_claims` | `EntryMatchesAllocation`, `RunningIsRecorded`, `EntriesAreStable`, `ImplementsClaimStore` | two claims; one process with at most two kinds of event, or two overlapping processes with a crash and a failed write on a steady host |
| `DeviceState_live` | `ReleaseCompletes`, `PrepareCompletes` | two claims, one of them with opaque configuration, vanishing devices |
| `TopologyWatch_safety` | `NeverGoesBack`, `NeverEmptied`, `UnitsLead`, `CloseIsExplained`, `DelayIsCapped`, `TypeOK` | three topologies, every kind of trouble once, at most two kinds besides a change |
| `TopologyWatch_live` | `Converges`, `WatchCloses` | a change, an agent restart, a timeout and a signal |
| `Profile_units` | `EveryAsicOnce`, `CountersDeclareOverlap`, `CountersAreWellFormed`, `TraysAreKept`, `SlicesFit`, `MeshesAreCabled`, `MeshesAreRectangles`, `TypeOK` | the limits of the API; 968 hosts: all populations of five places on two trays in both chip orders, all cablings of a 2x2 mesh, three trays of up to 65 chips, the 32-chip Galaxy rev C with at most one chip or cable wrong, or no MMIO chip in a first place, and both location bases |
| `Exclusion_restarts` | `PoolIsDeclared`, `Exclusive`, `ShutdownIsRestart`, `EventuallyRuns`, `TypeOK` | two claims, three chips on two trays and a mesh across them, a changed host, all composites or none, two disturbances in a behaviour, waits of two periods |

The bounds leave the interesting cases in. A device name with changing nodes
and one that comes and goes make every way a checkpointed device can go
stale. Every event can strike at every step, and in the faults run all of
them can strike in one behaviour. Two claims are enough for a call to harm
another claim, and for two holders of one node; two processes are enough for
an overlap. In `Profile_units` a tray can share a set, fill one or two
exactly, start a new one, or be too large for the sets one device may draw
on; a host can need more sets and more devices than one slice takes. With a
maximum delay of 3 the second doubling overshoots. In `Exclusion_restarts` a
disturbance is a failed step, an unanswered probe, a signal, a crash, a
changed host, a lost topology, an opened gate or a slow check; two of them
let a process end and its successor see another host or give another answer.

### Disagreements with comments and documents

Five runs check what a comment or a document says, and TLC finds a behaviour
in which the code does something else.

| Run | Statement | What happens |
|---|---|---|
| `DeviceState_upgrade_race` | a prepared claim's CDI names resolve (`K/state.go:293-298`) | a new process prunes the spec an old one has written and not yet checkpointed; the old one reports success |
| `DeviceState_renumbered` | no spec is written with a node the host does not have (`K/state.go:490-496`) | names are validated, nodes are not; after a reboot a device may keep its name and change its node |
| `TopologyWatch_late_timer` | the watch ends only when cancelled or beyond repair (`internal/fabricmanager/client.go:146-148`) | a timer firing between Recv and Stop ends it with Canceled, which is not transient; the driver exits and is restarted |
| `Exclusion_downgrade` | a blocked claim "never lands on hardware someone else holds" (`docs/single-host.md:137-138`) | a tray is in use, the process restarts, its counter probe gets no answer, and it publishes chips only; the tray's counters are gone and its chips go to a second claim |
| `Lifecycle_probe` | the wait for the first topology is generous and the process is restarted when it expires (`K/driver.go:52-56`) | the health-check server starts after the wait; with the chart's liveness probe (three failures, ten seconds apart) the kubelet ends the process after about 30 seconds of a wait of up to five minutes |

`Exclusive`, which holds, marks out the first of the last two: two claims can
share a node only if a device one of them holds was withdrawn or changed its
nodes. A composite that disappears with a cable is another way to get there.
`EventuallyRuns` does the same for the second: the restarts delay the driver but
do not keep it down once the agent reports.

Three smaller differences were met on the way. No run is kept for them.

* `K/state.go:438` calls the allocatable set fixed at startup. SetResources
  replaces it.
* `K/state.go:347` says that Unprepare deletes the spec file. It does not for a
  claim without a checkpoint entry, for example after a Prepare whose
  checkpoint write failed; the next start prunes the file.
* `internal/profiles/tenstorrent/mesh.go:145` calls the location base the lowest
  location the agent reported. It is the lowest among the MMIO chips, so if
  the first chip of every tray is remote, slots resolve to their neighbours.
  A mesh of such neighbours is published if they happen to be cabled;
  `MeshesAreRectangles` holds of it, so it is a mesh, of other chips than the
  grouping names.

### Fairness

`DeviceState.FairSpec`: the goroutines of a process run (weak fairness of the
startup, call and topology steps), a process that ended is started again, and
the kubelet retries each claim until it is answered. The last is strong
fairness, because calls of other claims keep taking the lock. Events outside
the driver are never fair.

`TopologyWatch.FairSpec`: goroutines run, delays elapse, and an agent with an
open stream writes its state. `Converges` states as its premise that a process
told to end does, and that the kubelet restarts it; without that a permanent
error would end the story.

`Exclusion.FairSpec` (and `LifecycleSpec`): the kubelet restarts the container and
keeps probing, and the steps of a start, of a shutdown and of a health check
are taken. Nothing obliges the agent to report, the gate to open or a
disturbance to happen.

## Proofs

For every value of the constants, in particular for any number of processes,
claims, devices, hosts and events:

| Module | Theorem | States |
|---|---|---|
| `DeviceStateProofs` | `TypeCorrect` | `Spec => []TypeOK` |
| | `EntriesMatchAllocations` | `Spec => []EntryMatchesAllocation` |
| | `RunningClaimsAreRecorded` | `Spec => []RunningIsRecorded` |
| | `EntriesStayPut` | `Spec => EntriesAreStable` |
| `CDIProofs` | `SpecsAgree` | `Spec => []SpecAgreesWithEntry`, for one process |
| | `RunningClaimsResolve` | `Spec => []RunningResolves`, for one process |
| | `ReconcileIsComplete` | `Spec => ReconcileConverges`, for one process |
| `ClaimStoreProofs` | `DeviceStateImplementsClaimStore` | `Spec => ImplementsClaimStore` |
| `TopologyWatchProofs` | `TypeCorrect` | `Spec => []TypeOK` |
| | `PublicationNeverGoesBack` | `Spec => NeverGoesBack` |
| | `PublicationIsNeverEmptied` | `Spec => NeverEmptied` |
| | `UnitsAlwaysLead` | `Spec => []UnitsLead` |
| | `ClosesAreExplained` | `Spec => []CloseIsExplained` |
| | `DelaysAreCapped` | `Spec => []DelayIsCapped` |
| `ProfileProofs` | `TypeCorrect` | `Spec => []TypeOK` |
| | `AsicsArePublishedOnce` | `Spec => []EveryAsicOnce` |
| | `OverlapIsDeclared` | `Spec => []CountersDeclareOverlap` |
| | `SlicesAreFit` | `Spec => []SlicesFit` |
| `ProfileCompositesProofs` | `CountersAreAccepted` | `Spec => []CountersAreWellFormed` |
| | `NoTrayIsLost` | `Spec => []TraysAreKept` |
| | `MeshesFollowCables` | `Spec => [](SmallTrays(host) => MeshesAreCabled)` |
| | `NoOtherMesh` | `Spec => []MeshesAreRectangles` |
| `ExclusionProofs` | `TypeCorrect` | `Spec => []TypeOK` |
| | `PoolsAreDeclared` | `Spec => []PoolIsDeclared` |
| | `NodesAreExclusive` | `Spec => []Exclusive` |

The assumptions are the named ones of each module; TLC evaluates them in every
run. `CDIProofs` assumes besides that the node has one process at a time
(`Alone`: `Instances` has at most one member, which may crash and restart).
Each inductive invariant, `IInv`, `CDIInv` or `Derived`, was model-checked too.

**Claims.** The invariants are not inductive alone: a call rewrites the whole
checkpoint from `mem`, so one needs to know that `mem` is still what the file
holds. `IInv` adds

* `OneCall`: at most one process is in a call;
* `FirstCheckpoint`: the process that creates the first checkpoint is the only
  one, so nothing is overwritten;
* `MemIsCurrent`: within a call `mem` equals the checkpoint;
* `BatchIsHeld`, `HeldIsAllocated`: the claims of a call are still held by the
  kubelet, with the allocation the call works on;
* `EntryIsBuilt`: what is about to be committed is an entry for exactly that
  allocation.

The call lock gives `OneCall`; `MemIsCurrent` follows from it, and from there
each commit changes only its own claim's entry. The proof has a lemma per
frame (leaving a call, continuing it, committing, startup steps), and one step
per action.

**CDI root.** The checkpoint's `IInv` says nothing of the spec files; `CDIInv`
does, for one process. `Regenerated` and `Pruned` are the loop invariants of
`reconcileCDISpecs`: the specs passed are those of the entries, and only specs
that no validated entry needs are listed for removal. `Kept` carries that
through the calls: a recorded claim has its spec until its release begins,
because Prepare writes the spec before the entry and Unprepare deletes it only
while the kubelet releases the claim. With a second process `Pruned` breaks:
the other process writes specs and entries after this one has read the
checkpoint, which is what `DeviceState_upgrade_race` shows.

**Claim store.** The refinement rests on the same invariant. The two commits
and the fresh checkpoint map to `Record`, `Forget` and `StartOver`, the replies to
`Prepared` and `Released`; every other step of a process, a crash and a failed
operation among them, is a stutter.

**Topology.** A snapshot passes through the wire, the client's hand, the device
watch, the driver's hand and the allocatable set before it is published.
`InOrder` says that each of these places that is in use holds nothing older than
the places after it, and `InUse` that everything past the device watch is
usable. A step moves one snapshot one place on, or empties places (`Drains`):
that keeps the order, and `NeverGoesBack` is its two last places. `Explained` ties
every end of a goroutine to an error or to the cancelled context.

**Profile.** The invariant is `Derived` (lemma `PublicationIsDerived`): nothing is
applied yet, or `unitByDevice` and `slices` are what `applyTopology` computes for
`host`. Each property then follows from facts about that computation, for any
host.

* *Lists.* `ListsProofs` shows that `Ascending` lists each element of a set once,
  that `Pick` keeps what it should, and that `Chunk` cuts a list into pieces of at
  most n that together have each element once. With the units' names all
  different this gives `SlicesFit`.
* *Bundles.* A tray has exactly one lowest MMIO chip, since places are unique; so
  each remote chip has one owner, and the bundles of a tray partition its ASICs.
* *Counters.* Number the counters by position: set times `MaxCountersPerSet`, plus
  the place in the set. `Packed` only moves forward (`EndGrows`), so positions are
  unique, and the set of a counter is its position divided by
  `MaxCountersPerSet`; hence no set is over-full. No set is skipped, because a new
  one is begun only behind a counter in the one before; hence none is empty.
* *Trays.* A tray either fits the set being filled or begins at the first counter
  of a set. So it takes as few sets as its size allows, and the code drops it
  only if its size exceeds `MaxSetsPerDevice` sets.
* *Meshes.* Row and column of a position turn the pairs `unlinkedNeighbours` checks
  into the neighbours in the rectangle. A slot resolves to the chip in its place
  if the guessed location base is right.

Two premises limit `MeshesFollowCables` to what the code does. `ReportsBase`, which
is part of `MeshesAreCabled`: the lowest location of an MMIO chip is that of a
tray's first place. Where no MMIO chip is in a first place the code takes the
next one for the base, and slots resolve to their neighbours. `SmallTrays`: the
MMIO chips of a tray fit one counter set, so that the chips of a mesh need no
more sets than the mesh has trays; a Galaxy tray has 8, a set holds 32.
`NoOtherMesh` needs neither: the members of a published mesh are linked as its
rectangle says even where they are not the chips the grouping names. On the
hosts of `Profile_units` without an MMIO chip in a first place both cases
happen: meshes that lack a chip and are dropped, and meshes of neighbours that
are published.

**Exclusion.** A process offers composites only if it has seen the gate open
(`OptionsAreBacked`), and what it maps, sends on or publishes was computed from
one topology (`UnitsAreComputed`), so what the apiserver stores declares its
overlaps, however far the publication is behind the mapping. A
claim that did not move has its device from a pool in which it was free, so the
devices of two such claims are disjoint (`HoldersAreApart`), and what it was
prepared with are the nodes of the device in the pool (`GrantsAreHeld`,
`UnitsAgree`).

Only model-checked: `MeshesAreCabled` where a tray exceeds a counter set, all
liveness, which the prover does not support, and that the table of
`MCExclusion` is what `Profile` computes.

## Not modelled

* Several opaque configurations and their precedence, and admin access: the
  profile registers no configuration type, so a claim that carries a
  configuration for this driver is rejected before precedence matters.
* A gate that closes while a process runs. The code asks once per process and
  promises nothing for that case.
* An unknown service name in a health check: the chart asks for `liveness`.
* Attributes, capacities, CDI text, logging, the parsing of flags, client
  set-up, generated protocol code: no state.
* A claim without results for this driver: the kubelet does not call the
  driver for it.
