------------------------ MODULE TopologyWatchProofs ------------------------
(***************************************************************************)
(* The topology watch never takes the driver back, for any number of       *)
(* topologies, lost streams, agents and restarts.                          *)
(*                                                                         *)
(* A snapshot moves from the agent through the stream, agentWatch,         *)
(* deviceWatch and republishDevices to the published resources.  InOrder   *)
(* says that whatever is behind in this pipeline is at least as new as     *)
(* whatever is ahead; Explained says why a goroutine that ended did so.    *)
(***************************************************************************)
EXTENDS TopologyWatch, TLAPS

-----------------------------------------------------------------------------
(* The parts of TypeOK. *)

AgentTypeOK == up \in BOOLEAN /\ serves \in BOOLEAN /\ now \in Snapshots

StreamTypeOK == conn \in {"none", "open", "broken"} /\ wire \in Seq(Snapshots) /\ told \in Nat

ClientTypeOK ==
  /\ watch \in Watches
  /\ received \in BOOLEAN
  /\ timer \in {"off", "armed", "fired"}
  /\ hold \in Snapshots \cup {NoSnapshot}
  /\ failure \in Errors \cup {None}
  /\ delay \in Nat
  /\ werr \in Errors \cup {None}

DeviceTypeOK ==
  /\ conv \in {"range", "convert", "send", "closed"}
  /\ input \in Snapshots \cup {NoSnapshot}
  /\ units \in UsableSnapshots \cup {NoSnapshot}
  /\ derr \in Errors \cup {None}

DriverTypeOK ==
  /\ phase \in {"initial", "build", "watch", "install", "publish", "stopped", "exited"}
  /\ incoming \in UsableSnapshots \cup {NoSnapshot}
  /\ alloc \in UsableSnapshots \cup {NoSnapshot}
  /\ published \in UsableSnapshots \cup {NoSnapshot}

ControlTypeOK ==
  /\ ctx \in {"live", "done"}
  /\ fatal \in Errors \cup {None, "misconfigured", "unexpected"}
  /\ used \in [Events -> Nat]

Types ==
  /\ AgentTypeOK /\ StreamTypeOK /\ ClientTypeOK /\ DeviceTypeOK /\ DriverTypeOK
  /\ ControlTypeOK

-----------------------------------------------------------------------------
(* The process serves devices, forwards a snapshot, converts one. *)
Equipped == phase \notin {"initial", "exited"}
Forwarding == watch \in {"received", "forward"}
Converting == conv \in {"convert", "send"}

(* What each place of the pipeline holds while it is in use. *)
InUse ==
  /\ Forwarding => hold \in Snapshots
  /\ Converting => input \in Snapshots
  /\ conv = "send" => input \in UsableSnapshots /\ units = input
  /\ phase = "install" => incoming \in UsableSnapshots
  /\ phase \notin {"install", "exited"} => incoming = NoSnapshot
  /\ Equipped => alloc \in UsableSnapshots

(* The places from the agent to the one named hold nothing older than n. *)
WireFrom(n) == n <= now.gen /\ \A k \in 1..Len(wire) : n <= wire[k].gen
HoldFrom(n) == WireFrom(n) /\ (Forwarding => n <= hold.gen)
InputFrom(n) == HoldFrom(n) /\ (Converting => n <= input.gen)
IncomingFrom(n) == InputFrom(n) /\ (phase = "install" => n <= incoming.gen)
AllocFrom(n) == IncomingFrom(n) /\ (Equipped => n <= alloc.gen)

InOrder ==
  /\ AllocFrom(published.gen)
  /\ Equipped => IncomingFrom(alloc.gen)
  /\ phase = "install" => InputFrom(incoming.gen)
  /\ Converting => HoldFrom(input.gen)
  /\ Forwarding => WireFrom(hold.gen)
  /\ \A k \in 1..Len(wire) : wire[k].gen <= now.gen
  /\ \A j, k \in 1..Len(wire) : j < k => wire[j].gen <= wire[k].gen

(* The units are not behind what was made of them. *)
UnitsFollow == Equipped => alloc.gen <= units.gen /\ incoming.gen <= units.gen

(* An error, or a cancelled context, is behind every end. *)
Explained ==
  /\ watch = "ended" => failure \in Errors
  /\ watch = "closed" /\ werr = None => ctx = "done"
  /\ conv = "closed" /\ derr = None => ctx = "done"
  /\ fatal # "unexpected"

IInv == Types /\ InUse /\ InOrder /\ UnitsFollow /\ Explained /\ DelayIsCapped

-----------------------------------------------------------------------------
(* Facts about snapshots.                                                   *)

LEMMA SnapshotFacts ==
  /\ NoSnapshot.gen = 0
  /\ UsableSnapshots \subseteq Snapshots
  /\ \A s \in Snapshots : s.gen \in Nat
  /\ \A s \in Snapshots : Usable(s) => s \in UsableSnapshots
  /\ \A s \in UsableSnapshots : Usable(s)
BY DEF NoSnapshot, UsableSnapshots, Snapshots, Usable

LEMMA GensAreNat ==
  ASSUME Types
  PROVE  /\ now.gen \in Nat /\ hold.gen \in Nat /\ input.gen \in Nat /\ units.gen \in Nat
         /\ incoming.gen \in Nat /\ alloc.gen \in Nat /\ published.gen \in Nat
         /\ \A k \in 1..Len(wire) : wire[k] \in Snapshots /\ wire[k].gen \in Nat
<1>1. now.gen \in Nat /\ hold.gen \in Nat /\ input.gen \in Nat
  BY SnapshotFacts DEF Types, AgentTypeOK, ClientTypeOK, DeviceTypeOK
<1>2. units.gen \in Nat /\ incoming.gen \in Nat /\ alloc.gen \in Nat /\ published.gen \in Nat
  BY SnapshotFacts DEF Types, DeviceTypeOK, DriverTypeOK
<1>3. \A k \in 1..Len(wire) : wire[k] \in Snapshots
  BY DEF Types, StreamTypeOK
<1> QED
  BY <1>1, <1>2, <1>3, SnapshotFacts

(* A group of variables that stays keeps its type. *)
LEMMA GroupsAlone ==
  ASSUME Types
  PROVE  /\ UNCHANGED agent => AgentTypeOK'
         /\ UNCHANGED stream => StreamTypeOK'
         /\ UNCHANGED client => ClientTypeOK'
         /\ UNCHANGED device => DeviceTypeOK'
         /\ UNCHANGED driver => DriverTypeOK'
         /\ UNCHANGED <<ctx, fatal, used>> => ControlTypeOK'
<1>1. UNCHANGED agent => AgentTypeOK'
  BY DEF Types, AgentTypeOK, agent
<1>2. UNCHANGED stream => StreamTypeOK'
  BY DEF Types, StreamTypeOK, stream
<1>3. UNCHANGED client => ClientTypeOK'
  BY DEF Types, ClientTypeOK, client
<1>4. UNCHANGED device => DeviceTypeOK'
  BY DEF Types, DeviceTypeOK, device
<1>5. UNCHANGED driver => DriverTypeOK'
  BY DEF Types, DriverTypeOK, driver
<1>6. UNCHANGED <<ctx, fatal, used>> => ControlTypeOK'
  BY DEF Types, ControlTypeOK
<1> QED
  BY <1>1, <1>2, <1>3, <1>4, <1>5, <1>6

LEMMA NowStays ==
  ASSUME Types, UNCHANGED agent
  PROVE  now' = now /\ now.gen <= now'.gen /\ now'.gen \in Nat
<1>1. now' = now
  BY DEF agent
<1> QED
  BY <1>1, GensAreNat

-----------------------------------------------------------------------------
(* The order of the pipeline.                                               *)

(* Nothing moves on: places may be emptied, and the agent moves ahead or   *)
(* writes where it is.                                                     *)
Drains ==
  /\ now.gen <= now'.gen
  /\ wire' = wire \/ wire' = <<>> \/ (wire' = Append(wire, now) /\ now' = now)
  /\ Forwarding' => Forwarding /\ hold' = hold
  /\ Converting' => Converting /\ input' = input
  /\ phase' = "install" => phase = "install" /\ incoming' = incoming
  /\ Equipped' => Equipped /\ alloc' = alloc
  /\ published' = published

LEMMA DrainsKeepsOrder ==
  ASSUME Types, InOrder, Drains, now'.gen \in Nat
  PROVE  InOrder'
<1>1. \A n \in Nat : WireFrom(n) => WireFrom(n)'
  <2> SUFFICES ASSUME NEW n \in Nat, WireFrom(n) PROVE WireFrom(n)'
    OBVIOUS
  <2>1. n <= now'.gen
    BY GensAreNat DEF Drains, WireFrom
  <2>2. \A k \in 1..Len(wire') : n <= wire'[k].gen
    BY DEF Drains, WireFrom, Types, StreamTypeOK
  <2> QED
    BY <2>1, <2>2 DEF WireFrom
<1>2. \A n \in Nat : HoldFrom(n) => HoldFrom(n)'
  BY <1>1 DEF HoldFrom, Drains
<1>3. \A n \in Nat : InputFrom(n) => InputFrom(n)'
  BY <1>2 DEF InputFrom, Drains
<1>4. \A n \in Nat : IncomingFrom(n) => IncomingFrom(n)'
  BY <1>3 DEF IncomingFrom, Drains
<1>5. \A n \in Nat : AllocFrom(n) => AllocFrom(n)'
  BY <1>4 DEF AllocFrom, Drains
<1>6. AllocFrom(published.gen)'
  <2>1. AllocFrom(published.gen)
    BY DEF InOrder
  <2>2. \A n : n = published.gen => AllocFrom(n)'
    BY <1>5, <2>1, GensAreNat
  <2> QED
    BY <2>2 DEF Drains
<1>7. Equipped' => IncomingFrom(alloc.gen)'
  <2> SUFFICES ASSUME Equipped' PROVE IncomingFrom(alloc.gen)'
    OBVIOUS
  <2>1. IncomingFrom(alloc.gen) /\ alloc' = alloc
    BY DEF InOrder, Drains
  <2>2. \A n : n = alloc.gen => IncomingFrom(n)'
    BY <1>4, <2>1, GensAreNat
  <2> QED
    BY <2>1, <2>2
<1>8. phase' = "install" => InputFrom(incoming.gen)'
  <2> SUFFICES ASSUME phase' = "install" PROVE InputFrom(incoming.gen)'
    OBVIOUS
  <2>1. InputFrom(incoming.gen) /\ incoming' = incoming
    BY DEF InOrder, Drains
  <2>2. \A n : n = incoming.gen => InputFrom(n)'
    BY <1>3, <2>1, GensAreNat
  <2> QED
    BY <2>1, <2>2
<1>9. Converting' => HoldFrom(input.gen)'
  <2> SUFFICES ASSUME Converting' PROVE HoldFrom(input.gen)'
    OBVIOUS
  <2>1. HoldFrom(input.gen) /\ input' = input
    BY DEF InOrder, Drains
  <2>2. \A n : n = input.gen => HoldFrom(n)'
    BY <1>2, <2>1, GensAreNat
  <2> QED
    BY <2>1, <2>2
<1>10. Forwarding' => WireFrom(hold.gen)'
  <2> SUFFICES ASSUME Forwarding' PROVE WireFrom(hold.gen)'
    OBVIOUS
  <2>1. WireFrom(hold.gen) /\ hold' = hold
    BY DEF InOrder, Drains
  <2>2. \A n : n = hold.gen => WireFrom(n)'
    BY <1>1, <2>1, GensAreNat
  <2> QED
    BY <2>1, <2>2
<1>11. /\ \A k \in 1..Len(wire') : wire'[k].gen <= now'.gen
       /\ \A j, k \in 1..Len(wire') : j < k => wire'[j].gen <= wire'[k].gen
  <2>1. CASE wire' = <<>>
    BY <2>1
  <2>3. CASE wire' = wire
    <3>1. \A k \in 1..Len(wire) : wire[k].gen <= now'.gen
      BY GensAreNat DEF InOrder, Drains
    <3> QED
      BY <2>3, <3>1 DEF InOrder
  <2>2. CASE wire' = Append(wire, now) /\ now' = now
    <3>1. /\ Len(wire) \in Nat /\ Len(wire') = Len(wire) + 1 /\ wire'[Len(wire) + 1] = now
          /\ \A k \in 1..Len(wire) : wire'[k] = wire[k]
      BY <2>2 DEF Types, StreamTypeOK
    <3>2. \A k \in 1..Len(wire') : k \in 1..Len(wire) \/ k = Len(wire) + 1
      BY <3>1
    <3>3. \A k \in 1..Len(wire') : wire'[k].gen <= now'.gen
      BY <2>2, <3>1, <3>2, GensAreNat DEF InOrder
    <3>4. ASSUME NEW j \in 1..Len(wire'), NEW k \in 1..Len(wire'), j < k
          PROVE  wire'[j].gen <= wire'[k].gen
      <4>1. j \in 1..Len(wire)
        BY <3>1, <3>4
      <4> QED
        BY <2>2, <3>1, <3>2, <3>4, <4>1 DEF InOrder
    <3> QED
      BY <3>3, <3>4
  <2> QED
    BY <2>1, <2>2, <2>3 DEF Drains
<1> QED
  BY <1>6, <1>7, <1>8, <1>9, <1>10, <1>11 DEF InOrder

(* The seven moves.  Each takes the snapshot of one place to the next. *)

LEMMA RecvKeepsOrder ==
  ASSUME Types, InOrder, Recv
  PROVE  InOrder'
<1>1. /\ Len(wire) > 0 /\ Len(wire') = Len(wire) - 1 /\ hold' = wire[1]
      /\ \A k \in 1..Len(wire') : wire'[k] = wire[k + 1]
  BY DEF Recv, Types, StreamTypeOK
<1>0. /\ 1 \in 1..Len(wire)
      /\ \A k \in 1..Len(wire') : k + 1 \in 1..Len(wire) /\ 1 < k + 1
  <2>1. Len(wire) \in Nat
    BY DEF Types, StreamTypeOK
  <2> QED
    BY <1>1, <2>1
<1>2. /\ UNCHANGED <<now, conv, input, phase, incoming, alloc, published>>
      /\ ~Forwarding /\ Forwarding'
  BY DEF Recv, Forwarding, agent, device, driver
<1>3. \A n \in Nat : HoldFrom(n) => HoldFrom(n)'
  BY <1>0, <1>1, <1>2 DEF HoldFrom, WireFrom
<1>4. WireFrom(hold.gen)'
  BY <1>0, <1>1, <1>2 DEF WireFrom, InOrder
<1>5. /\ \A k \in 1..Len(wire') : wire'[k].gen <= now'.gen
      /\ \A j, k \in 1..Len(wire') : j < k => wire'[j].gen <= wire'[k].gen
  <2>1. \A k \in 1..Len(wire') : wire'[k].gen <= now'.gen
    BY <1>0, <1>1, <1>2 DEF InOrder
  <2>2. ASSUME NEW j \in 1..Len(wire'), NEW k \in 1..Len(wire'), j < k
        PROVE  wire'[j].gen <= wire'[k].gen
    <3>1. j + 1 < k + 1
      BY <2>2
    <3> QED
      BY <1>0, <1>1, <3>1 DEF InOrder
  <2> QED
    BY <2>1, <2>2
<1>6. AllocFrom(published.gen)'
  BY <1>2, <1>3, GensAreNat DEF InOrder, AllocFrom, IncomingFrom, InputFrom, Equipped, Converting
<1>7. Equipped' => IncomingFrom(alloc.gen)'
  BY <1>2, <1>3, GensAreNat DEF InOrder, IncomingFrom, InputFrom, Equipped, Converting
<1>8. phase' = "install" => InputFrom(incoming.gen)'
  BY <1>2, <1>3, GensAreNat DEF InOrder, InputFrom, Converting
<1>9. Converting' => HoldFrom(input.gen)'
  BY <1>2, <1>3, GensAreNat DEF InOrder, Converting
<1> QED
  BY <1>4, <1>5, <1>6, <1>7, <1>8, <1>9 DEF InOrder

LEMMA ForwardKeepsOrder ==
  ASSUME Types, InOrder, Forward
  PROVE  InOrder'
BY GensAreNat
DEF Forward, InOrder, AllocFrom, IncomingFrom, InputFrom, HoldFrom, WireFrom, Forwarding,
    Converting, Equipped, agent, stream, driver

LEMMA InitialDevicesKeepsOrder ==
  ASSUME Types, InOrder, InitialDevices
  PROVE  InOrder'
BY GensAreNat
DEF InitialDevices, ReceivesResources, InOrder, AllocFrom, IncomingFrom, InputFrom, HoldFrom,
    WireFrom, Forwarding, Converting, Equipped, agent, stream, client

LEMMA ReceiveUpdateKeepsOrder ==
  ASSUME Types, InOrder, ReceiveUpdate
  PROVE  InOrder'
BY GensAreNat
DEF ReceiveUpdate, ReceivesResources, InOrder, AllocFrom, IncomingFrom, InputFrom, HoldFrom,
    WireFrom, Forwarding, Converting, Equipped, agent, stream, client

LEMMA InstallKeepsOrder ==
  ASSUME Types, InOrder, Install
  PROVE  InOrder'
BY GensAreNat
DEF Install, InOrder, AllocFrom, IncomingFrom, InputFrom, HoldFrom, WireFrom, Forwarding,
    Converting, Equipped, agent, stream, client, device

LEMMA PublishKeepsOrder ==
  ASSUME Types, InOrder, phase \in {"build", "publish"}, published' = alloc, phase' = "watch",
         UNCHANGED <<agent, stream, client, device, incoming, alloc>>
  PROVE  InOrder'
<1>1. IncomingFrom(alloc.gen) /\ alloc.gen <= alloc.gen
  <2>1. IncomingFrom(alloc.gen)
    BY DEF InOrder, Equipped
  <2>2. alloc.gen \in Nat
    BY GensAreNat
  <2>3. alloc.gen <= alloc.gen
    BY <2>2
  <2> QED
    BY <2>1, <2>3
<1>2. AllocFrom(published.gen)'
  BY <1>1 DEF AllocFrom, IncomingFrom, InputFrom, HoldFrom, WireFrom, Forwarding, Converting,
     Equipped, agent, stream, client, device
<1>3. Equipped' => IncomingFrom(alloc.gen)'
  BY <1>1 DEF IncomingFrom, InputFrom, HoldFrom, WireFrom, Forwarding, Converting, Equipped,
     agent, stream, client, device
<1>4. Converting' => HoldFrom(input.gen)'
  BY DEF InOrder, HoldFrom, WireFrom, Forwarding, Converting, agent, stream, client, device
<1>5. Forwarding' => WireFrom(hold.gen)'
  BY DEF InOrder, WireFrom, Forwarding, agent, stream, client
<1>6. /\ \A k \in 1..Len(wire') : wire'[k].gen <= now'.gen
      /\ \A j, k \in 1..Len(wire') : j < k => wire'[j].gen <= wire'[k].gen
  BY DEF InOrder, agent, stream
<1> QED
  BY <1>2, <1>3, <1>4, <1>5, <1>6 DEF InOrder

-----------------------------------------------------------------------------
(* Outside the goroutines.                                                  *)

LEMMA HappensKeepsType ==
  ASSUME Types, NEW e \in Events, Happens(e)
  PROVE  used' \in [Events -> Nat]
BY DEF Happens, Types, ControlTypeOK

LEMMA EventNames ==
  {"change", "stop", "drop", "refuse", "internal", "timeout", "deadline", "signal",
   "misconfigured"} \subseteq Events
BY DEF Events

(* What depends on the goroutines only. *)
LEMMA GoroutinesAlone ==
  ASSUME IInv, UNCHANGED <<device, driver, ctx, fatal, watch, hold, failure, delay, werr>>
  PROVE  InUse' /\ UnitsFollow' /\ Explained' /\ DelayIsCapped'
<1>1. InUse'
  BY DEF IInv, InUse, Forwarding, Converting, Equipped, device, driver
<1>2. UnitsFollow' /\ DelayIsCapped'
  BY DEF IInv, UnitsFollow, DelayIsCapped, Equipped, device, driver
<1>3. Explained'
  BY DEF IInv, Explained, device
<1> QED
  BY <1>1, <1>2, <1>3

LEMMA AgentKeepsIInv ==
  ASSUME IInv, Agent
  PROVE  IInv'
<1>1. UNCHANGED <<client, device, driver, ctx, fatal>>
  BY DEF Agent, AgentChanges, AgentStarts, AgentStops, AgentWrites, ConnectionDrops
<1>2. /\ now' \in Snapshots /\ now.gen <= now'.gen
      /\ up' \in BOOLEAN /\ serves' \in BOOLEAN
  <2>1. ASSUME NEW v \in Topologies \cup {Unusable}, now' = [gen |-> now.gen + 1, view |-> v]
        PROVE  now' \in Snapshots /\ now.gen <= now'.gen
    <3>1. now.gen \in Nat
      BY GensAreNat DEF IInv
    <3>2. now.gen + 1 \in Nat /\ now.gen <= now.gen + 1
      BY <3>1
    <3> QED
      BY <2>1, <3>2 DEF Snapshots
  <2>2. now' = now => now' \in Snapshots /\ now.gen <= now'.gen
    BY GensAreNat DEF IInv, Types, AgentTypeOK
  <2>3. up \in BOOLEAN /\ serves \in BOOLEAN
    BY DEF IInv, Types, AgentTypeOK
  <2> QED
    BY <2>1, <2>2, <2>3
    DEF Agent, AgentChanges, AgentStarts, AgentStops, AgentWrites, ConnectionDrops, agent
<1>3. /\ conn' \in {"none", "open", "broken"} /\ told' \in Nat
      /\ wire' = wire \/ (wire' = Append(wire, now) /\ now' = now)
  BY GensAreNat
  DEF Agent, AgentChanges, AgentStarts, AgentStops, AgentWrites, ConnectionDrops, agent, stream,
      IInv, Types, StreamTypeOK
<1>4. wire' \in Seq(Snapshots)
  BY <1>3 DEF IInv, Types, StreamTypeOK, AgentTypeOK
<1>5. used' \in [Events -> Nat]
  <2>1. CASE UNCHANGED used
    BY <2>1 DEF IInv, Types, ControlTypeOK
  <2>2. CASE \E e \in Events : Happens(e)
    BY <2>2, HappensKeepsType DEF IInv
  <2> QED
    BY <2>1, <2>2, EventNames
    DEF Agent, AgentChanges, AgentStarts, AgentStops, AgentWrites, ConnectionDrops
<1>6. Types'
  <2>1. ClientTypeOK' /\ DeviceTypeOK' /\ DriverTypeOK'
    BY <1>1, GroupsAlone DEF IInv
  <2>2. AgentTypeOK' /\ StreamTypeOK'
    BY <1>2, <1>3, <1>4 DEF AgentTypeOK, StreamTypeOK
  <2>3. ControlTypeOK'
    BY <1>1, <1>5 DEF IInv, Types, ControlTypeOK
  <2> QED
    BY <2>1, <2>2, <2>3 DEF Types
<1>7. Drains
  BY <1>1, <1>2, <1>3 DEF Drains, Forwarding, Converting, Equipped, client, device, driver
<1>8. InOrder'
  BY <1>2, <1>7, DrainsKeepsOrder, SnapshotFacts DEF IInv
<1>9. InUse' /\ UnitsFollow' /\ Explained' /\ DelayIsCapped'
  BY <1>1, GoroutinesAlone DEF client
<1> QED
  BY <1>6, <1>8, <1>9 DEF IInv

LEMMA TimerAndSignalKeepIInv ==
  ASSUME IInv, TimerFires \/ Signal
  PROVE  IInv'
<1>1. /\ UNCHANGED <<agent, stream, device, driver, fatal, watch, received, hold, failure,
                      delay, werr>>
      /\ timer' = timer \/ timer' = "fired"
      /\ ctx' = ctx \/ ctx' = "done"
  BY DEF TimerFires, Signal, client
<1>2. used' \in [Events -> Nat]
  BY HappensKeepsType, EventNames DEF TimerFires, Signal, IInv
<1>3. Types'
  <2>1. AgentTypeOK' /\ StreamTypeOK' /\ DeviceTypeOK' /\ DriverTypeOK'
    BY <1>1, <1>2, GroupsAlone DEF IInv
  <2>2. ClientTypeOK'
    BY <1>1, <1>2 DEF IInv, Types, ClientTypeOK
  <2>3. ControlTypeOK'
    BY <1>1, <1>2 DEF IInv, Types, ControlTypeOK
  <2> QED
    BY <2>1, <2>2, <2>3 DEF Types
<1>4. Drains
  BY <1>1, NowStays
  DEF IInv, Drains, Forwarding, Converting, Equipped, stream, device, driver
<1>5. InOrder'
  BY <1>1, <1>4, DrainsKeepsOrder, GensAreNat DEF IInv, agent
<1>6. InUse'
  BY <1>1 DEF IInv, InUse, Forwarding, Converting, Equipped, device, driver
<1>7. UnitsFollow' /\ DelayIsCapped'
  BY <1>1 DEF IInv, UnitsFollow, DelayIsCapped, Equipped, device, driver
<1>8. Explained'
  BY <1>1 DEF IInv, Explained, device
<1> QED
  BY <1>3, <1>5, <1>6, <1>7, <1>8 DEF IInv

(* A new process starts with nothing but what is published. *)
LEMMA RestartKeepsIInv ==
  ASSUME IInv, ProcessEnds \/ Restart
  PROVE  IInv'
<1>1. CASE ProcessEnds
  <2>1. /\ phase' = "exited"
        /\ UNCHANGED <<agent, stream, client, device, incoming, alloc, published, ctx, fatal, used>>
    BY <1>1 DEF ProcessEnds
  <2>2. Types'
    <3>1. AgentTypeOK' /\ StreamTypeOK' /\ ClientTypeOK' /\ DeviceTypeOK' /\ ControlTypeOK'
      BY <2>1, GroupsAlone DEF IInv
    <3>2. DriverTypeOK'
      BY <2>1 DEF IInv, Types, DriverTypeOK
    <3> QED
      BY <3>1, <3>2 DEF Types
  <2>3. Drains
    BY <2>1, NowStays
    DEF IInv, Drains, Forwarding, Converting, Equipped, stream, client, device
  <2>4. InOrder'
    BY <2>1, <2>3, DrainsKeepsOrder, GensAreNat DEF IInv, agent
  <2>5. InUse' /\ UnitsFollow'
    BY <2>1 DEF IInv, InUse, UnitsFollow, Forwarding, Converting, Equipped, client, device
  <2>6. Explained' /\ DelayIsCapped'
    BY <2>1 DEF IInv, Explained, DelayIsCapped, client, device
  <2> QED
    BY <2>2, <2>4, <2>5, <2>6 DEF IInv
<1>2. CASE Restart
  <2>1. Types'
    <3>1. AgentTypeOK' /\ DriverTypeOK' /\ ControlTypeOK'
      BY <1>2 DEF Restart, IInv, Types, AgentTypeOK, DriverTypeOK, ControlTypeOK, agent
    <3>2. StreamTypeOK'
      BY <1>2 DEF Restart, StreamTypeOK
    <3>3. ClientTypeOK'
      BY <1>2 DEF Restart, ClientTypeOK, Watches
    <3>4. DeviceTypeOK'
      BY <1>2 DEF Restart, DeviceTypeOK
    <3> QED
      BY <3>1, <3>2, <3>3, <3>4 DEF Types
  <2>2. Drains
    BY <1>2, NowStays DEF Restart, IInv, Drains, Forwarding, Converting, Equipped
  <2>3. InOrder'
    BY <1>2, <2>2, DrainsKeepsOrder, GensAreNat DEF Restart, IInv, agent
  <2>4. InUse' /\ UnitsFollow'
    BY <1>2 DEF Restart, InUse, UnitsFollow, Forwarding, Converting, Equipped
  <2>5. Explained' /\ DelayIsCapped'
    BY <1>2, DelayAssumption, NoErrorAssumption DEF Restart, Explained, DelayIsCapped
  <2> QED
    BY <2>1, <2>3, <2>4, <2>5 DEF IInv
<1> QED
  BY <1>1, <1>2

-----------------------------------------------------------------------------
(* agentWatch.run.                                                          *)

LEMMA StreamReturnsKeepsIInv ==
  ASSUME IInv, NEW err \in Errors \cup {"Unimplemented"}, StreamReturns(err),
         used' \in [Events -> Nat]
  PROVE  IInv'
<1>1. failure' \in Errors
  BY DEF StreamReturns, WatchError, Errors
<1>2. Types'
  <2>1. AgentTypeOK' /\ DeviceTypeOK' /\ DriverTypeOK' /\ ControlTypeOK'
    <3>1. UNCHANGED <<agent, device, driver, ctx, fatal>>
      BY DEF StreamReturns
    <3>2. AgentTypeOK' /\ DeviceTypeOK' /\ DriverTypeOK'
      BY <3>1, GroupsAlone DEF IInv
    <3>3. ControlTypeOK'
      BY <3>1 DEF IInv, Types, ControlTypeOK
    <3> QED
      BY <3>2, <3>3
  <2>2. StreamTypeOK'
    BY DEF StreamReturns, StreamTypeOK
  <2>3. ClientTypeOK'
    BY <1>1 DEF StreamReturns, IInv, Types, ClientTypeOK, Watches
  <2> QED
    BY <2>1, <2>2, <2>3 DEF Types
<1>3. Drains
  BY NowStays
  DEF StreamReturns, IInv, Drains, Forwarding, Converting, Equipped, device, driver
<1>4. InOrder'
  BY <1>3, DrainsKeepsOrder, GensAreNat DEF StreamReturns, IInv, agent
<1>5. InUse'
  BY DEF StreamReturns, IInv, InUse, Forwarding, Converting, Equipped, device, driver
<1>6. UnitsFollow' /\ DelayIsCapped'
  BY DEF StreamReturns, IInv, UnitsFollow, DelayIsCapped, Equipped, device, driver
<1>7. Explained'
  BY <1>1 DEF StreamReturns, IInv, Explained, device
<1> QED
  BY <1>2, <1>4, <1>5, <1>6, <1>7 DEF IInv

LEMMA StreamEndsKeepIInv ==
  ASSUME IInv, StreamIsRefused \/ RecvFails \/ ForwardCancelled
  PROVE  IInv'
<1>1. \E err \in Errors \cup {"Unimplemented"} : StreamReturns(err)
  BY DEF StreamIsRefused, RecvFails, ForwardCancelled, Errors
<1>2. UNCHANGED used \/ \E e \in Events : Happens(e)
  BY EventNames DEF StreamIsRefused, RecvFails, ForwardCancelled
<1>3. used' \in [Events -> Nat]
  BY <1>2, HappensKeepsType DEF IInv, Types, ControlTypeOK
<1> QED
  BY <1>1, <1>3, StreamReturnsKeepsIInv

(* The steps of agentWatch.run that hand nothing over. *)
LEMMA ClientStepsKeepIInv ==
  ASSUME IInv, StreamOpens \/ StopTimer \/ StreamEnded \/ Backoff
  PROVE  IInv'
<1>1. /\ UNCHANGED <<agent, wire, told, hold, device, driver, ctx, fatal, used>>
      /\ Forwarding' => Forwarding
  BY DEF StreamOpens, StopTimer, StreamEnded, Backoff, stream, Forwarding
<1>2. delay' \in Nat /\ delay' <= ReconnectMax
  <2>1. delay \in Nat /\ delay <= ReconnectMax
    BY DEF IInv, Types, ClientTypeOK, DelayIsCapped
  <2>2. NextDelay(delay) \in Nat /\ NextDelay(delay) <= ReconnectMax
    BY <2>1, DelayAssumption DEF NextDelay
  <2>3. delay' = delay \/ delay' = 0 \/ delay' = NextDelay(delay)
    BY DEF StreamOpens, StopTimer, StreamEnded, Backoff
  <2>4. 0 <= ReconnectMax
    BY DelayAssumption
  <2> QED
    BY <2>1, <2>2, <2>3, <2>4
<1>3. /\ conn' \in {"none", "open", "broken"} /\ watch' \in Watches
      /\ received' \in BOOLEAN /\ timer' \in {"off", "armed", "fired"}
      /\ failure' \in Errors \cup {None} /\ werr' \in Errors \cup {None}
  BY DEF StreamOpens, StopTimer, StreamEnded, Backoff, IInv, Types, StreamTypeOK, ClientTypeOK,
     stream, Watches
<1>4. Types'
  <2>1. AgentTypeOK' /\ DeviceTypeOK' /\ DriverTypeOK' /\ ControlTypeOK'
    BY <1>1, <1>2, <1>3, GroupsAlone DEF IInv
  <2>2. StreamTypeOK'
    BY <1>1, <1>2, <1>3 DEF IInv, Types, StreamTypeOK
  <2>3. ClientTypeOK'
    BY <1>1, <1>2, <1>3 DEF IInv, Types, ClientTypeOK
  <2> QED
    BY <2>1, <2>2, <2>3 DEF Types
<1>5. Drains
  BY <1>1, NowStays
  DEF IInv, Drains, Forwarding, Converting, Equipped, device, driver
<1>6. InOrder'
  BY <1>1, <1>5, DrainsKeepsOrder, GensAreNat DEF IInv, agent
<1>7. InUse'
  BY <1>1 DEF IInv, InUse, Converting, Equipped, device, driver
<1>8. UnitsFollow' /\ DelayIsCapped'
  BY <1>1, <1>2 DEF IInv, UnitsFollow, DelayIsCapped, Equipped, device, driver
<1>9. Explained'
  <2>1. watch' # "ended"
    BY DEF StreamOpens, StopTimer, StreamEnded, Backoff
  <2>2. watch' = "closed" /\ werr' = None => ctx = "done"
    BY NoErrorAssumption DEF StreamOpens, StopTimer, StreamEnded, Backoff, IInv, Explained
  <2> QED
    BY <1>1, <2>1, <2>2 DEF IInv, Explained, device
<1> QED
  BY <1>4, <1>6, <1>7, <1>8, <1>9 DEF IInv

LEMMA RecvKeepsIInv ==
  ASSUME IInv, Recv
  PROVE  IInv'
<1>1. Head(wire) \in Snapshots /\ Tail(wire) \in Seq(Snapshots)
  BY DEF Recv, IInv, Types, StreamTypeOK
<1>2. Types'
  <2>1. AgentTypeOK' /\ DeviceTypeOK' /\ DriverTypeOK' /\ ControlTypeOK'
    BY <1>1, GroupsAlone DEF IInv, Recv
  <2>2. StreamTypeOK'
    BY <1>1 DEF IInv, Types, StreamTypeOK, Recv
  <2>3. ClientTypeOK'
    BY <1>1 DEF IInv, Types, ClientTypeOK, Recv, Watches
  <2> QED
    BY <2>1, <2>2, <2>3 DEF Types
<1>3. InOrder'
  BY RecvKeepsOrder DEF IInv
<1>4. InUse'
  BY <1>1 DEF Recv, IInv, InUse, Converting, Equipped, device, driver
<1>5. UnitsFollow' /\ DelayIsCapped' /\ Explained'
  BY DEF Recv, IInv, UnitsFollow, DelayIsCapped, Explained, Equipped, device, driver
<1> QED
  BY <1>2, <1>3, <1>4, <1>5 DEF IInv

LEMMA ForwardKeepsIInv ==
  ASSUME IInv, Forward
  PROVE  IInv'
<1>1. hold \in Snapshots
  BY DEF Forward, IInv, InUse, Forwarding
<1>2. Types'
  <2>1. AgentTypeOK' /\ StreamTypeOK' /\ DriverTypeOK' /\ ControlTypeOK'
    BY <1>1, GroupsAlone DEF IInv, Forward
  <2>2. ClientTypeOK'
    BY <1>1 DEF IInv, Types, ClientTypeOK, Forward, Watches
  <2>3. DeviceTypeOK'
    BY <1>1 DEF IInv, Types, DeviceTypeOK, Forward
  <2> QED
    BY <2>1, <2>2, <2>3 DEF Types
<1>3. InOrder'
  BY ForwardKeepsOrder DEF IInv
<1>4. InUse'
  BY <1>1 DEF Forward, IInv, InUse, Forwarding, Equipped, driver
<1>5. UnitsFollow' /\ DelayIsCapped' /\ Explained'
  BY DEF Forward, IInv, UnitsFollow, DelayIsCapped, Explained, Equipped, driver
<1> QED
  BY <1>2, <1>3, <1>4, <1>5 DEF IInv

-----------------------------------------------------------------------------
(* deviceWatch.run.                                                         *)

LEMMA ConvertKeepsIInv ==
  ASSUME IInv, Convert
  PROVE  IInv'
<1>1. /\ UNCHANGED <<agent, stream, client, derr, driver, ctx, fatal, used>>
      /\ input \in Snapshots
      /\ \/ input \in UsableSnapshots /\ units' = input /\ conv' = "send" /\ input' = input
         \/ conv' = "range" /\ input' = NoSnapshot /\ units' = units
  BY SnapshotFacts DEF Convert, IInv, InUse, Converting
<1>2. Types'
  <2>1. AgentTypeOK' /\ StreamTypeOK' /\ ClientTypeOK' /\ DriverTypeOK' /\ ControlTypeOK'
    BY <1>1, GroupsAlone DEF IInv
  <2>2. DeviceTypeOK'
    BY <1>1 DEF IInv, Types, DeviceTypeOK
  <2> QED
    BY <2>1, <2>2 DEF Types
<1>3. Drains
  BY <1>1, NowStays
  DEF Convert, IInv, Drains, Forwarding, Converting, Equipped, stream, client, driver
<1>4. InOrder'
  BY <1>1, <1>3, DrainsKeepsOrder, GensAreNat DEF IInv, agent
<1>5. InUse'
  BY <1>1 DEF IInv, InUse, Forwarding, Converting, Equipped, client, driver
<1>6. UnitsFollow'
  <2>1. CASE units' = units
    BY <1>1, <2>1 DEF IInv, UnitsFollow, Equipped, driver
  <2>2. CASE units' = input /\ Equipped
    <3>1. alloc.gen <= input.gen
      BY <2>2 DEF Convert, IInv, InOrder, IncomingFrom, InputFrom, Converting
    <3>2. incoming.gen <= input.gen
      <4>1. CASE phase = "install"
        BY <4>1 DEF Convert, IInv, InOrder, InputFrom, Converting
      <4>2. CASE phase # "install"
        <5>1. incoming.gen = 0
          BY <2>2, <4>2, SnapshotFacts DEF IInv, InUse, Equipped
        <5> QED
          BY <5>1, GensAreNat DEF IInv
      <4> QED
        BY <4>1, <4>2
    <3> QED
      BY <1>1, <2>2, <3>1, <3>2 DEF UnitsFollow, driver
  <2> QED
    BY <1>1, <2>1, <2>2 DEF UnitsFollow, Equipped, driver
<1>7. DelayIsCapped' /\ Explained'
  BY <1>1 DEF IInv, DelayIsCapped, Explained, client
<1> QED
  BY <1>2, <1>4, <1>5, <1>6, <1>7 DEF IInv

LEMMA DeviceWatchEndsKeepIInv ==
  ASSUME IInv, SendCancelled \/ RangeEnds
  PROVE  IInv'
<1>1. /\ UNCHANGED <<agent, stream, client, units, driver, ctx, fatal, used>>
      /\ conv' = "closed"
      /\ input' \in {input, NoSnapshot}
      /\ \/ derr' = derr /\ ctx = "done"
         \/ derr' = werr /\ watch = "closed"
  BY DEF SendCancelled, RangeEnds
<1>2. Types'
  <2>1. AgentTypeOK' /\ StreamTypeOK' /\ ClientTypeOK' /\ DriverTypeOK' /\ ControlTypeOK'
    BY <1>1, GroupsAlone DEF IInv
  <2>2. DeviceTypeOK'
    BY <1>1 DEF IInv, Types, DeviceTypeOK, ClientTypeOK
  <2> QED
    BY <2>1, <2>2 DEF Types
<1>3. Drains
  BY <1>1, NowStays
  DEF IInv, Drains, Forwarding, Converting, Equipped, stream, client, driver
<1>4. InOrder'
  BY <1>1, <1>3, DrainsKeepsOrder, GensAreNat DEF IInv, agent
<1>5. InUse'
  BY <1>1 DEF IInv, InUse, Forwarding, Converting, Equipped, client, driver
<1>6. UnitsFollow' /\ DelayIsCapped'
  BY <1>1 DEF IInv, UnitsFollow, DelayIsCapped, Equipped, client, driver
<1>7. Explained'
  BY <1>1 DEF IInv, Explained, client
<1> QED
  BY <1>2, <1>4, <1>5, <1>6, <1>7 DEF IInv

-----------------------------------------------------------------------------
(* NewDriver and republishDevices.                                          *)

LEMMA ReceivesKeepIInv ==
  ASSUME IInv, InitialDevices \/ ReceiveUpdate
  PROVE  IInv'
<1>1. /\ UNCHANGED <<agent, stream, client, units, derr, published, ctx, fatal, used>>
      /\ conv' = "range" /\ input' = NoSnapshot
      /\ input \in UsableSnapshots /\ units = input
      /\ \/ phase = "initial" /\ phase' = "build" /\ alloc' = input /\ incoming' = incoming
         \/ phase = "watch" /\ phase' = "install" /\ incoming' = input /\ alloc' = alloc
  BY DEF InitialDevices, ReceiveUpdate, ReceivesResources, IInv, InUse
<1>2. Types'
  <2>1. AgentTypeOK' /\ StreamTypeOK' /\ ClientTypeOK' /\ ControlTypeOK'
    BY <1>1, GroupsAlone DEF IInv
  <2>2. DeviceTypeOK'
    BY <1>1 DEF IInv, Types, DeviceTypeOK
  <2>3. DriverTypeOK'
    BY <1>1 DEF IInv, Types, DriverTypeOK
  <2> QED
    BY <2>1, <2>2, <2>3 DEF Types
<1>3. InOrder'
  BY InitialDevicesKeepsOrder, ReceiveUpdateKeepsOrder DEF IInv
<1>4. InUse'
  BY <1>1 DEF IInv, InUse, Forwarding, Converting, Equipped, client
<1>5. UnitsFollow'
  <2>1. CASE phase = "initial" /\ alloc' = input /\ incoming' = incoming
    <3>1. incoming.gen = 0
      BY <2>1, SnapshotFacts DEF IInv, InUse
    <3>2. input.gen \in Nat
      BY GensAreNat DEF IInv
    <3>3. incoming.gen <= input.gen /\ input.gen <= input.gen
      BY <3>1, <3>2
    <3> QED
      BY <1>1, <2>1, <3>3 DEF UnitsFollow
  <2>2. CASE phase = "watch" /\ incoming' = input /\ alloc' = alloc
    <3>1. alloc.gen <= units.gen
      BY <2>2 DEF IInv, UnitsFollow, Equipped
    <3>2. input.gen <= input.gen
      BY GensAreNat DEF IInv
    <3> QED
      BY <1>1, <2>2, <3>1, <3>2 DEF UnitsFollow
  <2> QED
    BY <1>1, <2>1, <2>2
<1>6. DelayIsCapped' /\ Explained'
  BY <1>1 DEF IInv, DelayIsCapped, Explained, client
<1> QED
  BY <1>2, <1>3, <1>4, <1>5, <1>6 DEF IInv

LEMMA InstallKeepsIInv ==
  ASSUME IInv, Install
  PROVE  IInv'
<1>1. /\ UNCHANGED <<agent, stream, client, device, published, ctx, fatal, used>>
      /\ phase = "install" /\ incoming \in UsableSnapshots
      /\ alloc \in UsableSnapshots
      /\ phase' \in {"watch", "publish"} /\ incoming' = NoSnapshot
      /\ alloc' = alloc \/ alloc' = incoming
  BY DEF Install, IInv, InUse, Equipped
<1>2. Types'
  <2>1. AgentTypeOK' /\ StreamTypeOK' /\ ClientTypeOK' /\ DeviceTypeOK' /\ ControlTypeOK'
    BY <1>1, GroupsAlone DEF IInv
  <2>2. DriverTypeOK'
    BY <1>1 DEF IInv, Types, DriverTypeOK
  <2> QED
    BY <2>1, <2>2 DEF Types
<1>3. InOrder'
  BY InstallKeepsOrder DEF IInv
<1>4. InUse'
  BY <1>1 DEF IInv, InUse, Forwarding, Converting, Equipped, client, device
<1>5. UnitsFollow'
  <2>1. alloc.gen <= units.gen /\ incoming.gen <= units.gen
    BY <1>1 DEF IInv, UnitsFollow, Equipped
  <2>2. NoSnapshot.gen <= units.gen
    BY GensAreNat, SnapshotFacts DEF IInv
  <2>3. UNCHANGED units
    BY <1>1 DEF device
  <2>4. alloc'.gen <= units.gen /\ incoming'.gen <= units.gen
    BY <1>1, <2>1, <2>2
  <2> QED
    BY <2>3, <2>4 DEF UnitsFollow
<1>6. DelayIsCapped' /\ Explained'
  BY <1>1 DEF IInv, DelayIsCapped, Explained, client, device
<1> QED
  BY <1>2, <1>3, <1>4, <1>5, <1>6 DEF IInv

LEMMA PublishesKeepIInv ==
  ASSUME IInv, phase \in {"build", "publish"}, published' = alloc, phase' = "watch",
         UNCHANGED <<agent, stream, client, device, incoming, alloc, ctx, fatal, used>>
  PROVE  IInv'
<1>1. Types'
  <2>1. AgentTypeOK' /\ StreamTypeOK' /\ ClientTypeOK' /\ DeviceTypeOK' /\ ControlTypeOK'
    BY GroupsAlone DEF IInv
  <2>2. DriverTypeOK'
    BY DEF IInv, Types, DriverTypeOK
  <2> QED
    BY <2>1, <2>2 DEF Types
<1>2. InOrder'
  BY PublishKeepsOrder DEF IInv
<1>3. InUse'
  BY DEF IInv, InUse, Forwarding, Converting, Equipped, client, device
<1>4. UnitsFollow' /\ DelayIsCapped'
  BY DEF IInv, UnitsFollow, DelayIsCapped, Equipped, client, device
<1>5. Explained'
  BY DEF IInv, Explained, client, device
<1> QED
  BY <1>1, <1>2, <1>3, <1>4, <1>5 DEF IInv

(* The driver gives up, or is told to. *)
LEMMA GivesUpKeepsIInv ==
  ASSUME IInv, phase' = "exited" \/ (phase' = "stopped" /\ phase \in {"publish", "watch"}),
         UNCHANGED <<agent, stream, client, device, incoming, alloc, published>>,
         ctx' = ctx \/ ctx' = "done",
         fatal' \in {fatal, "misconfigured"} \cup Errors,
         used' \in [Events -> Nat]
  PROVE  IInv'
<1>1. Types'
  <2>1. AgentTypeOK' /\ StreamTypeOK' /\ ClientTypeOK' /\ DeviceTypeOK'
    BY GroupsAlone DEF IInv
  <2>2. DriverTypeOK'
    BY DEF IInv, Types, DriverTypeOK
  <2>3. ControlTypeOK'
    BY DEF IInv, Types, ControlTypeOK
  <2> QED
    BY <2>1, <2>2, <2>3 DEF Types
<1>2. Drains
  BY NowStays
  DEF IInv, Drains, Forwarding, Converting, Equipped, stream, client, device
<1>3. InOrder'
  BY <1>2, DrainsKeepsOrder, GensAreNat DEF IInv, agent
<1>4. InUse'
  BY DEF IInv, InUse, Forwarding, Converting, Equipped, client, device
<1>5. UnitsFollow' /\ DelayIsCapped'
  BY DEF IInv, UnitsFollow, DelayIsCapped, Equipped, client, device
<1>6. Explained'
  BY DEF IInv, Explained, client, device, Errors
<1> QED
  BY <1>1, <1>3, <1>4, <1>5, <1>6 DEF IInv

LEMMA RunDriverKeepsIInv ==
  ASSUME IInv, RunDriver
  PROVE  IInv'
<1>0. used \in [Events -> Nat] /\ (\A e \in Events : Happens(e) => used' \in [Events -> Nat])
  BY HappensKeepsType DEF IInv, Types, ControlTypeOK
<1>1. CASE InitialDevicesFail
  <2>1. used' \in [Events -> Nat]
    BY <1>0, <1>1, EventNames DEF InitialDevicesFail
  <2> QED
    BY <1>1, <2>1, GivesUpKeepsIInv DEF InitialDevicesFail, driver
<1>2. CASE BuildAndPublish
  <2>1. CASE published' = alloc /\ phase' = "watch" /\ UNCHANGED used
    BY <1>2, <2>1, PublishesKeepIInv DEF BuildAndPublish
  <2>2. CASE Happens("misconfigured") /\ phase' = "exited" /\ UNCHANGED published
    <3>1. used' \in [Events -> Nat]
      BY <1>0, <2>2, EventNames
    <3> QED
      BY <1>2, <2>2, <3>1, GivesUpKeepsIInv DEF BuildAndPublish
  <2> QED
    BY <1>2, <2>1, <2>2 DEF BuildAndPublish
<1>3. CASE Republish
  <2>1. CASE published' = alloc /\ phase' = "watch" /\ UNCHANGED <<ctx, fatal, used>>
    BY <1>3, <2>1, PublishesKeepIInv DEF Republish
  <2>2. CASE Happens("misconfigured") /\ HandleError("misconfigured") /\ UNCHANGED published
    <3>1. used' \in [Events -> Nat]
      BY <1>0, <2>2, EventNames
    <3> QED
      BY <1>3, <2>2, <3>1, GivesUpKeepsIInv DEF Republish, HandleError
  <2> QED
    BY <1>3, <2>1, <2>2 DEF Republish
<1>4. CASE WatchEnds
  <2>1. derr \in Errors \cup {None} /\ (ctx = "live" => derr # None)
    BY <1>4 DEF WatchEnds, IInv, Types, DeviceTypeOK, Explained
  <2>2. fatal' \in {fatal, "misconfigured"} \cup Errors
    BY <1>4, <2>1 DEF WatchEnds, HandleError
  <2>3. /\ phase = "watch" /\ phase' = "stopped" /\ (ctx' = ctx \/ ctx' = "done")
        /\ UNCHANGED <<agent, stream, client, device, incoming, alloc, published, used>>
    BY <1>4 DEF WatchEnds, HandleError
  <2> QED
    BY <1>0, <2>2, <2>3, GivesUpKeepsIInv
<1> QED
  BY <1>1, <1>2, <1>3, <1>4, ReceivesKeepIInv, InstallKeepsIInv DEF RunDriver

-----------------------------------------------------------------------------
LEMMA InitOK == Init => IInv
<1> SUFFICES ASSUME Init PROVE IInv
  OBVIOUS
<1>1. now \in Snapshots /\ now.gen = 1
  <2>1. now \in [gen : {1}, view : Topologies \cup {Unusable}]
    BY DEF Init
  <2> QED
    BY <2>1 DEF Snapshots
<1>2. Types
  <2>1. AgentTypeOK
    BY <1>1 DEF Init, AgentTypeOK
  <2>5. StreamTypeOK
    BY DEF Init, StreamTypeOK
  <2>2. ClientTypeOK
    BY DEF Init, ClientTypeOK, Watches
  <2>3. DeviceTypeOK /\ DriverTypeOK
    BY DEF Init, DeviceTypeOK, DriverTypeOK
  <2>4. ControlTypeOK
    BY DEF Init, ControlTypeOK
  <2> QED
    BY <2>1, <2>2, <2>3, <2>4, <2>5 DEF Types
<1>3. InUse /\ UnitsFollow
  BY DEF Init, InUse, UnitsFollow, Forwarding, Converting, Equipped
<1>4. InOrder
  <2>1. wire = <<>> /\ published.gen <= now.gen
    <3>1. wire = <<>> /\ published = NoSnapshot /\ now.gen \in Nat
      BY <1>1, SnapshotFacts DEF Init
    <3> QED
      BY <3>1, SnapshotFacts
  <2>2. ~Forwarding /\ ~Converting /\ ~Equipped /\ phase # "install"
    BY DEF Init, Forwarding, Converting, Equipped
  <2>3. WireFrom(published.gen)
    BY <2>1 DEF WireFrom
  <2>4. AllocFrom(published.gen)
    BY <2>2, <2>3 DEF AllocFrom, IncomingFrom, InputFrom, HoldFrom
  <2>5. 1..Len(wire) = {}
    BY <2>1
  <2> QED
    BY <2>2, <2>4, <2>5 DEF InOrder
<1>5. Explained /\ DelayIsCapped
  <2>1. Explained
    BY NoErrorAssumption DEF Init, Explained
  <2>2. DelayIsCapped
    <3>1. delay = 0
      BY DEF Init
    <3> QED
      BY <3>1, DelayAssumption DEF DelayIsCapped
  <2> QED
    BY <2>1, <2>2
<1> QED
  BY <1>2, <1>3, <1>4, <1>5 DEF IInv

LEMMA NextKeepsIInv == IInv /\ [Next]_vars => IInv'
<1> SUFFICES ASSUME IInv, [Next]_vars PROVE IInv'
  OBVIOUS
<1>1. CASE UNCHANGED vars
  <2>1. Types'
    BY <1>1, GroupsAlone DEF IInv, Types, vars
  <2>2. Drains
    BY <1>1, NowStays
    DEF IInv, Drains, Forwarding, Converting, Equipped, vars, stream, client, device,
        driver
  <2>3. InOrder'
    BY <1>1, <2>2, DrainsKeepsOrder, GensAreNat DEF IInv, vars, agent
  <2> QED
    BY <1>1, <2>1, <2>3, GoroutinesAlone DEF IInv, vars, client
<1>2. CASE Run
  BY <1>2, StreamEndsKeepIInv, ClientStepsKeepIInv, RecvKeepsIInv, ForwardKeepsIInv DEF Run
<1>3. CASE RunDevices
  BY <1>3, ConvertKeepsIInv, DeviceWatchEndsKeepIInv DEF RunDevices
<1> QED
  BY <1>1, <1>2, <1>3, AgentKeepsIInv, TimerAndSignalKeepIInv, RestartKeepsIInv,
     RunDriverKeepsIInv
  DEF Next

LEMMA InvariantHolds == Spec => []IInv
<1>1. Init => IInv
  BY InitOK
<1>2. IInv /\ [Next]_vars => IInv'
  BY NextKeepsIInv
<1> QED
  BY <1>1, <1>2, PTL DEF Spec

(* Only NewDriver and republishDevices publish, and only what DeviceState  *)
(* already serves.                                                         *)
LEMMA PublicationSteps ==
  ASSUME [Next]_vars
  PROVE  published' = published \/ (phase \in {"build", "publish"} /\ published' = alloc)
<1>1. CASE UNCHANGED vars
  BY <1>1 DEF vars, driver
<1>2. CASE Agent \/ TimerFires \/ Signal \/ ProcessEnds \/ Restart
  BY <1>2
  DEF Agent, AgentChanges, AgentStarts, AgentStops, AgentWrites, ConnectionDrops, TimerFires,
      Signal, ProcessEnds, Restart, driver
<1>3. CASE Run
  BY <1>3
  DEF Run, StreamOpens, StreamIsRefused, StreamReturns, Recv, RecvFails, StopTimer, Forward,
      ForwardCancelled, StreamEnded, Backoff, driver
<1>4. CASE RunDevices
  BY <1>4 DEF RunDevices, Convert, SendCancelled, RangeEnds, driver
<1>5. CASE RunDriver
  BY <1>5
  DEF RunDriver, InitialDevices, InitialDevicesFail, BuildAndPublish, ReceiveUpdate, Install,
      Republish, WatchEnds
<1> QED
  BY <1>1, <1>2, <1>3, <1>4, <1>5 DEF Next

-----------------------------------------------------------------------------
(* What is proved.                                                          *)

(* Every variable keeps its type; the units, the allocatable and the       *)
(* published resources only ever come from a usable snapshot.              *)
THEOREM TypeCorrect == Spec => []TypeOK
<1>1. IInv => TypeOK
  BY DEF IInv, Types, AgentTypeOK, StreamTypeOK, ClientTypeOK, DeviceTypeOK, DriverTypeOK,
     ControlTypeOK, TypeOK
<1> QED
  BY <1>1, InvariantHolds, PTL

(* No dropped stream, reconnect, restart of the agent or of the driver     *)
(* takes the published resources back to an older state of the host.       *)
THEOREM PublicationNeverGoesBack == Spec => NeverGoesBack
<1>1. IInv /\ [Next]_vars => published'.gen >= published.gen
  <2> SUFFICES ASSUME IInv, [Next]_vars PROVE published'.gen >= published.gen
    OBVIOUS
  <2>1. CASE published' = published
    <3>1. published.gen \in Nat
      BY GensAreNat DEF IInv
    <3> QED
      BY <2>1, <3>1
  <2>2. CASE phase \in {"build", "publish"} /\ published' = alloc
    BY <2>2, GensAreNat DEF IInv, InOrder, AllocFrom, Equipped
  <2> QED
    BY <2>1, <2>2, PublicationSteps
<1> QED
  BY <1>1, InvariantHolds, PTL DEF Spec, NeverGoesBack

(* A snapshot without a usable topology never replaces published devices.  *)
THEOREM PublicationIsNeverEmptied == Spec => NeverEmptied
<1>1. IInv /\ [Next]_vars => (published' # published => Usable(published'))
  <2> SUFFICES ASSUME IInv, [Next]_vars, published' # published PROVE Usable(published')
    OBVIOUS
  <2>1. phase \in {"build", "publish"} /\ published' = alloc
    BY PublicationSteps
  <2> QED
    BY <2>1, SnapshotFacts DEF IInv, InUse, Equipped, Usable
<1> QED
  BY <1>1, InvariantHolds, PTL DEF Spec, NeverEmptied

(* The mapping ApplyConfig uses is at least as new as the resources        *)
(* Prepare may allocate from and those on their way.                       *)
THEOREM UnitsAlwaysLead == Spec => []UnitsLead
<1>1. IInv => UnitsLead
  BY DEF IInv, UnitsFollow, UnitsLead, Equipped
<1> QED
  BY <1>1, InvariantHolds, PTL

(* A device watch closed without an error was cancelled, and a failure     *)
(* that ends the process names its cause.                                  *)
THEOREM ClosesAreExplained == Spec => []CloseIsExplained
<1>1. IInv => CloseIsExplained
  BY DEF IInv, Explained, CloseIsExplained
<1> QED
  BY <1>1, InvariantHolds, PTL

(* reconnectBackoff.next never returns more than its maximum, however      *)
(* many streams fail in a row.                                             *)
THEOREM DelaysAreCapped == Spec => []DelayIsCapped
<1>1. IInv => DelayIsCapped
  BY DEF IInv
<1> QED
  BY <1>1, InvariantHolds, PTL
=============================================================================
