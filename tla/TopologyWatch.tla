--------------------------- MODULE TopologyWatch ---------------------------
(***************************************************************************)
(* How a topology the fabric manager agent discovers becomes the resources *)
(* the driver publishes: the agent's stream, agentWatch.run and stream     *)
(* with the first-snapshot timer and the reconnect backoff, deviceWatch.run *)
(* and applyTopology, and NewDriver with republishDevices.  Three          *)
(* goroutines hand values over on unbuffered channels; a timer callback    *)
(* and the cancellation of the main context interleave with all of them.   *)
(***************************************************************************)
EXTENDS Naturals, Sequences

CONSTANTS
  Topologies,            \* usable host topologies
  Unusable,              \* a snapshot that carries no usable topology
  ResourcesOf,           \* the resources published for a topology
  FirstSnapshotTimeout,  \* the client bounds the wait for the first snapshot
  ReconnectInitial,      \* the shortest reconnect delay
  ReconnectMax,          \* the longest one
  MaxWire,               \* messages a stream buffers
  Limit,                 \* how often each event outside the driver may happen
  None                   \* no error, no snapshot

Events == {"change", "stop", "drop", "refuse", "internal", "timeout", "deadline",
           "signal", "misconfigured"}

ASSUME ViewsAssumption == Unusable \notin Topologies /\ None \notin Topologies \cup {Unusable}
ASSUME ResourcesAssumption == DOMAIN ResourcesOf = Topologies
ASSUME TimeoutAssumption == FirstSnapshotTimeout \in BOOLEAN
ASSUME DelayAssumption ==
  ReconnectInitial \in Nat \ {0} /\ ReconnectMax \in Nat /\ ReconnectInitial <= ReconnectMax
ASSUME BoundAssumption == MaxWire \in Nat \ {0} /\ Limit \in [Events -> Nat]

(* One complete view of the agent's state.  gen counts the changes of that *)
(* state; it is the order in which the views were true.                    *)
Snapshots == [gen : Nat, view : Topologies \cup {Unusable}]
UsableSnapshots == [gen : Nat, view : Topologies]
NoSnapshot == [gen |-> 0, view |-> None]

(* Snapshot.Usable *)
Usable(s) == s.view \in Topologies

Errors == {"noFirstSnapshot", "unsupported", "Unavailable", "EOF", "DeadlineExceeded",
           "ResourceExhausted", "Canceled", "Internal"}

ASSUME NoErrorAssumption == None \notin Errors \cup {"misconfigured", "unexpected"}

VARIABLES
  up,         \* the agent runs
  serves,     \* and implements WatchTopology
  now,        \* the agent's current state
  conn,       \* the stream: "none", "open" or "broken"
  wire,       \* messages written and not yet received
  told,       \* the gen of the last message written on this stream
  watch,      \* agentWatch.run: where it is
  received,   \* the current stream has produced a snapshot
  timer,      \* its first-snapshot timer: "off", "armed" or "fired"
  hold,       \* the snapshot being forwarded
  failure,    \* the error that ended the last stream
  delay,      \* reconnectBackoff.current
  werr,       \* agentWatch.err
  conv,       \* deviceWatch.run: where it is
  input,      \* the snapshot it converts
  units,      \* the snapshot unitByDevice was built from
  derr,       \* deviceWatch.err
  phase,      \* NewDriver and republishDevices: where they are
  incoming,   \* the resources republishDevices has received
  alloc,      \* the snapshot DeviceState's resources were built from
  published,  \* the snapshot the published ResourceSlices were built from
  ctx,        \* the main context: "live" or "done"
  fatal,      \* the error HandleError cancelled it with
  used        \* how often each event has happened

agent == <<up, serves, now>>
stream == <<conn, wire, told>>
client == <<watch, received, timer, hold, failure, delay, werr>>
device == <<conv, input, units, derr>>
driver == <<phase, incoming, alloc, published>>
vars == <<agent, stream, client, device, driver, ctx, fatal, used>>

Happens(event) ==
  /\ used[event] < Limit[event]
  /\ used' = [used EXCEPT ![event] = @ + 1]

Init ==
  /\ up \in BOOLEAN
  /\ serves \in BOOLEAN
  /\ now \in [gen : {1}, view : Topologies \cup {Unusable}]
  /\ conn = "none" /\ wire = <<>> /\ told = 0
  /\ watch = "connect" /\ received = FALSE
  /\ timer = (IF FirstSnapshotTimeout THEN "armed" ELSE "off")
  /\ hold = NoSnapshot /\ failure = None /\ delay = 0 /\ werr = None
  /\ conv = "range" /\ input = NoSnapshot /\ units = NoSnapshot /\ derr = None
  /\ phase = "initial" /\ incoming = NoSnapshot /\ alloc = NoSnapshot
  /\ published = NoSnapshot
  /\ ctx = "live" /\ fatal = None
  /\ used = [e \in Events |-> 0]

-----------------------------------------------------------------------------
(* The agent and the transport.                                             *)

AgentChanges(v) ==
  /\ up
  /\ v # now.view
  /\ Happens("change")
  /\ now' = [gen |-> now.gen + 1, view |-> v]
  /\ UNCHANGED <<up, serves, stream, client, device, driver, ctx, fatal>>

AgentStops ==
  /\ up
  /\ Happens("stop")
  /\ up' = FALSE
  /\ conn' = IF conn = "open" THEN "broken" ELSE conn
  /\ UNCHANGED <<serves, now, wire, told, client, device, driver, ctx, fatal>>

(* A new agent process, possibly of another version, starts over. *)
AgentStarts(v, implemented) ==
  /\ ~up
  /\ up' = TRUE
  /\ serves' = implemented
  /\ now' = [gen |-> now.gen + 1, view |-> v]
  /\ UNCHANGED <<stream, client, device, driver, ctx, fatal, used>>

ConnectionDrops ==
  /\ conn = "open"
  /\ Happens("drop")
  /\ conn' = "broken"
  /\ UNCHANGED <<agent, wire, told, client, device, driver, ctx, fatal>>

(* The first message is the state at the moment of the connection, every   *)
(* later one a changed state; states nobody was sent may be passed over.   *)
AgentWrites ==
  /\ conn = "open"
  /\ told < now.gen
  /\ Len(wire) < MaxWire
  /\ wire' = Append(wire, now)
  /\ told' = now.gen
  /\ UNCHANGED <<agent, conn, client, device, driver, ctx, fatal, used>>

-----------------------------------------------------------------------------
(* agentWatch.stream and agentWatch.run.                                    *)

(* The callback of the first-snapshot timer cancels the stream's context.  *)
(* It runs until Stop is called, which is some time after Recv returned.   *)
TimerFires ==
  /\ phase # "exited"
  /\ timer = "armed"
  /\ Happens("timeout")
  /\ timer' = "fired"
  /\ UNCHANGED <<agent, stream, watch, received, hold, failure, delay, werr, device,
                 driver, ctx, fatal>>

StreamCancelled == timer = "fired" \/ ctx = "done"

(* watchError *)
WatchError(err) ==
  IF ~received /\ timer = "fired" THEN "noFirstSnapshot"
  ELSE IF err = "Unimplemented" THEN "unsupported"
  ELSE err

(* stream returns; its deferred calls stop the timer and cancel the call. *)
StreamReturns(err) ==
  /\ watch' = "ended"
  /\ failure' = WatchError(err)
  /\ received' = FALSE
  /\ timer' = "off"
  /\ hold' = NoSnapshot
  /\ conn' = "none" /\ wire' = <<>> /\ told' = 0
  /\ UNCHANGED <<agent, delay, werr, device, driver, ctx, fatal>>

StreamOpens ==
  /\ watch = "connect"
  /\ ~StreamCancelled
  /\ up /\ serves
  /\ conn' = "open"
  /\ watch' = "recv"
  /\ UNCHANGED <<agent, wire, told, received, timer, hold, failure, delay, werr, device,
                 driver, ctx, fatal, used>>

StreamIsRefused ==
  /\ watch = "connect"
  /\ \/ StreamCancelled /\ StreamReturns("Canceled") /\ UNCHANGED used
     \/ ~up /\ StreamReturns("Unavailable") /\ UNCHANGED used
     \/ up /\ ~serves /\ StreamReturns("Unimplemented") /\ UNCHANGED used
     \/ up /\ serves /\ Happens("refuse") /\ StreamReturns("ResourceExhausted")

(* A mutant: messages are forwarded out of order. *)
RecvInAnyOrder ==
  /\ watch = "recv"
  /\ \E k \in 1..Len(wire) :
       /\ hold' = wire[k]
       /\ wire' = SubSeq(wire, 1, k - 1) \o SubSeq(wire, k + 1, Len(wire))
  /\ watch' = "received"
  /\ UNCHANGED <<agent, conn, told, received, timer, failure, delay, werr, device, driver,
                 ctx, fatal, used>>

(* Recv hands out what has arrived, even on a stream that is already over. *)
Recv ==
  /\ watch = "recv"
  /\ wire # <<>>
  /\ hold' = Head(wire)
  /\ wire' = Tail(wire)
  /\ watch' = "received"
  /\ UNCHANGED <<agent, conn, told, received, timer, failure, delay, werr, device, driver,
                 ctx, fatal, used>>

RecvFails ==
  /\ watch = "recv"
  /\ \/ StreamCancelled /\ StreamReturns("Canceled") /\ UNCHANGED used
     \/ /\ conn = "broken"
        /\ \E err \in {"Unavailable", "EOF", "DeadlineExceeded"} : StreamReturns(err)
        /\ UNCHANGED used
     \/ conn = "open" /\ Happens("internal") /\ StreamReturns("Internal")

StopTimer ==
  /\ watch = "received"
  /\ timer' = IF timer = "armed" THEN "off" ELSE timer
  /\ received' = TRUE
  /\ delay' = 0
  /\ watch' = "forward"
  /\ UNCHANGED <<agent, stream, hold, failure, werr, device, driver, ctx, fatal, used>>

(* The two goroutines meet on agentWatch.updates. *)
Forward ==
  /\ watch = "forward"
  /\ conv = "range"
  /\ input' = hold
  /\ hold' = NoSnapshot
  /\ conv' = "convert"
  /\ watch' = "recv"
  /\ UNCHANGED <<agent, stream, received, timer, failure, delay, werr, units, derr, driver,
                 ctx, fatal, used>>

(* A mutant: the send does not select on the context. *)
ForwardNeverCancelled == FALSE /\ UNCHANGED vars

ForwardCancelled ==
  /\ watch = "forward"
  /\ ctx = "done"
  /\ StreamReturns("Canceled")
  /\ UNCHANGED used

(* transient *)
Transient(err) ==
  err \in {"noFirstSnapshot", "EOF", "Unavailable", "ResourceExhausted", "DeadlineExceeded"}

(* A mutant: the doubled delay is not cut off. *)
NextDelayUncapped(current) ==
  IF current = 0 THEN ReconnectInitial
  ELSE IF current < ReconnectMax THEN 2 * current
  ELSE current

(* reconnectBackoff.next *)
NextDelay(current) ==
  LET doubled == IF current = 0 THEN ReconnectInitial
                 ELSE IF current < ReconnectMax THEN 2 * current
                 ELSE current
  IN IF ReconnectMax > 0 /\ doubled > ReconnectMax THEN ReconnectMax ELSE doubled

StreamEnded ==
  /\ watch = "ended"
  /\ \/ ctx = "done" /\ watch' = "closed" /\ UNCHANGED <<delay, werr>>
     \/ /\ ctx = "live" /\ Transient(failure)
        /\ delay' = NextDelay(delay)
        /\ watch' = "backoff"
        /\ UNCHANGED werr
     \/ /\ ctx = "live" /\ ~Transient(failure)
        /\ werr' = failure
        /\ watch' = "closed"
        /\ UNCHANGED delay
  /\ failure' = None
  /\ UNCHANGED <<agent, stream, received, timer, hold, device, driver, ctx, fatal, used>>

Backoff ==
  /\ watch = "backoff"
  /\ \/ /\ watch' = "connect"
        /\ timer' = IF FirstSnapshotTimeout THEN "armed" ELSE "off"
     \/ ctx = "done" /\ watch' = "closed" /\ UNCHANGED timer
  /\ UNCHANGED <<agent, stream, received, hold, failure, delay, werr, device, driver, ctx,
                 fatal, used>>

-----------------------------------------------------------------------------
(* deviceWatch.run.                                                         *)

(* A mutant: every snapshot is converted, usable or not. *)
ConvertAnything ==
  /\ conv = "convert"
  /\ units' = input
  /\ conv' = "send"
  /\ UNCHANGED <<agent, stream, client, input, derr, driver, ctx, fatal, used>>

(* A mutant: the units are recorded for the first topology only. *)
ConvertUnitsOnce ==
  /\ conv = "convert"
  /\ \/ /\ Usable(input)
        /\ units' = IF units = NoSnapshot THEN input ELSE units
        /\ conv' = "send"
        /\ UNCHANGED input
     \/ /\ ~Usable(input)
        /\ conv' = "range"
        /\ input' = NoSnapshot
        /\ UNCHANGED units
  /\ UNCHANGED <<agent, stream, client, derr, driver, ctx, fatal, used>>

(* applyTopology records the new units before the resources are offered. *)
Convert ==
  /\ conv = "convert"
  /\ \/ /\ Usable(input)
        /\ units' = input
        /\ conv' = "send"
        /\ UNCHANGED input
     \/ /\ ~Usable(input)
        /\ conv' = "range"
        /\ input' = NoSnapshot
        /\ UNCHANGED units
  /\ UNCHANGED <<agent, stream, client, derr, driver, ctx, fatal, used>>

SendCancelled ==
  /\ conv = "send"
  /\ ctx = "done"
  /\ conv' = "closed"
  /\ input' = NoSnapshot
  /\ UNCHANGED <<agent, stream, client, units, derr, driver, ctx, fatal, used>>

(* A mutant: the error of the agent watch is not passed on. *)
RangeEndsSilently ==
  /\ conv = "range"
  /\ watch = "closed"
  /\ conv' = "closed"
  /\ UNCHANGED <<agent, stream, client, input, units, derr, driver, ctx, fatal, used>>

RangeEnds ==
  /\ conv = "range"
  /\ watch = "closed"
  /\ derr' = werr
  /\ conv' = "closed"
  /\ UNCHANGED <<agent, stream, client, input, units, driver, ctx, fatal, used>>

-----------------------------------------------------------------------------
(* NewDriver and republishDevices.                                          *)

ReceivesResources ==
  /\ conv = "send"
  /\ conv' = "range"
  /\ input' = NoSnapshot

(* waitForInitialDevices returns the first resources. *)
InitialDevices ==
  /\ phase = "initial"
  /\ ReceivesResources
  /\ alloc' = input
  /\ phase' = "build"
  /\ UNCHANGED <<agent, stream, client, units, derr, incoming, published, ctx, fatal, used>>

(* It fails on a closed watch, its deadline or a cancelled context, and    *)
(* the process ends.                                                       *)
InitialDevicesFail ==
  /\ phase = "initial"
  /\ \/ (conv = "closed" \/ ctx = "done") /\ UNCHANGED used
     \/ Happens("deadline")
  /\ phase' = "exited"
  /\ UNCHANGED <<agent, stream, client, device, incoming, alloc, published, ctx, fatal>>

(* NewDeviceState and kubeletplugin.Start succeed, and the resources are   *)
(* published for the first time.                                           *)
BuildAndPublish ==
  /\ phase = "build"
  /\ \/ published' = alloc /\ phase' = "watch" /\ UNCHANGED used
     \/ Happens("misconfigured") /\ phase' = "exited" /\ UNCHANGED published
  /\ UNCHANGED <<agent, stream, client, device, incoming, alloc, ctx, fatal>>

ReceiveUpdate ==
  /\ phase = "watch"
  /\ ReceivesResources
  /\ incoming' = input
  /\ phase' = "install"
  /\ UNCHANGED <<agent, stream, client, units, derr, alloc, published, ctx, fatal, used>>

(* SetResources compares resources, not topologies. *)
Install ==
  /\ phase = "install"
  /\ \/ /\ ResourcesOf[incoming.view] = ResourcesOf[alloc.view]
        /\ phase' = "watch"
        /\ UNCHANGED alloc
     \/ /\ ResourcesOf[incoming.view] # ResourcesOf[alloc.view]
        /\ alloc' = incoming
        /\ phase' = "publish"
  /\ incoming' = NoSnapshot
  /\ UNCHANGED <<agent, stream, client, device, published, ctx, fatal, used>>

(* HandleError on an error that is not recoverable. *)
HandleError(err) ==
  /\ ctx' = "done"
  /\ fatal' = IF ctx = "live" THEN err ELSE fatal
  /\ phase' = "stopped"

Republish ==
  /\ phase = "publish"
  /\ \/ published' = alloc /\ phase' = "watch" /\ UNCHANGED <<ctx, fatal, used>>
     \/ Happens("misconfigured") /\ HandleError("misconfigured") /\ UNCHANGED published
  /\ UNCHANGED <<agent, stream, client, device, incoming, alloc>>

(* A mutant: a watch that ended is taken for an orderly stop. *)
WatchEndsQuietly ==
  /\ phase = "watch"
  /\ conv = "closed"
  /\ phase' = "stopped"
  /\ UNCHANGED <<agent, stream, client, device, incoming, alloc, published, ctx, fatal, used>>

WatchEnds ==
  /\ phase = "watch"
  /\ conv = "closed"
  /\ \/ ctx = "done" /\ phase' = "stopped" /\ UNCHANGED <<ctx, fatal>>
     \/ ctx = "live" /\ HandleError(IF derr = None THEN "unexpected" ELSE derr)
  /\ UNCHANGED <<agent, stream, client, device, incoming, alloc, published, used>>

-----------------------------------------------------------------------------
(* RunPlugin: signals, the end of the process and its restart.              *)

Signal ==
  /\ ctx = "live"
  /\ phase # "exited"
  /\ Happens("signal")
  /\ ctx' = "done"
  /\ UNCHANGED <<agent, stream, client, device, driver, fatal>>

(* Once NewDriver has returned, RunPlugin only waits for the context; it   *)
(* does not wait for the goroutines.                                       *)
ProcessEnds ==
  /\ ctx = "done"
  /\ phase \in {"watch", "install", "publish", "stopped"}
  /\ phase' = "exited"
  /\ UNCHANGED <<agent, stream, client, device, incoming, alloc, published, ctx, fatal, used>>

Restart ==
  /\ phase = "exited"
  /\ conn' = "none" /\ wire' = <<>> /\ told' = 0
  /\ watch' = "connect" /\ received' = FALSE
  /\ timer' = IF FirstSnapshotTimeout THEN "armed" ELSE "off"
  /\ hold' = NoSnapshot /\ failure' = None /\ delay' = 0 /\ werr' = None
  /\ conv' = "range" /\ input' = NoSnapshot /\ units' = NoSnapshot /\ derr' = None
  /\ phase' = "initial" /\ incoming' = NoSnapshot /\ alloc' = NoSnapshot
  /\ ctx' = "live" /\ fatal' = None
  /\ UNCHANGED <<agent, published, used>>

-----------------------------------------------------------------------------
Run ==
  \/ StreamOpens \/ StreamIsRefused
  \/ Recv \/ RecvFails
  \/ StopTimer
  \/ Forward \/ ForwardCancelled
  \/ StreamEnded \/ Backoff

RunDevices == Convert \/ SendCancelled \/ RangeEnds

RunDriver ==
  \/ InitialDevices \/ InitialDevicesFail \/ BuildAndPublish
  \/ ReceiveUpdate \/ Install \/ Republish \/ WatchEnds

Agent ==
  \/ \E v \in Topologies \cup {Unusable} :
       AgentChanges(v) \/ \E implemented \in BOOLEAN : AgentStarts(v, implemented)
  \/ AgentStops
  \/ AgentWrites
  \/ ConnectionDrops

Next ==
  \/ Agent
  \/ TimerFires
  \/ phase # "exited" /\ (Run \/ RunDevices \/ RunDriver)
  \/ Signal
  \/ ProcessEnds
  \/ Restart

Spec == Init /\ [][Next]_vars

(* Goroutines are scheduled, reconnect delays elapse, and an agent with an *)
(* open stream writes what it has to report.                               *)
WatchFairness ==
  /\ WF_vars(phase # "exited" /\ Run)
  /\ WF_vars(phase # "exited" /\ RunDevices)
  /\ WF_vars(phase # "exited" /\ RunDriver)
  /\ WF_vars(AgentWrites)

FairSpec == Spec /\ WatchFairness

-----------------------------------------------------------------------------
Watches == {"connect", "recv", "received", "forward", "ended", "backoff", "closed"}

(* Every variable keeps its type; in particular the units, the allocatable *)
(* and the published resources only ever come from a usable snapshot.      *)
TypeOK ==
  /\ up \in BOOLEAN
  /\ serves \in BOOLEAN
  /\ now \in Snapshots
  /\ conn \in {"none", "open", "broken"}
  /\ wire \in Seq(Snapshots)
  /\ told \in Nat
  /\ watch \in Watches
  /\ received \in BOOLEAN
  /\ timer \in {"off", "armed", "fired"}
  /\ hold \in Snapshots \cup {NoSnapshot}
  /\ failure \in Errors \cup {None}
  /\ delay \in Nat
  /\ werr \in Errors \cup {None}
  /\ conv \in {"range", "convert", "send", "closed"}
  /\ input \in Snapshots \cup {NoSnapshot}
  /\ units \in UsableSnapshots \cup {NoSnapshot}
  /\ derr \in Errors \cup {None}
  /\ phase \in {"initial", "build", "watch", "install", "publish", "stopped", "exited"}
  /\ incoming \in UsableSnapshots \cup {NoSnapshot}
  /\ alloc \in UsableSnapshots \cup {NoSnapshot}
  /\ published \in UsableSnapshots \cup {NoSnapshot}
  /\ ctx \in {"live", "done"}
  /\ fatal \in Errors \cup {None, "misconfigured", "unexpected"}
  /\ used \in [Events -> Nat]

(* The published resources never go back to an older state of the host,    *)
(* across dropped streams, reconnects and restarts of the driver: a        *)
(* snapshot left over from a broken stream is never applied after one from *)
(* its successor.                                                          *)
NeverGoesBack == [][published'.gen >= published.gen]_vars

(* Once the driver has published devices, a snapshot without a usable      *)
(* topology (discovery pending or failed, a status the driver does not     *)
(* know) never replaces them: it says nothing about the host.              *)
NeverEmptied == [][published' # published => Usable(published')]_vars

(* "The mapping is updated before the resources are handed over so that a  *)
(* device is never published before the profile can produce CDI edits for  *)
(* it": the units are at least as new as what Prepare may allocate from    *)
(* and as what this process published.                                     *)
UnitsLead ==
  phase # "initial" /\ phase # "exited" =>
    alloc.gen <= units.gen /\ incoming.gen <= units.gen

(* A device watch that is closed without an error was cancelled, so        *)
(* republishDevices tells an orderly stop from a failure; and a failure it *)
(* treats as fatal always names its cause.                                 *)
CloseIsExplained ==
  /\ conv = "closed" /\ derr = None => ctx = "done"
  /\ fatal # "unexpected"

(* A reconnect delay never exceeds the configured maximum. *)
DelayIsCapped == delay <= ReconnectMax

(* When the host settles and its agent can be watched, the driver comes to *)
(* publish exactly what the agent reports, whatever was lost on the way -- *)
(* if a process that is to end does so, and the kubelet restarts it.       *)
Converges ==
  WF_vars(ProcessEnds) /\ WF_vars(Restart) =>
    \A t \in Topologies :
      <>[](up /\ serves /\ now.view = t) =>
        <>[](published # NoSnapshot /\ ResourcesOf[published.view] = ResourcesOf[t]
             /\ units.view = t)

(* Cancelling the context ends both watch goroutines: neither stays        *)
(* blocked in a send nobody receives, in Recv or in its backoff.           *)
WatchCloses ==
  ctx = "done" ~> phase = "exited" \/ (watch = "closed" /\ conv = "closed")

(* "The channel is closed when the watch stops: either the context ... was *)
(* cancelled, or the watch failed in a way reconnecting cannot fix": the   *)
(* watch reports an error only if the agent sent one that is permanent.    *)
StopsOnlyForGood == werr \in {None, "unsupported", "Internal"}
=============================================================================
