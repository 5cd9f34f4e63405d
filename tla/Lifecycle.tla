----------------------------- MODULE Lifecycle -----------------------------
(***************************************************************************)
(* One driver process from newApp's Action to the end of RunPlugin, over   *)
(* and over: the probe that decides about composite devices, the startup   *)
(* sequence of NewDriver, the health-check server, the shutdown -- and the *)
(* two parties that end the process, the operator and the kubelet's        *)
(* liveness probe.                                                         *)
(*                                                                         *)
(* Time is counted in probe periods.  Only waiting for the agent takes     *)
(* that long; every other step of the startup and of the shutdown is over  *)
(* before the next period begins.                                          *)
(***************************************************************************)
EXTENDS Naturals

CONSTANTS
  HealthcheckPort,        \* the health-check service is configured
  InitialDevicesTimeout,  \* initialDevicesTimeout, in probe periods
  FailureThreshold,       \* failed probes in a row that end the process
  FlagSettings,           \* what the operator may set the two flags to
  MaxTroubles             \* failures, signals and changes in a behaviour

Options == [trays : BOOLEAN, meshes : BOOLEAN]
ChipsOnly == [trays |-> FALSE, meshes |-> FALSE]

ASSUME HealthcheckAssumption == HealthcheckPort \in BOOLEAN

ASSUME PeriodsAssumption ==
  InitialDevicesTimeout \in Nat \ {0} /\ FailureThreshold \in Nat \ {0}

ASSUME FlagsAssumption == FlagSettings \subseteq Options

ASSUME TroublesAssumption == MaxTroubles \in Nat

VARIABLES
  gate,     \* the apiserver keeps shared counters
  ready,    \* the agent has a topology to report
  phase,    \* where the process is
  opts,     \* the composite devices resolveCompositeDevices settled on
  waited,   \* periods waitForInitialDevices has waited
  ctx,      \* why the main context is cancelled, or "live"
  sockets,  \* the helper serves the registration and the DRA socket
  health,   \* the health-check server
  check,    \* the call the health check in flight is making
  fails,    \* failed probes in a row
  troubles  \* failures, signals and changes so far

cluster == <<gate, ready>>
probing == <<check, fails>>
serving == <<sockets, health, probing>>
lifecycleVars == <<cluster, phase, opts, waited, ctx, serving, troubles>>

(* The steps of Action and RunPlugin before the signal handler is set. *)
Early == {"resolve", "directories"}
(* NewDriver. *)
Starting == {"initial", "state", "helper", "health", "publish"}
(* Shutdown, after the default signal behaviour is back. *)
Stopping == {"drain", "stop"}
Phases == {"down", "running"} \cup Early \cup Starting \cup Stopping

(* Something goes wrong, or changes, that the driver has no say in. *)
Disturbed ==
  /\ troubles < MaxTroubles
  /\ troubles' = troubles + 1

LifecycleInit ==
  /\ gate \in BOOLEAN
  /\ ready \in BOOLEAN
  /\ phase = "down"
  /\ opts = ChipsOnly
  /\ waited = 0
  /\ ctx = "live"
  /\ sockets = FALSE
  /\ health = "off"
  /\ check = "none"
  /\ fails = 0
  /\ troubles = 0

(* The process ends, and everything it served with it. *)
Exits ==
  /\ phase' = "down"
  /\ waited' = 0
  /\ ctx' = "live"
  /\ sockets' = FALSE
  /\ health' = "off"
  /\ check' = "none"
  /\ fails' = 0
  /\ opts' = ChipsOnly
  /\ UNCHANGED cluster

(* A startup step succeeds and the next one begins. *)
Proceed(from, to) == phase = from /\ phase' = to

-----------------------------------------------------------------------------
(* The cluster.                                                             *)

(* The DRAPartitionableDevices gate is switched on; it stays on. *)
GateOpens ==
  /\ ~gate
  /\ Disturbed
  /\ gate' = TRUE
  /\ UNCHANGED <<ready, phase, opts, waited, ctx, serving>>

AgentReports ==
  /\ ~ready
  /\ ready' = TRUE
  /\ UNCHANGED <<gate, phase, opts, waited, ctx, serving, troubles>>

AgentRestarts ==
  /\ ready
  /\ Disturbed
  /\ ready' = FALSE
  /\ UNCHANGED <<gate, phase, opts, waited, ctx, serving>>

-----------------------------------------------------------------------------
(* Startup.                                                                 *)

(* The kubelet starts the container. *)
StartContainer ==
  /\ Proceed("down", "resolve")
  /\ UNCHANGED <<cluster, opts, waited, ctx, serving, troubles>>

(* Action returns early: no client, an unknown profile, no agent address.   *)
Rejected ==
  /\ phase = "resolve"
  /\ Disturbed
  /\ Exits

(* A mutant: a probe without an answer leaves the flags as they are. *)
ResolveCompositeDevicesAsAsked(flags) ==
  /\ Proceed("resolve", "directories")
  /\ \/ opts' = flags /\ gate /\ UNCHANGED troubles
     \/ opts' = ChipsOnly /\ ~gate /\ UNCHANGED troubles
     \/ flags # ChipsOnly /\ Disturbed /\ opts' = flags
  /\ UNCHANGED <<cluster, waited, ctx, serving>>

(* A mutant: any answer will do. *)
ResolveCompositeDevicesIfAnswered(flags) ==
  /\ Proceed("resolve", "directories")
  /\ \/ opts' = flags /\ UNCHANGED troubles
     \/ flags # ChipsOnly /\ Disturbed /\ opts' = ChipsOnly
  /\ UNCHANGED <<cluster, waited, ctx, serving>>

(* sharedCountersSupported asks whether the counters of a dry run survive; *)
(* no, and no answer, both mean chips only, and so do the flags themselves *)
(* when neither asks for a composite device.                               *)
ResolveCompositeDevices(flags) ==
  /\ Proceed("resolve", "directories")
  /\ \/ flags # ChipsOnly /\ gate /\ opts' = flags /\ UNCHANGED troubles
     \/ flags # ChipsOnly /\ ~gate /\ opts' = ChipsOnly /\ UNCHANGED troubles
     \/ flags # ChipsOnly /\ Disturbed /\ opts' = ChipsOnly
     \/ flags = ChipsOnly /\ opts' = ChipsOnly /\ UNCHANGED troubles
  /\ UNCHANGED <<cluster, waited, ctx, serving>>

(* RunPlugin creates the plugin directory and a missing CDI root. *)
CreateDirectories ==
  \/ /\ Proceed("directories", "initial")
     /\ UNCHANGED <<cluster, opts, waited, ctx, serving, troubles>>
  \/ phase = "directories" /\ Disturbed /\ Exits

(* waitForInitialDevices: the watch reports devices ... *)
InitialDevices ==
  /\ ready
  /\ Proceed("initial", "state")
  /\ waited' = 0
  /\ UNCHANGED <<cluster, opts, ctx, serving, troubles>>

(* ... or fails for good, or takes too long, or the context is cancelled. *)
InitialDevicesFail ==
  /\ phase = "initial"
  /\ \/ ctx # "live" /\ UNCHANGED troubles
     \/ waited >= InitialDevicesTimeout /\ UNCHANGED troubles
     \/ Disturbed
  /\ Exits

NewDeviceState ==
  \/ /\ Proceed("state", "helper")
     /\ UNCHANGED <<cluster, opts, waited, ctx, serving, troubles>>
  \/ phase = "state" /\ Disturbed /\ Exits

(* kubeletplugin.Start serves both sockets before it returns. *)
StartHelper ==
  \/ /\ Proceed("helper", "health")
     /\ sockets' = TRUE
     /\ UNCHANGED <<cluster, opts, waited, ctx, health, probing, troubles>>
  \/ phase = "helper" /\ Disturbed /\ Exits

StartHealthcheck ==
  \/ /\ Proceed("health", "publish")
     /\ health' = IF HealthcheckPort THEN "serving" ELSE "off"
     /\ UNCHANGED <<cluster, opts, waited, ctx, sockets, probing, troubles>>
  \/ phase = "health" /\ HealthcheckPort /\ Disturbed /\ Exits

PublishResources ==
  /\ Proceed("publish", "running")
  /\ UNCHANGED <<cluster, opts, waited, ctx, serving, troubles>>

PublishResourcesFails ==
  /\ phase = "publish"
  /\ Disturbed
  /\ Exits

-----------------------------------------------------------------------------
(* The end of a process.                                                    *)

Cancel(cause) ==
  /\ ctx = "live"
  /\ ctx' = cause

(* HandleError: the watch has ended, the slices cannot be published, or    *)
(* the helper, once it is started, has a background error that is final.   *)
HandleError ==
  /\ phase \in {"health", "publish", "running"}
  /\ Disturbed
  /\ Cancel("fatal")
  /\ UNCHANGED <<cluster, phase, opts, waited, serving>>

(* A signal cancels the context while RunPlugin catches it, and ends the   *)
(* process before and after that.                                          *)
Signal ==
  /\ Disturbed
  /\ \/ /\ phase \in Starting \cup {"running"}
        /\ Cancel("signal")
        /\ UNCHANGED <<cluster, phase, opts, waited, serving>>
     \/ phase \in Early \cup Stopping /\ Exits

Crash ==
  /\ phase # "down"
  /\ Disturbed
  /\ Exits

(* The helper's servers end with its context, if they do not outlive it    *)
(* until Stop.                                                             *)
HelperFollowsContext ==
  /\ ctx # "live"
  /\ sockets
  /\ sockets' = FALSE
  /\ UNCHANGED <<cluster, phase, opts, waited, ctx, health, probing, troubles>>

(* Shutdown: healthcheck.Stop refuses new checks and lets the one in       *)
(* flight finish; only then does the helper stop.                          *)
ShutdownBegins ==
  /\ ctx # "live"
  /\ Proceed("running", "drain")
  /\ health' = IF health = "serving" THEN "draining" ELSE health
  /\ UNCHANGED <<cluster, opts, waited, ctx, sockets, probing, troubles>>

(* A mutant: Stop waits for the server to end before it tells it to. *)
HealthcheckWaits ==
  /\ Proceed("drain", "stop")
  /\ check = "none"
  /\ health = "off"
  /\ UNCHANGED <<cluster, opts, waited, ctx, serving, troubles>>

HealthcheckStops ==
  /\ Proceed("drain", "stop")
  /\ check = "none"
  /\ health' = "off"
  /\ UNCHANGED <<cluster, opts, waited, ctx, sockets, probing, troubles>>

HelperStops ==
  /\ phase = "stop"
  /\ Exits
  /\ UNCHANGED troubles

-----------------------------------------------------------------------------
(* The liveness probe.                                                      *)

(* The kubelet counts an answer; the last failure it puts up with ends the *)
(* container.                                                              *)
Answered(ok) ==
  /\ fails' = IF ok THEN 0 ELSE fails + 1
  /\ ctx' = IF ~ok /\ fails + 1 >= FailureThreshold /\ ctx = "live"
            THEN "probe" ELSE ctx

(* A probe period passes.  A server that is not there refuses the probe. *)
ProbePeriod ==
  /\ ctx = "live"
  /\ \/ phase = "initial" /\ ~ready /\ waited < InitialDevicesTimeout
     \/ phase = "running"
  /\ check = "none"
  /\ waited' = IF phase = "initial" THEN waited + 1 ELSE waited
  /\ check' = IF HealthcheckPort /\ health = "serving" THEN "registration" ELSE check
  /\ IF HealthcheckPort /\ health # "serving"
     THEN Answered(FALSE)
     ELSE UNCHANGED <<fails, ctx>>
  /\ UNCHANGED <<cluster, phase, opts, sockets, health, troubles>>

(* Check calls GetInfo on the registration socket ... *)
CheckRegistration ==
  /\ check = "registration"
  /\ \/ sockets /\ check' = "dra" /\ UNCHANGED <<fails, ctx>>
     \/ ~sockets /\ check' = "none" /\ Answered(FALSE)
  /\ UNCHANGED <<cluster, phase, opts, waited, sockets, health, troubles>>

(* A mutant: an empty request is an error. *)
CheckDRARejected ==
  /\ check = "dra"
  /\ check' = "none"
  /\ Answered(FALSE)
  /\ UNCHANGED <<cluster, phase, opts, waited, sockets, health, troubles>>

(* ... and then NodePrepareResources, without claims, on the DRA socket. *)
CheckDRA ==
  /\ check = "dra"
  /\ check' = "none"
  /\ Answered(sockets)
  /\ UNCHANGED <<cluster, phase, opts, waited, sockets, health, troubles>>

(* The call waits behind another one for longer than the kubelet does. *)
CheckTimesOut ==
  /\ check # "none"
  /\ Disturbed
  /\ check' = "none"
  /\ Answered(FALSE)
  /\ UNCHANGED <<cluster, phase, opts, waited, sockets, health>>

-----------------------------------------------------------------------------
(* The steps that leave the devices alone, grouped by who takes them. *)

Boot ==
  \/ StartContainer
  \/ \E flags \in FlagSettings : ResolveCompositeDevices(flags)
  \/ CreateDirectories
  \/ InitialDevicesFail
  \/ NewDeviceState
  \/ StartHelper
  \/ StartHealthcheck

Shutdown == ShutdownBegins \/ HealthcheckStops \/ HelperStops

Check == CheckRegistration \/ CheckDRA

Trouble ==
  \/ Rejected
  \/ PublishResourcesFails
  \/ HandleError
  \/ Signal
  \/ Crash
  \/ HelperFollowsContext
  \/ CheckTimesOut

Surroundings == GateOpens \/ AgentReports \/ AgentRestarts \/ ProbePeriod

LifecycleNext ==
  \/ Boot \/ InitialDevices \/ PublishResources
  \/ Shutdown \/ Check \/ Trouble \/ Surroundings

(* The kubelet restarts the container, the process gets to run and the     *)
(* probe goes on; nothing obliges the agent to report.                     *)
LifecycleSpec ==
  /\ LifecycleInit
  /\ [][LifecycleNext]_lifecycleVars
  /\ WF_lifecycleVars(Boot)
  /\ WF_lifecycleVars(InitialDevices)
  /\ WF_lifecycleVars(PublishResources)
  /\ WF_lifecycleVars(Shutdown)
  /\ WF_lifecycleVars(Check)
  /\ WF_lifecycleVars(ProbePeriod)

-----------------------------------------------------------------------------
LifecycleTypeOK ==
  /\ gate \in BOOLEAN /\ ready \in BOOLEAN
  /\ phase \in Phases
  /\ opts \in Options
  /\ waited \in 0 .. InitialDevicesTimeout
  /\ ctx \in {"live", "fatal", "signal", "probe"}
  /\ sockets \in BOOLEAN
  /\ health \in {"off", "serving", "draining"}
  /\ check \in {"none", "registration", "dra"}
  /\ fails \in 0 .. FailureThreshold
  /\ troubles \in 0 .. MaxTroubles

(* A process whose context is cancelled -- by a signal, by the liveness    *)
(* probe or by HandleError, which relies on it -- always gets to its end   *)
(* and is replaced by one with a fresh device watch: neither a health      *)
(* check in flight, which calls back into the process, nor the order in    *)
(* which Shutdown stops the two servers holds it up.                       *)
ShutdownIsRestart == ctx # "live" ~> phase = "initial"

(* Once the agent has a topology for good, the driver comes up and stays:  *)
(* the liveness probe, which fails while NewDriver waits, does not keep    *)
(* ending it once there is something to publish.                           *)
EventuallyRuns == <>[]ready => <>[](phase = "running" /\ ctx = "live")

(* waitForInitialDevices is generous: it covers "the fabric manager agent  *)
(* coming up and completing its first topology discovery", and a process   *)
(* is only restarted when the timeout expires -- not by the liveness probe *)
(* while it still waits.                                                   *)
PatientStart == [][phase = "initial" /\ phase' = "down" => ctx # "probe"]_lifecycleVars
=============================================================================
