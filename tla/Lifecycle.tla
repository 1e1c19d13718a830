------------------------------- MODULE Lifecycle -------------------------------
(***************************************************************************)
(* One instance from the host's side: the up and down commands (host.py),  *)
(* the launch manifest (launch.py), the transient systemd unit with its    *)
(* bounded restarts, and the attempts of the gateway, of which only the    *)
(* phases matter here (GatewayRuntime has the details).  Meanwhile a user  *)
(* edits config.yaml, mutates keys and interrupts commands, and any query  *)
(* of the unit's state may fail.                                           *)
(***************************************************************************)
EXTENDS Naturals

CONSTANTS Commands,       \* concurrent up and down commands
          Sockets, Phones, Rests, \* the parts of a configuration: the bound sockets,
                          \* what the phones' fingerprints cover, and all else
          Initial,        \* the configurations to begin with
          Burst,          \* StartLimitBurst
          MaxEdits,       \* bound: edits of config.yaml
          MaxMutations,   \* bound: key mutations
          MaxLaunches,    \* bound: up commands, each with a launch identifier
          MaxInterrupts   \* bound: commands that are interrupted

Configs == [sockets : Sockets, phone : Phones, rest : Rests]

ASSUME LifecycleAssumption ==
  /\ Initial \subseteq Configs
  /\ 0 \notin Commands
  /\ Burst \in Nat \ {0}
  /\ MaxEdits \in Nat /\ MaxMutations \in Nat /\ MaxLaunches \in Nat
  /\ MaxInterrupts \in Nat

UnitStates == {"inactive", "activating", "active", "deactivating"}
Nothing == [launch |-> 0]
NoGateway == [phase |-> "none"]
Idle == [step |-> "idle"]

VARIABLES
  config,     \* config.yaml
  gen,        \* state generation and SSH identity
  rendered,   \* what the phone configurations were made for
  manifest,   \* launch.json, or Nothing
  status,     \* status.json, or Nothing
  unit,       \* ActiveState, one of UnitStates; "inactive" is also failed
  service,    \* what the unit was started with: [launch, sockets]
  attempts,   \* starts of the unit within StartLimitIntervalSec
  gateway,    \* the gateway process, see Exec
  lock,       \* holder of the lifecycle lock, or 0
  command,    \* per command: [step, config, launch]
  misled,     \* history: an up took the unit for stopped since it was started
  launches, edits, mutations, interrupts

files == <<manifest, status>>
inputs == <<config, gen, rendered>>
systemd == <<unit, service, attempts>>
bounds == <<launches, edits, mutations, interrupts>>
vars == <<inputs, files, systemd, gateway, lock, command, misled, bounds>>

Init ==
  /\ config \in Initial
  /\ gen = 1 /\ rendered \in Phones
  /\ manifest = Nothing /\ status = Nothing
  /\ unit = "inactive" /\ service = Nothing /\ attempts = 0
  /\ gateway = NoGateway
  /\ lock = 0
  /\ command = [c \in Commands |-> Idle]
  /\ misled = FALSE
  /\ launches = 0 /\ edits = 0 /\ mutations = 0 /\ interrupts = 0

\* run_gateway holds the shared state lock while the gateway serves.
StateLocked == gateway.phase \in {"starting", "ready"}

-------------------------------------------------------------------------------
(* Commands *)

At(c, step) == command[c].step = step
Goto(c, step) == command' = [command EXCEPT ![c].step = step]

\* Success or an exception: the lifecycle lock is released.
Finish(c) == /\ command' = [command EXCEPT ![c] = Idle]
             /\ lock' = IF lock = c THEN 0 ELSE lock

\* load_config comes before the lock.  The launch identifier is a fresh one.
UpBegin(c) ==
  /\ At(c, "idle")
  /\ launches < MaxLaunches /\ launches' = launches + 1
  /\ command' = [command EXCEPT ![c] = [step |-> "uplock", config |-> config,
                                        launch |-> launches']]
  /\ UNCHANGED <<inputs, files, systemd, gateway, lock, misled, edits, mutations, interrupts>>

DownBegin(c) ==
  /\ At(c, "idle")
  /\ command' = [command EXCEPT ![c] = [step |-> "downlock"]]
  /\ UNCHANGED <<inputs, files, systemd, gateway, lock, misled, bounds>>

\* LOCK_EX | LOCK_NB
Lock(c) ==
  /\ lock = 0 /\ lock' = c
  /\ \/ At(c, "uplock") /\ Goto(c, "check")
     \/ At(c, "downlock") /\ Goto(c, "stop")
  /\ UNCHANGED <<inputs, files, systemd, gateway, misled, bounds>>

LockBusy(c) ==
  /\ lock # 0
  /\ At(c, "uplock") \/ At(c, "downlock")
  /\ Finish(c)
  /\ UNCHANGED <<inputs, files, systemd, gateway, misled, bounds>>

\* _host_state: a query that fails or prints nothing reads "inactive".
HostState(state) == state \in {unit, "inactive"}

\* Mutant: a unit that is about to be restarted does not count as running.
CheckActiveOnly(c) ==
  /\ At(c, "check")
  /\ \E state \in UnitStates :
       /\ HostState(state)
       /\ Goto(c, IF state = "active" THEN "attach" ELSE "remove")
       /\ misled' = (misled \/ (unit \in {"active", "activating"} /\ state = "inactive"))
  /\ UNCHANGED <<inputs, files, systemd, gateway, lock, bounds>>

Check(c) ==
  /\ At(c, "check")
  /\ \E state \in UnitStates :
       /\ HostState(state)
       /\ Goto(c, IF state \in {"active", "activating"} THEN "attach" ELSE "remove")
       /\ misled' = (misled \/ (unit \in {"active", "activating"} /\ state = "inactive"))
  /\ UNCHANGED <<inputs, files, systemd, gateway, lock, bounds>>

\* Mutant: the digest of the file stands for all of it.
MatchesDigest(plan, parsed, file) ==
  /\ plan # Nothing
  /\ plan.config = file /\ plan.gen = gen

\* validate_launch_manifest: the sockets come from the configuration that was
\* parsed, the digest from the file as it is now.
Matches(plan, parsed, file) ==
  /\ plan # Nothing
  /\ plan.config = file /\ plan.gen = gen /\ plan.sockets = parsed.sockets

\* Mutant: any unit that runs will do.
AttachUnchecked(c) ==
  /\ At(c, "attach") /\ manifest # Nothing
  /\ command' = [command EXCEPT ![c].step = "wait", ![c].launch = manifest.launch]
  /\ UNCHANGED <<inputs, files, systemd, gateway, lock, misled, bounds>>

Attach(c) ==
  /\ At(c, "attach")
  /\ IF Matches(manifest, command[c].config, config)
       THEN /\ command' = [command EXCEPT ![c].step = "wait", ![c].launch = manifest.launch]
            /\ UNCHANGED lock
       ELSE Finish(c)
  /\ UNCHANGED <<inputs, files, systemd, gateway, misled, bounds>>

\* _remove_known_runtime_files: a process that is still there keeps writing to
\* a directory that nobody sees any more.
RemoveFiles ==
  /\ manifest' = Nothing /\ status' = Nothing
  /\ gateway' = IF gateway = NoGateway THEN gateway ELSE [gateway EXCEPT !.mounted = FALSE]

\* _check_host_socket_availability, then the removal: pasta has its sockets once
\* the gateway runs ...
Remove(c) ==
  /\ At(c, "remove")
  /\ gateway.phase \in {"loaded", "starting", "ready"} =>
       service.sockets # command[c].config.sockets
  /\ RemoveFiles
  /\ Goto(c, "prepare")
  /\ UNCHANGED <<inputs, systemd, lock, misled, bounds>>

\* ... and another program may have them at any time.
SocketTaken(c) ==
  /\ At(c, "remove")
  /\ Finish(c)
  /\ UNCHANGED <<inputs, files, systemd, gateway, misled, bounds>>

\* prepare_launch: exclusive and non-blocking state lock, phone configurations
\* against the parsed configuration, digest of the file.
CanPrepare(c) == ~StateLocked /\ rendered = command[c].config.phone

Prepare(c) ==
  /\ At(c, "prepare") /\ CanPrepare(c)
  /\ manifest' = [launch |-> command[c].launch, config |-> config, gen |-> gen,
                  sockets |-> command[c].config.sockets]
  /\ Goto(c, "launch")
  /\ UNCHANGED <<inputs, status, systemd, gateway, lock, misled, bounds>>

PrepareFails(c) ==
  /\ At(c, "prepare") /\ ~CanPrepare(c)
  /\ Finish(c)
  /\ UNCHANGED <<inputs, files, systemd, gateway, misled, bounds>>

\* The claims, pasta and bubblewrap start.  The sandbox mounts launch.json and
\* config.yaml as files: it sees edits in place and keeps a file that is
\* replaced.  The output directory is mounted too.
Exec == [phase |-> "exec", plan |-> manifest, file |-> config, live |-> TRUE,
         mounted |-> TRUE, config |-> config, gen |-> gen, launch |-> 0]

\* systemd-run, which refuses a unit that is loaded: claims and pasta take the
\* sockets of the parsed configuration.
Launch(c) ==
  /\ At(c, "launch")
  /\ \/ /\ unit = "inactive" /\ unit' = "active"
        /\ service' = [launch |-> command[c].launch, sockets |-> command[c].config.sockets]
        /\ attempts' = 1
        /\ gateway' = Exec
        /\ misled' = FALSE
        /\ Goto(c, "wait")
        /\ UNCHANGED lock
     \/ /\ unit # "inactive"
        /\ Finish(c)
        /\ UNCHANGED <<systemd, gateway, misled>>
  /\ UNCHANGED <<inputs, files, bounds>>

\* _wait_for_state, first the status file ...
StatusSays(c, state) ==
  status # Nothing /\ status.launch = command[c].launch /\ status.state = state

ReportReady(c) ==
  /\ At(c, "wait") /\ StatusSays(c, "ready")
  /\ Finish(c)
  /\ UNCHANGED <<inputs, files, systemd, gateway, misled, bounds>>

ReportFailed(c) ==
  /\ At(c, "wait") /\ StatusSays(c, "failed")
  /\ Finish(c)
  /\ UNCHANGED <<inputs, files, systemd, gateway, misled, bounds>>

WaitStatus(c) ==
  /\ At(c, "wait") /\ ~StatusSays(c, "ready") /\ ~StatusSays(c, "failed")
  /\ Goto(c, "waitunit")
  /\ UNCHANGED <<inputs, files, systemd, gateway, lock, misled, bounds>>

\* ... then the unit
WaitUnit(c) ==
  /\ At(c, "waitunit")
  /\ \E state \in UnitStates :
       /\ HostState(state)
       /\ IF state = "inactive" THEN Finish(c) ELSE Goto(c, "wait") /\ UNCHANGED lock
  /\ UNCHANGED <<inputs, files, systemd, gateway, misled, bounds>>

\* systemctl stop, which waits for the unit
StopUnit ==
  unit' = IF unit = "active" \/ unit = "deactivating" THEN "deactivating" ELSE "inactive"

\* Mutant: the deadline counts from the first status.
WaitTimeoutLate(c) ==
  /\ At(c, "wait") /\ status # Nothing
  /\ StopUnit
  /\ Goto(c, "expired")
  /\ UNCHANGED <<inputs, files, service, attempts, gateway, lock, misled, bounds>>

WaitTimeout(c) ==
  /\ At(c, "wait")
  /\ StopUnit
  /\ Goto(c, "expired")
  /\ UNCHANGED <<inputs, files, service, attempts, gateway, lock, misled, bounds>>

Expire(c) ==
  /\ At(c, "expired") /\ unit = "inactive"
  /\ Finish(c)
  /\ UNCHANGED <<inputs, files, systemd, gateway, misled, bounds>>

DownStop(c) ==
  /\ At(c, "stop")
  /\ StopUnit
  /\ Goto(c, "stopping")
  /\ UNCHANGED <<inputs, files, service, attempts, gateway, lock, misled, bounds>>

DownRemove(c) ==
  /\ At(c, "stopping") /\ HostState("inactive")
  /\ RemoveFiles
  /\ Finish(c)
  /\ UNCHANGED <<inputs, systemd, misled, bounds>>

DownTimeout(c) ==
  /\ At(c, "stopping") /\ \E state \in UnitStates \ {"inactive"} : HostState(state)
  /\ Finish(c)
  /\ UNCHANGED <<inputs, files, systemd, gateway, misled, bounds>>

\* SIGINT, SIGKILL or any failure in between
Interrupt(c) ==
  /\ interrupts < MaxInterrupts /\ interrupts' = interrupts + 1
  /\ ~At(c, "idle")
  /\ Finish(c)
  /\ UNCHANGED <<inputs, files, systemd, gateway, misled, launches, edits, mutations>>

-------------------------------------------------------------------------------
(* The unit and the gateway *)

\* --collect: the unit is forgotten.
Exits == /\ gateway' = NoGateway
         /\ unit' = "inactive" /\ attempts' = 0
         /\ UNCHANGED service

\* A gateway that has been asked to stop goes on with what it is doing.
Alive == unit \in {"active", "deactivating"}

WriteStatus(state) ==
  status' = IF gateway.mounted THEN [launch |-> gateway.launch, state |-> state] ELSE status

\* run_gateway parses the configuration ...
GatewayLoad ==
  /\ gateway.phase = "exec" /\ Alive
  /\ gateway' = [gateway EXCEPT !.phase = "loaded", !.config = gateway.file]
  /\ UNCHANGED <<inputs, files, systemd, lock, command, misled, bounds>>

\* ... and validates the manifest under the shared lock, which it keeps.  It does
\* not look at the file again.
GatewayValidate ==
  /\ gateway.phase = "loaded" /\ Alive
  /\ IF Matches(gateway.plan, gateway.config, gateway.file)
       THEN /\ gateway' = [gateway EXCEPT !.phase = "starting", !.gen = gen,
                                          !.launch = gateway.plan.launch, !.live = FALSE]
            /\ UNCHANGED systemd
       ELSE Exits
  /\ UNCHANGED status
  /\ UNCHANGED <<inputs, manifest, lock, command, misled, bounds>>

GatewayStarting ==
  /\ gateway.phase = "starting" /\ Alive
  /\ WriteStatus("starting")
  /\ UNCHANGED <<inputs, manifest, systemd, gateway, lock, command, misled, bounds>>

GatewayReady ==
  /\ gateway.phase = "starting" /\ Alive
  /\ gateway' = [gateway EXCEPT !.phase = "ready"]
  /\ WriteStatus("ready")
  /\ UNCHANGED <<inputs, manifest, systemd, lock, command, misled, bounds>>

\* Mutant: no start limit.
GatewayRetriesForever ==
  /\ StateLocked /\ Alive
  /\ gateway' = NoGateway
  /\ WriteStatus("retrying")
  /\ unit' = IF unit = "active" THEN "activating" ELSE "inactive"
  /\ UNCHANGED <<inputs, manifest, service, attempts, lock, command, misled, bounds>>

\* Exit status 75: RestartForceExitStatus, up to StartLimitBurst, unless stopped
GatewayRetries ==
  /\ StateLocked /\ Alive
  /\ gateway' = NoGateway
  /\ WriteStatus("retrying")
  /\ attempts' \in {attempts, 0}    \* the interval may have passed
  /\ unit' = IF unit = "active" /\ attempts' < Burst THEN "activating" ELSE "inactive"
  /\ UNCHANGED <<inputs, manifest, service, lock, command, misled, bounds>>

UnitRestart ==
  /\ unit = "activating" /\ unit' = "active"
  /\ attempts' = attempts + 1
  /\ gateway' = Exec
  /\ UNCHANGED <<inputs, files, service, lock, command, misled, bounds>>

GatewayFails ==
  /\ StateLocked /\ Alive
  /\ Exits
  /\ WriteStatus("failed")
  /\ UNCHANGED <<inputs, manifest, lock, command, misled, bounds>>

\* A lost claim, a failing sandbox or configuration, out of memory
GatewayDies ==
  /\ gateway # NoGateway
  /\ Exits
  /\ UNCHANGED <<inputs, files, lock, command, misled, bounds>>

\* SIGTERM: cleanup, if there is anything to clean up
GatewayStops ==
  /\ unit = "deactivating" /\ gateway # NoGateway
  /\ Exits
  /\ IF StateLocked THEN WriteStatus("stopped") ELSE UNCHANGED status
  /\ UNCHANGED <<inputs, manifest, lock, command, misled, bounds>>

-------------------------------------------------------------------------------
(* The user *)

Edit ==
  /\ edits < MaxEdits /\ edits' = edits + 1
  /\ config' \in Configs \ {config}
  /\ UNCHANGED <<gen, rendered, files, systemd, lock, command, misled, launches, mutations,
                 interrupts>>

EditInPlace ==
  /\ Edit
  /\ gateway' = IF gateway # NoGateway /\ gateway.live
                  THEN [gateway EXCEPT !.file = config'] ELSE gateway

EditByRename ==
  /\ Edit
  /\ gateway' = IF gateway = NoGateway THEN gateway ELSE [gateway EXCEPT !.live = FALSE]

\* Mutant: without the exclusive lock.
MutateKeysUnlocked ==
  /\ mutations < MaxMutations /\ mutations' = mutations + 1
  /\ gen' = gen + 1 /\ rendered' \in Phones
  /\ UNCHANGED <<config, files, systemd, gateway, lock, command, misled, launches, edits,
                 interrupts>>

\* keys generate and rotate, phone-config, ssh-key generate, under the exclusive
\* state lock: the first ones render the phones for the configuration that they
\* parsed, which may be an earlier one, the last renders nothing.
MutateKeys ==
  /\ mutations < MaxMutations /\ mutations' = mutations + 1
  /\ ~StateLocked
  /\ gen' = gen + 1 /\ rendered' \in Phones
  /\ UNCHANGED <<config, files, systemd, gateway, lock, command, misled, launches, edits,
                 interrupts>>

-------------------------------------------------------------------------------
(* Specification *)

UpStep(c) ==
  \/ Lock(c) \/ LockBusy(c) \/ Check(c) \/ Attach(c) \/ Remove(c)
  \/ SocketTaken(c) \/ Prepare(c)
  \/ PrepareFails(c) \/ Launch(c) \/ ReportReady(c) \/ ReportFailed(c)
  \/ WaitStatus(c) \/ WaitUnit(c) \/ Expire(c)
DownStep(c) == DownStop(c) \/ DownRemove(c) \/ DownTimeout(c)
UnitStep ==
  \/ GatewayLoad \/ GatewayValidate \/ GatewayStarting \/ GatewayReady \/ GatewayRetries
  \/ GatewayFails \/ GatewayStops \/ UnitRestart

Next ==
  \/ \E c \in Commands :
       \/ UpBegin(c) \/ DownBegin(c) \/ UpStep(c) \/ DownStep(c)
       \/ WaitTimeout(c) \/ Interrupt(c)
  \/ UnitStep \/ GatewayDies \/ EditInPlace \/ EditByRename \/ MutateKeys

Spec == Init /\ [][Next]_vars

\* A command moves on, the loops of _wait_for_state and _down have deadlines,
\* and systemd carries a stop through (TimeoutStopSec).
FairSpec ==
  /\ Spec
  /\ WF_vars(GatewayStops)
  /\ \A c \in Commands : /\ WF_vars(UpStep(c) \/ DownStep(c))
                         /\ SF_vars(WaitTimeout(c))

-------------------------------------------------------------------------------
(* Properties *)

\* The variables hold what the code can put there.
TypeOK ==
  /\ config \in Configs /\ rendered \in Phones /\ gen \in 1..(1 + MaxMutations)
  /\ manifest = Nothing \/ manifest \in [launch : 1..MaxLaunches, config : Configs,
                                         gen : 1..gen, sockets : Sockets]
  /\ status = Nothing \/ status \in [launch : 1..MaxLaunches,
       state : {"starting", "ready", "retrying", "failed", "stopped"}]
  /\ unit \in UnitStates /\ misled \in BOOLEAN
  /\ service = Nothing \/ service \in [launch : 1..MaxLaunches, sockets : Sockets]
  /\ attempts \in 0..Burst
  /\ gateway # NoGateway =>
       /\ gateway.phase \in {"exec", "loaded", "starting", "ready"}
       /\ gateway.config \in Configs /\ gateway.file \in Configs
       /\ gateway.live \in BOOLEAN /\ gateway.mounted \in BOOLEAN
       /\ gateway.gen \in 1..gen /\ gateway.launch \in 0..MaxLaunches
  /\ lock \in Commands \cup {0}

\* Although up, the file digest and the sandbox read config.yaml at three
\* different times, the gateway serves only with the sockets that the claims
\* and pasta were set up for.  An up that was misled about the unit's state may
\* break this until the unit is started again: it puts another launch.json before
\* the next restart.
ServesClaimedSockets ==
  StateLocked /\ ~misled => gateway.config.sockets = service.sockets

\* The keys that the gateway serves with are those of the launch plan, and they
\* do not change under it, not even when an up was misled.
KeysPinned ==
  StateLocked => gateway.gen = gen /\ gateway.plan.gen = gen

\* No up or down, concurrent, interrupted or repeated, takes the runtime files
\* from a unit that is running or about to be restarted, unless its state was
\* misread.
FilesBelongToUnit ==
  unit \in {"active", "activating"} /\ ~misled =>
    /\ manifest # Nothing /\ manifest.launch = service.launch
    /\ gateway # NoGateway => gateway.mounted

\* up reports readiness only of the launch that the unit was started with, and
\* with the sockets that it was asked for, unless an up was misled about that
\* unit: the status file is never an old one.
ReportedAsAsked ==
  [][\A c \in Commands : ReportReady(c) /\ ~misled =>
       /\ service.launch = command[c].launch
       /\ service.sockets = command[c].config.sockets]_vars

\* architecture.md: startup requires every declared peer to be complete and
\* current.
StartupRequiresCurrent == gateway.phase = "starting" => rendered = gateway.config.phone

\* Every command comes to an end.
CommandsEnd == \A c \in Commands : ~At(c, "idle") ~> At(c, "idle")
===============================================================================
