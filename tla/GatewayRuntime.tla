---------------------------- MODULE GatewayRuntime ----------------------------
(***************************************************************************)
(* One attempt of the gateway process (runtime.py): run_gateway around     *)
(* GatewayRuntime.start, supervise and cleanup.  The network objects live  *)
(* in a private namespace: the drop policy (an nftables table), the policy *)
(* routing of each address family, the interface wg0, the sshuttle process *)
(* and the TPROXY tables that sshuttle's firewall manager sets up through  *)
(* the adapter (nft_tproxy.py).  Any command may fail, with or without     *)
(* having had its effect; SIGTERM and the death of sshuttle come at any    *)
(* time.  The configuration is any of Configs.                             *)
(***************************************************************************)
EXTENDS PacketPolicy

CONSTANTS Configs,         \* configurations to start with
          UplinkAddresses, \* addresses that pasta gives the namespace
          MaxFaults        \* bound: how many commands or writes fail

ASSUME RuntimeAssumption ==
  /\ \A c \in Configs : ValidConfig(c) /\ Versions(GatewayNetworks(c)) \subseteq {4, 6}
  /\ MaxFaults \in Nat

VARIABLES
  config,       \* the configuration of this attempt
  pc,
  after,        \* where cleanup() was called from
  net,          \* [filter, link, rules]: the namespace
  proxy,        \* the sshuttle process: "none", "starting", "up", "dead"
  tables,       \* per version, its TPROXY table: "absent", "loaded", "removed", "left"
  handle,       \* self.sshuttle is not None
  status,       \* state in status.json
  stopping,     \* self.stopping
  error,        \* class of the exception in flight
  incomplete,   \* cleanup(): failures is not empty
  exit,         \* exit status of the process
  faults,
  undone,       \* history: objects whose last removal did not work
  unwritten     \* history: a status write failed

control == <<pc, after, error, incomplete, exit>>
vars == <<config, control, net, proxy, tables, handle, status, stopping, faults, undone, unwritten>>

\* Versions with routes, and versions that sshuttle listens on
Families == Versions(EffectiveRoutes(config))
Listeners == Versions(GatewayNetworks(config))

Running == "running"
NoError == "none"

Init ==
  /\ config \in Configs
  /\ pc = "start" /\ after = "begin"
  /\ net = [filter |-> FALSE, link |-> "absent", rules |-> {}]
  /\ proxy = "none" /\ handle = FALSE
  /\ tables = [v \in {4, 6} |-> "absent"]
  /\ status = "none" /\ stopping = FALSE
  /\ error = NoError /\ incomplete = FALSE /\ exit = Running
  /\ faults = 0 /\ undone = {} /\ unwritten = FALSE

Fault == faults < MaxFaults /\ faults' = faults + 1

\* _write_status with ignore_errors: a failed write leaves the old snapshot.
WriteStatus(s) ==
  \/ status' = s /\ UNCHANGED <<faults, unwritten>>
  \/ Fault /\ unwritten' = TRUE /\ UNCHANGED status

\* A call of cleanup()
CallCleanup(from) ==
  /\ pc' = "cleanup" /\ after' = from /\ incomplete' = FALSE

-------------------------------------------------------------------------------
(* start(), the commands of its try block in order *)

\* What the command of each step does to the namespace.
Intended ==
  CASE pc = "filter" -> [net EXCEPT !.filter = TRUE]
    [] pc = "linkdel" -> [net EXCEPT !.link = "absent"]
    [] pc = "linkadd" -> [net EXCEPT !.link = "down"]
    [] pc = "rules" -> [net EXCEPT !.rules = @ \cup {CHOOSE f \in Families \ net.rules : TRUE}]
    [] pc = "activate" -> [net EXCEPT !.link = "up"]
    [] OTHER -> net

Command(step, next) ==
  /\ pc = step
  /\ pc' = next
  /\ net' = Intended
  /\ UNCHANGED <<after, error, incomplete, exit, proxy, handle, status, stopping,
                 faults, undone, unwritten>>

\* The runtime directory, then cleanup of what an earlier attempt left.
StartCleanup ==
  /\ pc = "start"
  /\ \/ CallCleanup("begin") /\ UNCHANGED <<error, faults>>
     \/ CallCleanup("handler") /\ error' = "unexpected" /\ Fault
  /\ UNCHANGED <<net, proxy, handle, status, stopping, exit, undone, unwritten>>

\* This write is not forgiving, and it stands before the try block.
WriteStarting ==
  /\ pc = "starting"
  /\ \/ /\ pc' = "namespace" /\ status' = "starting"
        /\ UNCHANGED <<after, error, incomplete, faults, unwritten>>
     \/ /\ Fault /\ error' = "unexpected" /\ unwritten' = TRUE
        /\ CallCleanup("handler")
        /\ UNCHANGED status
  /\ UNCHANGED <<net, proxy, handle, stopping, exit, undone>>

ConfigureNamespace == Command("namespace", "remote")
RemotePythonCheck == Command("remote", "check")
CheckFilter == Command("check", "filter")
InstallFilter == Command("filter", "linkdel")
DeleteStaleLink == Command("linkdel", "linkadd")
AddLink == Command("linkadd", "wgconf")
\* Mutant: wg0 comes up before the policy routing and the proxy.
ActivateAtOnce == Command("wgconf", "activate")

ConfigureWireguard == Command("wgconf", "rules")
SetupPolicyRouting ==
  Command("rules", IF Intended.rules = Families THEN "spawn" ELSE "rules")
ActivateWireguard == Command("activate", "verify")

SpawnProxy ==
  /\ pc = "spawn" /\ pc' = "await"
  /\ proxy' = "starting" /\ handle' = TRUE
  /\ UNCHANGED <<after, error, incomplete, exit, net, status, stopping, faults, undone, unwritten>>

\* READY=1 on the notify socket, after the firewall manager is done
ProxyReady ==
  /\ pc = "await" /\ proxy = "starting"
  /\ \A v \in Listeners : tables[v] = "loaded"
  /\ pc' = "activate" /\ proxy' = "up"
  /\ UNCHANGED <<after, error, incomplete, exit, net, handle, status, stopping, faults, undone, unwritten>>

\* The exception leaves the try block of start(), which cleans up.
Throw(class) ==
  /\ error' = class
  /\ CallCleanup("rollback")
  /\ UNCHANGED <<exit, handle, status, stopping, undone, unwritten>>

\* poll() finds sshuttle gone; the adapter's own failure is permanent.
ProxyExitsEarly ==
  /\ pc = "await" /\ proxy = "dead"
  /\ \E class \in {"transient", "permanent"} : Throw(class)
  /\ UNCHANGED <<net, proxy, faults>>

\* The deadline
ProxyTimeout ==
  /\ pc = "await" /\ proxy = "starting"
  /\ Throw("transient")
  /\ UNCHANGED <<net, proxy, faults>>

\* _verify_postconditions: wg0, its dump and the table are listed.
PostconditionsHold == net.filter /\ net.link # "absent"

Verify ==
  /\ pc = "verify" /\ proxy # "dead" /\ PostconditionsHold
  /\ pc' = "publish"
  /\ UNCHANGED <<after, error, incomplete, exit, net, proxy, handle, status, stopping,
                 faults, undone, unwritten>>

VerifyFails ==
  /\ pc = "verify" /\ (proxy = "dead" \/ ~PostconditionsHold)
  /\ Throw("permanent")
  /\ UNCHANGED <<net, proxy, faults>>

\* Only the failure of the remote check is classified as transient; what is not
\* a ShuttleGateError is unexpected.
FailureClasses ==
  CASE pc = "remote" -> {"transient", "unexpected"}
    [] pc = "spawn" -> {"unexpected"}
    [] OTHER -> {"permanent", "unexpected"}
TryStep == {"namespace", "remote", "check", "filter", "linkdel", "linkadd", "wgconf",
            "rules", "spawn", "activate", "verify", "publish"}

CommandFails ==
  /\ pc \in TryStep
  /\ Fault
  /\ \E class \in FailureClasses : Throw(class)
  /\ net' \in {net, Intended}
  /\ UNCHANGED proxy

PublishReady ==
  /\ pc = "publish" /\ pc' = "supervise"
  /\ status' = "ready"
  /\ UNCHANGED <<after, error, incomplete, exit, net, proxy, handle, stopping, faults, undone, unwritten>>

-------------------------------------------------------------------------------
(* supervise() *)

\* Mutant: the loop waits for the child instead of the stop event.
StopWithChild ==
  /\ pc = "supervise" /\ stopping /\ proxy = "dead"
  /\ CallCleanup("stop")
  /\ UNCHANGED <<net, proxy, handle, status, stopping, error, exit, faults, undone, unwritten>>

SuperviseStop ==
  /\ pc = "supervise" /\ stopping
  /\ CallCleanup("stop")
  /\ UNCHANGED <<net, proxy, handle, status, stopping, error, exit, faults, undone, unwritten>>

\* Mutant: the death of sshuttle is not classified as transient.
ProxyGoneForGood ==
  /\ pc = "supervise" /\ ~stopping /\ proxy = "dead"
  /\ error' = "permanent"
  /\ CallCleanup("handler")
  /\ UNCHANGED <<net, proxy, handle, status, stopping, exit, faults, undone, unwritten>>

SuperviseProxyGone ==
  /\ pc = "supervise" /\ ~stopping /\ proxy = "dead"
  /\ error' = "transient"
  /\ CallCleanup("handler")
  /\ UNCHANGED <<net, proxy, handle, status, stopping, exit, faults, undone, unwritten>>

\* poll() finds sshuttle alive; it may still die before the snapshot is taken.
SupervisePoll ==
  /\ pc = "supervise" /\ ~stopping /\ proxy # "dead"
  /\ pc' = "snapshot"
  /\ UNCHANGED <<after, error, incomplete, exit, net, proxy, handle, status, stopping,
                 faults, undone, unwritten>>

\* The snapshot of every second: wg show, the peer keys or the write may fail.
Snapshot ==
  /\ pc = "snapshot"
  /\ \/ /\ pc' = "supervise" /\ status' = "ready"
        /\ UNCHANGED <<after, error, incomplete, faults>>
     \/ /\ Fault /\ error' \in {"permanent", "unexpected"}
        /\ CallCleanup("handler")
        /\ UNCHANGED status
  /\ UNCHANGED <<net, proxy, handle, stopping, exit, undone, unwritten>>

-------------------------------------------------------------------------------
(* cleanup(), each effect on its own *)

\* Mutant: cleanup() leaves the last snapshot in place.
CleanupSilent ==
  /\ pc = "cleanup" /\ pc' = "stopproxy"
  /\ UNCHANGED <<after, error, incomplete, exit, net, proxy, handle, status, stopping,
                 faults, undone, unwritten>>

CleanupStatus ==
  /\ pc = "cleanup" /\ pc' = "stopproxy"
  /\ WriteStatus("stopping")
  /\ UNCHANGED <<after, error, incomplete, exit, net, proxy, handle, stopping, undone>>

\* _stop_process; after it the process is forgotten even if it could not be
\* killed in time.
StopProxy ==
  /\ pc = "stopproxy" /\ pc' = "dropfilter"
  /\ handle' = FALSE
  /\ \/ /\ proxy' = IF handle THEN "none" ELSE proxy
        /\ UNCHANGED <<faults, undone, incomplete>>
     \/ /\ handle /\ proxy # "dead" /\ Fault
        /\ undone' = undone \cup {"proxy"} /\ incomplete' = TRUE
        /\ UNCHANGED proxy
  /\ UNCHANGED <<after, error, exit, net, status, stopping, unwritten>>

\* Mutant: the first command that raises ends cleanup().
RemoveOrAbort(step, next, object, removed) ==
  /\ pc = step
  /\ \/ /\ net' = removed /\ undone' = undone \ {object} /\ pc' = next
        /\ UNCHANGED <<faults, incomplete>>
     \/ /\ Fault /\ undone' = undone \cup {object} /\ pc' = "endcleanup"
        /\ net' \in {net, removed} /\ incomplete' = TRUE
  /\ UNCHANGED <<after, error, exit, proxy, handle, status, stopping, unwritten>>

\* run_cleanup of one object: done, refused with an exit status that nobody
\* looks at, or failed (not found, timed out) and recorded.
Remove(step, next, object, removed) ==
  /\ pc = step /\ pc' = next
  /\ \/ /\ net' = removed /\ undone' = undone \ {object}
        /\ UNCHANGED <<faults, incomplete>>
     \/ /\ Fault /\ undone' = undone \cup {object}
        /\ \/ net' = net /\ UNCHANGED incomplete
           \/ net' \in {net, removed} /\ incomplete' = TRUE
  /\ UNCHANGED <<after, error, exit, proxy, handle, status, stopping, unwritten>>

DropFilter == Remove("dropfilter", "droprules6", "filter", [net EXCEPT !.filter = FALSE])
DropRules6 == Remove("droprules6", "droprules4", "rules6", [net EXCEPT !.rules = @ \ {6}])
DropRules4 == Remove("droprules4", "droplink", "rules4", [net EXCEPT !.rules = @ \ {4}])
DropLink == Remove("droplink", "endcleanup", "link", [net EXCEPT !.link = "absent"])

\* How cleanup() returns or raises, and what its caller makes of it.
EndFirstCleanup ==
  /\ pc = "endcleanup" /\ after = "begin"
  /\ IF incomplete THEN error' = "permanent" /\ CallCleanup("handler")
     ELSE pc' = "starting" /\ UNCHANGED <<after, error, incomplete>>
  /\ UNCHANGED <<net, proxy, handle, status, stopping, exit, faults, undone, unwritten>>

\* Mutant: start() does not raise again after the rollback.
RollbackSwallowed ==
  /\ pc = "endcleanup" /\ after = "rollback"
  /\ pc' = "supervise"
  /\ UNCHANGED <<after, error, incomplete, net, proxy, handle, status, stopping, exit,
                 faults, undone, unwritten>>

EndRollback ==
  /\ pc = "endcleanup" /\ after = "rollback"
  /\ CallCleanup("handler")
  /\ UNCHANGED <<net, proxy, handle, status, stopping, error, exit, faults, undone, unwritten>>

EndHandler ==
  /\ pc = "endcleanup" /\ after = "handler"
  /\ pc' = "terminal"
  /\ UNCHANGED <<after, error, incomplete, net, proxy, handle, status, stopping, exit,
                 faults, undone, unwritten>>

\* run_gateway does not catch this one.
EndStop ==
  /\ pc = "endcleanup" /\ after = "stop"
  /\ IF incomplete THEN pc' = "exited" /\ exit' = "2" ELSE pc' = "stopped" /\ UNCHANGED exit
  /\ UNCHANGED <<after, error, incomplete, net, proxy, handle, status, stopping,
                 faults, undone, unwritten>>

-------------------------------------------------------------------------------
(* run_gateway and the exit status of the runtime command *)

\* Mutant: every failure is announced as a retry.
TerminalRetrying ==
  /\ pc = "terminal" /\ pc' = "exited"
  /\ WriteStatus("retrying")
  /\ exit' = CASE error = "transient" -> "75" [] error = "permanent" -> "2" [] OTHER -> "1"
  /\ UNCHANGED <<after, error, incomplete, net, proxy, handle, stopping, undone>>

\* Mutant: the class of the error is passed on as the state.
TerminalClass ==
  /\ pc = "terminal" /\ pc' = "exited"
  /\ WriteStatus(error)
  /\ exit' = CASE error = "transient" -> "75" [] error = "permanent" -> "2" [] OTHER -> "1"
  /\ UNCHANGED <<after, error, incomplete, net, proxy, handle, stopping, undone>>

Terminal ==
  /\ pc = "terminal" /\ pc' = "exited"
  /\ WriteStatus(IF error = "transient" THEN "retrying" ELSE "failed")
  /\ exit' = CASE error = "transient" -> "75" [] error = "permanent" -> "2" [] OTHER -> "1"
  /\ UNCHANGED <<after, error, incomplete, net, proxy, handle, stopping, undone>>

Stopped ==
  /\ pc = "stopped" /\ pc' = "exited"
  /\ WriteStatus("stopped")
  /\ exit' = "0"
  /\ UNCHANGED <<after, error, incomplete, net, proxy, handle, stopping, undone>>

-------------------------------------------------------------------------------
(* Environment *)

\* SIGTERM or SIGINT
RequestStop ==
  /\ ~stopping /\ exit = Running
  /\ stopping' = TRUE
  /\ UNCHANGED <<control, net, proxy, handle, status, faults, undone, unwritten>>

ProxyDies ==
  /\ proxy \in {"starting", "up"} /\ exit = Running
  /\ proxy' = "dead"
  /\ UNCHANGED <<control, net, handle, status, stopping, faults, undone, unwritten>>

\* sshuttle's firewall manager calls setup_firewall: a stale table is deleted,
\* the rules are checked and loaded in one transaction.
SetupFirewall(v) ==
  /\ proxy = "starting" /\ v \in Listeners /\ tables[v] = "absent"
  /\ tables' = [tables EXCEPT ![v] = "loaded"]
  /\ UNCHANGED <<control, net, proxy, handle, status, stopping, faults, undone, unwritten>>

\* Any of its commands raises Fatal, which ends sshuttle.
SetupFails(v) ==
  /\ proxy = "starting" /\ v \in Listeners /\ tables[v] = "absent"
  /\ Fault
  /\ tables' \in {tables, [tables EXCEPT ![v] = "loaded"]}
  /\ proxy' = "dead"
  /\ UNCHANGED <<control, net, handle, status, stopping, undone, unwritten>>

\* The manager notices that sshuttle is gone and calls restore_firewall.
RestoreFirewall(v) ==
  /\ proxy \in {"dead", "none"} /\ tables[v] = "loaded" /\ exit = Running
  /\ \/ tables' = [tables EXCEPT ![v] = "removed"] /\ UNCHANGED faults
     \/ tables' = [tables EXCEPT ![v] = "left"] /\ Fault
  /\ UNCHANGED <<control, net, proxy, handle, status, stopping, undone, unwritten>>

-------------------------------------------------------------------------------
(* What happens to a packet that arrives on wg0 *)

Packets == [to : UNION {n.members : n \in Networks}, protocol : {"tcp", "udp", "icmp"},
            port : {"listener", "other"}]
Local(a) == a \in UplinkAddresses \cup GatewayIps(config)

\* The prerouting chain of the adapter.  sshuttle listens on the wildcard address,
\* so its own listener is the transparent socket of every address at its port,
\* before the subnets are looked at; the tproxy statement needs the socket too.
Marked(p) ==
  LET v == p.to[1]
  IN  /\ tables[v] \in {"loaded", "left"} /\ proxy \in {"starting", "up"}
      /\ ~Local(p.to)
      /\ p.protocol \in {"tcp", "udp"}
      /\ p.port = "listener" \/ Captures(Subnets(config, v), p.to)

\* Marked packets are routed to the listener and pass the input chain; all
\* others meet the input or the forward chain of nft_filter.
Outcome(p) ==
  IF Marked(p) /\ p.to[1] \in net.rules THEN "proxied"
  ELSE IF net.filter THEN "dropped" ELSE "unfiltered"

\* healthcheck(); a process that nobody has waited for still has its pid.
Healthy ==
  /\ status = "ready" /\ proxy # "none"
  /\ net.link # "absent" /\ net.filter /\ Families \subseteq net.rules

-------------------------------------------------------------------------------
(* Specification *)

Startup ==
  \/ StartCleanup \/ WriteStarting \/ ConfigureNamespace \/ RemotePythonCheck
  \/ CheckFilter \/ InstallFilter \/ DeleteStaleLink \/ AddLink \/ ConfigureWireguard
  \/ SetupPolicyRouting \/ SpawnProxy \/ ProxyReady \/ ProxyExitsEarly \/ ProxyTimeout
  \/ ActivateWireguard \/ Verify \/ VerifyFails \/ CommandFails \/ PublishReady
Supervise == SuperviseStop \/ SuperviseProxyGone \/ SupervisePoll \/ Snapshot
Cleanup ==
  \/ CleanupStatus \/ StopProxy \/ DropFilter \/ DropRules6 \/ DropRules4 \/ DropLink
  \/ EndFirstCleanup \/ EndRollback \/ EndHandler \/ EndStop
Step == Startup \/ Supervise \/ Cleanup \/ Terminal \/ Stopped

Done == pc = "exited" /\ UNCHANGED vars

Manager == \E v \in {4, 6} : SetupFirewall(v) \/ SetupFails(v) \/ RestoreFirewall(v)

Next ==
  \/ (Step \/ RequestStop \/ ProxyDies) /\ UNCHANGED <<config, tables>>
  \/ Manager /\ UNCHANGED config
  \/ Done

Spec == Init /\ [][Next]_vars

\* Every wait of the process is bounded by a timeout, so it keeps moving.
FairSpec == Spec /\ WF_vars(Step /\ UNCHANGED <<config, tables>>)

-------------------------------------------------------------------------------
(* Properties *)

CleanupStep == {"cleanup", "stopproxy", "dropfilter", "droprules6", "droprules4",
                "droplink", "endcleanup", "terminal", "stopped", "exited"}

\* The variables hold what the code can put there.
TypeOK ==
  /\ pc \in TryStep \cup CleanupStep \cup {"start", "starting", "await", "supervise", "snapshot"}
  /\ after \in {"begin", "rollback", "handler", "stop"}
  /\ net \in [filter : BOOLEAN, link : {"absent", "down", "up"}, rules : SUBSET Families]
  /\ proxy \in {"none", "starting", "up", "dead"}
  /\ tables \in [{4, 6} -> {"absent", "loaded", "removed", "left"}]
  /\ config \in Configs /\ handle \in BOOLEAN /\ stopping \in BOOLEAN /\ incomplete \in BOOLEAN
  /\ unwritten \in BOOLEAN
  /\ status \in {"none", "starting", "ready", "stopping", "stopped", "retrying", "failed"}
  /\ error \in {NoError, "transient", "permanent", "unexpected"}
  /\ exit \in {Running, "0", "1", "2", "75"}
  /\ faults \in 0..MaxFaults
  /\ undone \subseteq {"proxy", "filter", "rules4", "rules6", "link"}

\* wg0 takes packets only behind the drop policy, with the complete policy
\* routing and a proxy that was started, and the tables of all versions go only
\* with it: until cleanup() begins, whatever commands failed before.
IngressGuarded ==
  net.link = "up" /\ pc \notin CleanupStep =>
    /\ net.filter /\ net.rules = Families /\ handle
    /\ proxy = "dead" \/ \A v \in Listeners : tables[v] = "loaded"

\* A gateway that passes its health check serves what the configuration
\* declares and, but for one port, nothing else: TCP and UDP to a declared route,
\* outside of the excluded networks inside of it and of the namespace itself,
\* reaches sshuttle; so does what is sent to the port of its listener, at any
\* address of a version that has routes; and every other packet is dropped, as
\* all are in the moment after sshuttle died.
RoutesServed ==
  Healthy => \A p \in Packets :
    Outcome(p) = IF /\ proxy # "dead" /\ p.protocol \in {"tcp", "udp"} /\ ~Local(p.to)
                    /\ \/ Routed(config, p.to)
                       \/ p.port = "listener" /\ p.to[1] \in Families
                 THEN "proxied" ELSE "dropped"

\* The same without the exception for cleanup(): proxy failure cannot become
\* direct egress.
IngressAlwaysFiltered == net.link = "up" => net.filter

\* status.json says "ready" only while the gateway serves, or until the next
\* snapshot notices that sshuttle died.
ReadyIsTrue ==
  status = "ready" /\ ~unwritten =>
    /\ net.link = "up" /\ net.filter /\ net.rules = Families
    /\ handle /\ proxy \in {"up", "dead"}

\* The last snapshot and the exit status tell systemd and the host the same
\* story: 75 exactly for "retrying", 0 exactly for "stopped".
StatusMatchesExit ==
  exit # Running /\ ~unwritten =>
    /\ status = "retrying" <=> exit = "75"
    /\ status = "stopped" <=> exit = "0"
    /\ status \notin {"none", "starting", "ready"}

\* cleanup() treats every object on its own: what is left at the end is exactly
\* of the objects whose own removal went wrong, and a second cleanup repairs a
\* first one.
IndependentCleanup ==
  exit # Running =>
    /\ net.filter => "filter" \in undone
    /\ net.link # "absent" => "link" \in undone
    /\ 4 \in net.rules => "rules4" \in undone
    /\ 6 \in net.rules => "rules6" \in undone
    /\ proxy \in {"starting", "up"} => "proxy" \in undone

Attempt == INSTANCE GatewayAttempt WITH
  phase <- IF exit # Running THEN "over"
           ELSE IF pc \in {"start", "starting"} \/ (after = "begin" /\ pc \in CleanupStep)
             THEN "new"
           ELSE IF pc \in CleanupStep THEN "withdrawn" ELSE "serving"

\* The attempt keeps what up, status and systemd rely on: the snapshots come in
\* their order, whatever fails, is interrupted or cannot be written; once
\* cleanup() has begun no later step brings readiness back.
ImplementsAttempt == Attempt!Spec

\* A stop request ends the process, in whatever phase it comes.
StopEnds == stopping ~> exit # Running

\* A gateway whose proxy died does not linger: it exits for systemd to restart
\* it, unless it was being stopped anyway.
ProxyDeathEnds ==
  (proxy = "dead" /\ pc = "supervise") ~> (exit = "75" \/ (stopping /\ exit # Running))
===============================================================================
