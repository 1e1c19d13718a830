------------------------- MODULE GatewayRuntimeProofs -------------------------
(***************************************************************************)
(* Proofs about GatewayRuntime for every set of valid configurations, any  *)
(* networks and any number of failing commands.                            *)
(***************************************************************************)
EXTENDS GatewayRuntime, PacketPolicyProofs

-------------------------------------------------------------------------------
(* The inductive invariant, one part per kind of state *)

NotBegun == pc \in {"start", "starting"} \/ (after = "begin" /\ pc \in CleanupStep)

\* Where the process is
ControlAt ==
  /\ exit = Running <=> pc # "exited"
  /\ pc = "terminal" => after = "handler"
  /\ pc = "stopped" => after = "stop"

\* What the commands of start() have made of the namespace so far
NetIs(filter, link) == net.filter = filter /\ net.link = link
NetAt ==
  /\ NotBegun \/ pc \in {"namespace", "remote", "check", "filter"} =>
       NetIs(FALSE, "absent") /\ net.rules = {}
  /\ pc \in {"linkdel", "linkadd"} => NetIs(TRUE, "absent") /\ net.rules = {}
  /\ pc = "wgconf" => NetIs(TRUE, "down") /\ net.rules = {}
  /\ pc = "rules" => NetIs(TRUE, "down") /\ net.rules # Families
  /\ pc \in {"spawn", "await", "activate"} => NetIs(TRUE, "down") /\ net.rules = Families
  /\ pc \in {"verify", "publish", "supervise", "snapshot"} =>
       NetIs(TRUE, "up") /\ net.rules = Families

\* The process behind the handle; readiness implies the tables.
ProxyAt ==
  /\ pc = "await" => handle /\ proxy \in {"starting", "dead"}
  /\ pc \in {"activate", "verify", "publish", "supervise", "snapshot"} =>
       handle /\ proxy \in {"up", "dead"}
  /\ proxy = "up" => \A v \in Listeners : tables[v] = "loaded"
  /\ proxy \in {"starting", "up"} => handle \/ "proxy" \in undone
  /\ pc \in CleanupStep \ {"cleanup", "stopproxy"} => ~handle

\* How long "ready" may stay
StatusAt ==
  /\ NotBegun \/ pc \in TryStep \cup {"await"} => status # "ready"
  /\ status = "ready" => proxy # "starting"
  /\ status = "ready" /\ ~unwritten => pc \in {"supervise", "snapshot", "cleanup"}
  /\ pc \in CleanupStep \ {"cleanup", "exited"} /\ ~unwritten => status = "stopping"
  /\ ReadyIsTrue /\ StatusMatchesExit

\* What cleanup() has dealt with
AfterLink == {"endcleanup", "terminal", "stopped", "exited"}
AfterRules4 == AfterLink \cup {"droplink"}
AfterRules6 == AfterRules4 \cup {"droprules4"}
AfterFilter == AfterRules6 \cup {"droprules6"}
CleanupAt ==
  /\ pc \in AfterFilter /\ net.filter => "filter" \in undone
  /\ pc \in AfterRules6 /\ 6 \in net.rules => "rules6" \in undone
  /\ pc \in AfterRules4 /\ 4 \in net.rules => "rules4" \in undone
  /\ pc \in AfterLink /\ net.link # "absent" => "link" \in undone

RuntimeInv == TypeOK /\ ControlAt /\ NetAt /\ ProxyAt /\ StatusAt /\ CleanupAt

-------------------------------------------------------------------------------
(* Routes *)

\* Every configuration has routes, of versions with a gateway.
LEMMA FamiliesKnown ==
  ASSUME NEW c \in Configs
  PROVE  /\ Versions(EffectiveRoutes(c)) # {}
         /\ Versions(EffectiveRoutes(c)) \subseteq Versions(GatewayNetworks(c))
         /\ Versions(GatewayNetworks(c)) \subseteq {4, 6}
<1>1. ValidConfig(c) /\ Versions(GatewayNetworks(c)) \subseteq {4, 6}
  BY RuntimeAssumption
<1>2. Versions(EffectiveRoutes(c)) \subseteq Versions(GatewayNetworks(c))
  BY <1>1 DEF ValidConfig, RoutesHaveGateways
<1>3. EffectiveRoutes(c) # {}
  <2>1. CASE c.mode = "selected"
    BY <1>1, <2>1 DEF ValidConfig, ValidRoutes, EffectiveRoutes
  <2>2. CASE c.mode # "selected"
    <3>1. PICK n \in GatewayNetworks(c) : n \in Networks
      BY <1>1 DEF ValidConfig, ValidGateways, GatewayNetworks
    <3>2. PICK d \in Networks : d.version = n.version /\ d.width = 0
      BY <3>1, PrefixAssumption
    <3>3. n.version \in Versions(GatewayNetworks(c))
      BY <3>1 DEF Versions
    <3> QED BY <2>2, <3>2, <3>3 DEF EffectiveRoutes
  <2> QED BY <2>1, <2>2
<1> QED BY <1>1, <1>2, <1>3 DEF Versions

\* A valid configuration serves a family, and every family it serves has a listener.
LEMMA FamiliesTyped ==
  ASSUME config \in Configs
  PROVE  Families # {} /\ Families \subseteq Listeners /\ Listeners \subseteq {4, 6}
BY FamiliesKnown DEF Families, Listeners

\* What is served depends on the configuration alone.
LEMMA SameConfig ==
  ASSUME UNCHANGED config
  PROVE  Families' = Families /\ Listeners' = Listeners
BY DEF Families, Listeners

-------------------------------------------------------------------------------
(* Type correctness *)

Nets == [filter : BOOLEAN, link : {"absent", "down", "up"}, rules : SUBSET Families]

\* A fault is counted up to the bound.
LEMMA FaultTyped ==
  ASSUME TypeOK, Fault
  PROVE  faults' \in 0..MaxFaults
<1>1. MaxFaults \in Nat
  BY RuntimeAssumption
<1> QED BY <1>1 DEF TypeOK, Fault

\* What a command may make of the namespace
LEMMA IntendedTyped ==
  ASSUME TypeOK, NetAt
  PROVE  Intended \in Nets
<1>1. net \in Nets
  BY DEF TypeOK, Nets
<1>2. pc = "rules" => (CHOOSE f \in Families \ net.rules : TRUE) \in Families
  BY <1>1 DEF NetAt, Nets
<1>3. CASE pc = "filter"
  BY <1>1, <1>3 DEF Intended, Nets
<1>4. CASE pc # "filter"
  BY <1>1, <1>2, <1>4 DEF Intended, Nets
<1> QED BY <1>3, <1>4

\* The flags
Flags ==
  /\ handle \in BOOLEAN /\ stopping \in BOOLEAN /\ incomplete \in BOOLEAN
  /\ unwritten \in BOOLEAN

\* A gateway that has not started has the right types.
LEMMA TypeInit == Init => TypeOK
<1> SUFFICES ASSUME Init PROVE TypeOK
  OBVIOUS
<1>1. MaxFaults \in Nat
  BY RuntimeAssumption
<1>2. net \in Nets
  BY DEF Init, Nets
<1>3. tables \in [{4, 6} -> {"absent", "loaded", "removed", "left"}]
  BY DEF Init
<1>4. Flags
  BY Zenon DEF Init, Flags
<1>5. /\ pc = "start" /\ after = "begin" /\ proxy = "none" /\ status = "none"
      /\ error = NoError /\ exit = Running /\ faults = 0 /\ undone = {} /\ config \in Configs
  BY DEF Init
<1> QED BY <1>1, <1>2, <1>3, <1>4, <1>5
        DEF TypeOK, TryStep, CleanupStep, Running, NoError, Nets, Flags

\* The commands of start(), when they work
LEMMA TypeCommands ==
  ASSUME TypeOK, NetAt, UNCHANGED <<config, tables>>,
         \/ ConfigureNamespace \/ RemotePythonCheck \/ CheckFilter \/ InstallFilter
         \/ DeleteStaleLink \/ AddLink \/ ConfigureWireguard \/ SetupPolicyRouting
         \/ ActivateWireguard
  PROVE  TypeOK'
<1> USE FaultTyped, IntendedTyped, SameConfig DEF TypeOK, TryStep, CleanupStep, Running,
        NoError, Nets, Command
<1>1. CASE ConfigureNamespace BY <1>1 DEF ConfigureNamespace
<1>2. CASE RemotePythonCheck BY <1>2 DEF RemotePythonCheck
<1>3. CASE CheckFilter BY <1>3 DEF CheckFilter
<1>4. CASE InstallFilter BY <1>4 DEF InstallFilter
<1>5. CASE DeleteStaleLink BY <1>5 DEF DeleteStaleLink
<1>6. CASE AddLink BY <1>6 DEF AddLink
<1>7. CASE ConfigureWireguard BY <1>7 DEF ConfigureWireguard
<1>8. CASE SetupPolicyRouting BY <1>8 DEF SetupPolicyRouting
<1>9. CASE ActivateWireguard BY <1>9 DEF ActivateWireguard
<1> QED BY <1>1, <1>2, <1>3, <1>4, <1>5, <1>6, <1>7, <1>8, <1>9

\* The rest of start()
LEMMA TypeStart ==
  ASSUME TypeOK, NetAt, UNCHANGED <<config, tables>>,
         \/ StartCleanup \/ WriteStarting \/ SpawnProxy \/ ProxyReady \/ Verify
         \/ PublishReady
  PROVE  TypeOK'
<1> USE FaultTyped, IntendedTyped, SameConfig DEF TypeOK, TryStep, CleanupStep, Running,
        NoError, Nets, CallCleanup
<1>1. CASE StartCleanup
  <2>1. Flags'
    BY <1>1, Zenon DEF StartCleanup, Flags
  <2> QED BY <1>1, <2>1 DEF StartCleanup, Flags
<1>2. CASE WriteStarting
  <2>1. Flags'
    BY <1>2, Zenon DEF WriteStarting, Flags
  <2> QED BY <1>2, <2>1 DEF WriteStarting, Flags
<1>3. CASE SpawnProxy BY <1>3 DEF SpawnProxy
<1>4. CASE ProxyReady BY <1>4 DEF ProxyReady
<1>5. CASE Verify BY <1>5 DEF Verify
<1>6. CASE PublishReady BY <1>6 DEF PublishReady
<1> QED BY <1>1, <1>2, <1>3, <1>4, <1>5, <1>6

\* Failures of start()
LEMMA TypeFailures ==
  ASSUME TypeOK, NetAt, UNCHANGED <<config, tables>>,
         \/ ProxyExitsEarly \/ ProxyTimeout \/ VerifyFails \/ CommandFails
  PROVE  TypeOK'
<1> USE FaultTyped, IntendedTyped, SameConfig DEF TypeOK, TryStep, CleanupStep, Running,
        NoError, Nets, CallCleanup, Throw, FailureClasses
<1>1. CASE ProxyExitsEarly
  <2>1. Flags'
    BY <1>1, Zenon DEF ProxyExitsEarly, Flags
  <2> QED BY <1>1, <2>1 DEF ProxyExitsEarly, Flags
<1>2. CASE ProxyTimeout
  <2>1. Flags'
    BY <1>2, Zenon DEF ProxyTimeout, Flags
  <2> QED BY <1>2, <2>1 DEF ProxyTimeout, Flags
<1>3. CASE VerifyFails
  <2>1. Flags'
    BY <1>3, Zenon DEF VerifyFails, Flags
  <2> QED BY <1>3, <2>1 DEF VerifyFails, Flags
<1>4. CASE CommandFails
  <2>1. Flags'
    BY <1>4, Zenon DEF CommandFails, Flags
  <2> QED BY <1>4, <2>1 DEF CommandFails, Flags
<1> QED BY <1>1, <1>2, <1>3, <1>4

\* supervise()
LEMMA TypeSupervise ==
  ASSUME TypeOK, NetAt, UNCHANGED <<config, tables>>,
         \/ SuperviseStop \/ SuperviseProxyGone \/ SupervisePoll \/ Snapshot
  PROVE  TypeOK'
<1> USE FaultTyped, IntendedTyped, SameConfig DEF TypeOK, TryStep, CleanupStep, Running,
        NoError, Nets, CallCleanup
<1>1. CASE SuperviseStop
  <2>1. Flags'
    BY <1>1, Zenon DEF SuperviseStop, Flags
  <2> QED BY <1>1, <2>1 DEF SuperviseStop, Flags
<1>2. CASE SuperviseProxyGone
  <2>1. Flags'
    BY <1>2, Zenon DEF SuperviseProxyGone, Flags
  <2> QED BY <1>2, <2>1 DEF SuperviseProxyGone, Flags
<1>3. CASE SupervisePoll BY <1>3 DEF SupervisePoll
<1>4. CASE Snapshot
  <2>1. Flags'
    BY <1>4, Zenon DEF Snapshot, Flags
  <2> QED BY <1>4, <2>1 DEF Snapshot, Flags
<1> QED BY <1>1, <1>2, <1>3, <1>4

\* The steps of cleanup()
LEMMA TypeCleanup ==
  ASSUME TypeOK, NetAt, UNCHANGED <<config, tables>>,
         \/ CleanupStatus \/ StopProxy \/ DropFilter \/ DropRules6 \/ DropRules4
         \/ DropLink
  PROVE  TypeOK'
<1> USE FaultTyped, IntendedTyped, SameConfig DEF TypeOK, TryStep, CleanupStep, Running,
        NoError, Nets, WriteStatus, Remove
<1>1. CASE CleanupStatus
  <2>1. Flags'
    BY <1>1, Zenon DEF CleanupStatus, Flags
  <2> QED BY <1>1, <2>1 DEF CleanupStatus, Flags
<1>2. CASE StopProxy
  <2>1. Flags'
    BY <1>2, Zenon DEF StopProxy, Flags
  <2>2. /\ proxy' \in {"none", "starting", "up", "dead"} /\ faults' \in 0..MaxFaults
        /\ undone' \subseteq {"proxy", "filter", "rules4", "rules6", "link"}
    BY <1>2 DEF StopProxy
  <2>3. pc' = "dropfilter" /\ UNCHANGED <<after, error, exit, net, status>>
    BY <1>2 DEF StopProxy
  <2> QED BY <2>1, <2>2, <2>3 DEF Flags
<1>3. CASE DropFilter
  <2>1. Flags'
    BY <1>3, Zenon DEF DropFilter, Flags
  <2>2. [net EXCEPT !.filter = FALSE] \in Nets
    OBVIOUS
  <2>3. net' \in Nets
    BY <1>3, <2>2 DEF DropFilter
  <2>4. pc' = "droprules6" /\ UNCHANGED <<after, error, exit, proxy, status>>
    BY <1>3 DEF DropFilter
  <2>5. /\ faults' \in 0..MaxFaults
        /\ undone' \subseteq {"proxy", "filter", "rules4", "rules6", "link"}
    BY <1>3 DEF DropFilter
  <2> QED BY <2>1, <2>3, <2>4, <2>5 DEF Flags
<1>4. CASE DropRules6
  <2>1. Flags'
    BY <1>4, Zenon DEF DropRules6, Flags
  <2> QED BY <1>4, <2>1 DEF DropRules6, Flags
<1>5. CASE DropRules4
  <2>1. Flags'
    BY <1>5, Zenon DEF DropRules4, Flags
  <2> QED BY <1>5, <2>1 DEF DropRules4, Flags
<1>6. CASE DropLink
  <2>1. Flags'
    BY <1>6, Zenon DEF DropLink, Flags
  <2> QED BY <1>6, <2>1 DEF DropLink, Flags
<1> QED BY <1>1, <1>2, <1>3, <1>4, <1>5, <1>6

\* The end of cleanup() and of the process
LEMMA TypeEnds ==
  ASSUME TypeOK, NetAt, UNCHANGED <<config, tables>>,
         \/ EndFirstCleanup \/ EndRollback \/ EndHandler \/ EndStop \/ Terminal
         \/ Stopped
  PROVE  TypeOK'
<1> USE FaultTyped, IntendedTyped, SameConfig DEF TypeOK, TryStep, CleanupStep, Running,
        NoError, Nets, CallCleanup, WriteStatus
<1>1. CASE EndFirstCleanup
  <2>1. Flags'
    BY <1>1, Zenon DEF EndFirstCleanup, Flags
  <2> QED BY <1>1, <2>1 DEF EndFirstCleanup, Flags
<1>2. CASE EndRollback
  <2>1. Flags'
    BY <1>2, Zenon DEF EndRollback, Flags
  <2> QED BY <1>2, <2>1 DEF EndRollback, Flags
<1>3. CASE EndHandler BY <1>3 DEF EndHandler
<1>4. CASE EndStop BY <1>4 DEF EndStop
<1>5. CASE Terminal
  <2>1. Flags'
    BY <1>5, Zenon DEF Terminal, Flags
  <2> QED BY <1>5, <2>1 DEF Terminal, Flags
<1>6. CASE Stopped
  <2>1. Flags'
    BY <1>6, Zenon DEF Stopped, Flags
  <2> QED BY <1>6, <2>1 DEF Stopped, Flags
<1> QED BY <1>1, <1>2, <1>3, <1>4, <1>5, <1>6

\* Signals and the death of sshuttle
LEMMA TypeEnvironment ==
  ASSUME TypeOK, NetAt, UNCHANGED <<config, tables>>,
         \/ RequestStop \/ ProxyDies
  PROVE  TypeOK'
<1> USE FaultTyped, IntendedTyped, SameConfig DEF TypeOK, TryStep, CleanupStep, Running,
        NoError, Nets, control
<1>1. CASE RequestStop BY <1>1 DEF RequestStop
<1>2. CASE ProxyDies BY <1>2 DEF ProxyDies
<1> QED BY <1>1, <1>2

-------------------------------------------------------------------------------
(* The inductive invariant is preserved *)

\* The invariant holds before anything is set up.
LEMMA RuntimeInit == Init => RuntimeInv
<1> SUFFICES ASSUME Init PROVE RuntimeInv
  OBVIOUS
<1>1. net.filter = FALSE /\ net.link = "absent" /\ net.rules = {}
  BY DEF Init
<1> QED
  BY <1>1, TypeInit
  DEF Init, RuntimeInv, ControlAt, NetAt, NetIs, NotBegun, ProxyAt, StatusAt, CleanupAt,
      ReadyIsTrue, StatusMatchesExit, TryStep, CleanupStep, Running,
      AfterFilter, AfterRules6, AfterRules4, AfterLink

\* The commands of start(), when they work
LEMMA InvCommands ==
  ASSUME RuntimeInv, TypeOK', UNCHANGED <<config, tables>>,
         \/ ConfigureNamespace \/ RemotePythonCheck \/ CheckFilter \/ InstallFilter
         \/ DeleteStaleLink \/ AddLink \/ ConfigureWireguard \/ SetupPolicyRouting
         \/ ActivateWireguard
  PROVE  RuntimeInv'
<1> USE FamiliesTyped, SameConfig DEF RuntimeInv, TypeOK, ControlAt, NetAt, NetIs,
        NotBegun, ProxyAt, StatusAt, CleanupAt, ReadyIsTrue, StatusMatchesExit, TryStep,
        CleanupStep, Running, AfterFilter, AfterRules6, AfterRules4, AfterLink, Command,
        Intended
<1>1. CASE ConfigureNamespace BY <1>1 DEF ConfigureNamespace
<1>2. CASE RemotePythonCheck BY <1>2 DEF RemotePythonCheck
<1>3. CASE CheckFilter BY <1>3 DEF CheckFilter
<1>4. CASE InstallFilter BY <1>4 DEF InstallFilter
<1>5. CASE DeleteStaleLink BY <1>5 DEF DeleteStaleLink
<1>6. CASE AddLink BY <1>6 DEF AddLink
<1>7. CASE ConfigureWireguard BY <1>7 DEF ConfigureWireguard
<1>8. CASE SetupPolicyRouting BY <1>8 DEF SetupPolicyRouting
<1>9. CASE ActivateWireguard BY <1>9 DEF ActivateWireguard
<1> QED BY <1>1, <1>2, <1>3, <1>4, <1>5, <1>6, <1>7, <1>8, <1>9

\* The rest of start()
LEMMA InvStart ==
  ASSUME RuntimeInv, TypeOK', UNCHANGED <<config, tables>>,
         \/ StartCleanup \/ WriteStarting \/ SpawnProxy \/ ProxyReady \/ Verify
         \/ PublishReady
  PROVE  RuntimeInv'
<1> USE FamiliesTyped, SameConfig DEF RuntimeInv, TypeOK, ControlAt, NetAt, NetIs,
        NotBegun, ProxyAt, StatusAt, CleanupAt, ReadyIsTrue, StatusMatchesExit, TryStep,
        CleanupStep, Running, AfterFilter, AfterRules6, AfterRules4, AfterLink,
        CallCleanup
<1>1. CASE StartCleanup BY <1>1 DEF StartCleanup
<1>2. CASE WriteStarting BY <1>2 DEF WriteStarting
<1>3. CASE SpawnProxy BY <1>3 DEF SpawnProxy
<1>4. CASE ProxyReady BY <1>4 DEF ProxyReady
<1>5. CASE Verify BY <1>5 DEF Verify
<1>6. CASE PublishReady BY <1>6 DEF PublishReady
<1> QED BY <1>1, <1>2, <1>3, <1>4, <1>5, <1>6

\* Failures of start()
LEMMA InvFailures ==
  ASSUME RuntimeInv, TypeOK', UNCHANGED <<config, tables>>,
         \/ ProxyExitsEarly \/ ProxyTimeout \/ VerifyFails \/ CommandFails
  PROVE  RuntimeInv'
<1> USE FamiliesTyped, SameConfig DEF RuntimeInv, TypeOK, ControlAt, NetAt, NetIs,
        NotBegun, ProxyAt, StatusAt, CleanupAt, ReadyIsTrue, StatusMatchesExit, TryStep,
        CleanupStep, Running, AfterFilter, AfterRules6, AfterRules4, AfterLink,
        CallCleanup, Throw, FailureClasses
<1>1. CASE ProxyExitsEarly BY <1>1 DEF ProxyExitsEarly
<1>2. CASE ProxyTimeout BY <1>2 DEF ProxyTimeout
<1>3. CASE VerifyFails BY <1>3 DEF VerifyFails
<1>4. CASE CommandFails BY <1>4 DEF CommandFails
<1> QED BY <1>1, <1>2, <1>3, <1>4

\* supervise()
LEMMA InvSupervise ==
  ASSUME RuntimeInv, TypeOK', UNCHANGED <<config, tables>>,
         \/ SuperviseStop \/ SuperviseProxyGone \/ SupervisePoll \/ Snapshot
  PROVE  RuntimeInv'
<1> USE FamiliesTyped, SameConfig DEF RuntimeInv, TypeOK, ControlAt, NetAt, NetIs,
        NotBegun, ProxyAt, StatusAt, CleanupAt, ReadyIsTrue, StatusMatchesExit, TryStep,
        CleanupStep, Running, AfterFilter, AfterRules6, AfterRules4, AfterLink,
        CallCleanup
<1>1. CASE SuperviseStop BY <1>1 DEF SuperviseStop
<1>2. CASE SuperviseProxyGone BY <1>2 DEF SuperviseProxyGone
<1>3. CASE SupervisePoll BY <1>3 DEF SupervisePoll
<1>4. CASE Snapshot BY <1>4 DEF Snapshot
<1> QED BY <1>1, <1>2, <1>3, <1>4

\* The steps of cleanup()
LEMMA InvCleanup ==
  ASSUME RuntimeInv, TypeOK', UNCHANGED <<config, tables>>,
         \/ CleanupStatus \/ StopProxy \/ DropFilter \/ DropRules6 \/ DropRules4
         \/ DropLink
  PROVE  RuntimeInv'
<1> USE FamiliesTyped, SameConfig DEF RuntimeInv, TypeOK, ControlAt, NetAt, NetIs,
        NotBegun, ProxyAt, StatusAt, CleanupAt, ReadyIsTrue, StatusMatchesExit, TryStep,
        CleanupStep, Running, AfterFilter, AfterRules6, AfterRules4, AfterLink,
        WriteStatus, Remove
<1>1. CASE CleanupStatus BY <1>1 DEF CleanupStatus
<1>2. CASE StopProxy BY <1>2 DEF StopProxy
<1>3. CASE DropFilter BY <1>3 DEF DropFilter
<1>4. CASE DropRules6 BY <1>4 DEF DropRules6
<1>5. CASE DropRules4 BY <1>5 DEF DropRules4
<1>6. CASE DropLink BY <1>6 DEF DropLink
<1> QED BY <1>1, <1>2, <1>3, <1>4, <1>5, <1>6

\* The end of cleanup() and of the process
LEMMA InvEnds ==
  ASSUME RuntimeInv, TypeOK', UNCHANGED <<config, tables>>,
         \/ EndFirstCleanup \/ EndRollback \/ EndHandler \/ EndStop \/ Terminal
         \/ Stopped
  PROVE  RuntimeInv'
<1> USE FamiliesTyped, SameConfig DEF RuntimeInv, TypeOK, ControlAt, NetAt, NetIs,
        NotBegun, ProxyAt, StatusAt, CleanupAt, ReadyIsTrue, StatusMatchesExit, TryStep,
        CleanupStep, Running, AfterFilter, AfterRules6, AfterRules4, AfterLink,
        CallCleanup, WriteStatus
<1>1. CASE EndFirstCleanup BY <1>1 DEF EndFirstCleanup
<1>2. CASE EndRollback BY <1>2 DEF EndRollback
<1>3. CASE EndHandler BY <1>3 DEF EndHandler
<1>4. CASE EndStop BY <1>4 DEF EndStop
<1>5. CASE Terminal BY <1>5 DEF Terminal
<1>6. CASE Stopped BY <1>6 DEF Stopped
<1> QED BY <1>1, <1>2, <1>3, <1>4, <1>5, <1>6

\* Signals and the death of sshuttle
LEMMA InvEnvironment ==
  ASSUME RuntimeInv, TypeOK', UNCHANGED <<config, tables>>,
         \/ RequestStop \/ ProxyDies
  PROVE  RuntimeInv'
<1> USE FamiliesTyped, SameConfig DEF RuntimeInv, TypeOK, ControlAt, NetAt, NetIs,
        NotBegun, ProxyAt, StatusAt, CleanupAt, ReadyIsTrue, StatusMatchesExit, TryStep,
        CleanupStep, Running, AfterFilter, AfterRules6, AfterRules4, AfterLink, control
<1>1. CASE RequestStop BY <1>1 DEF RequestStop
<1>2. CASE ProxyDies BY <1>2 DEF ProxyDies
<1> QED BY <1>1, <1>2

\* The firewall manager, beside whatever the process does
LEMMA InvManager ==
  ASSUME RuntimeInv, UNCHANGED config, Manager
  PROVE  RuntimeInv'
<1> USE FamiliesTyped, SameConfig DEF RuntimeInv, TypeOK, ControlAt, NetAt, NetIs,
        NotBegun, ProxyAt, StatusAt, CleanupAt, ReadyIsTrue, StatusMatchesExit, TryStep,
        CleanupStep, Running, control
<1>1. ASSUME NEW v \in {4, 6}, SetupFirewall(v) PROVE RuntimeInv'
  BY <1>1 DEF SetupFirewall
<1>2. ASSUME NEW v \in {4, 6}, SetupFails(v) PROVE RuntimeInv'
  BY <1>2, FaultTyped DEF SetupFails
<1>3. ASSUME NEW v \in {4, 6}, RestoreFirewall(v) PROVE RuntimeInv'
  BY <1>3, FaultTyped DEF RestoreFirewall
<1> QED BY <1>1, <1>2, <1>3 DEF Manager

\* A step that changes nothing keeps the invariant.
LEMMA InvStuttering ==
  ASSUME RuntimeInv, UNCHANGED vars
  PROVE  RuntimeInv'
BY SameConfig DEF RuntimeInv, TypeOK, ControlAt, NetAt, NetIs, NotBegun, ProxyAt, StatusAt,
   CleanupAt, ReadyIsTrue, StatusMatchesExit, vars, control

\* Every step of the gateway, of its children and of the firewall keeps the invariant.
LEMMA RuntimeNext == RuntimeInv /\ [Next]_vars => RuntimeInv'
<1> SUFFICES ASSUME RuntimeInv, [Next]_vars PROVE RuntimeInv'
  OBVIOUS
<1>1. CASE UNCHANGED vars \/ Done
  BY <1>1, InvStuttering DEF Done
<1>2. CASE Manager /\ UNCHANGED config
  BY <1>2, InvManager
<1>3. CASE (Step \/ RequestStop \/ ProxyDies) /\ UNCHANGED <<config, tables>>
  <2>1. TypeOK'
    BY <1>3, TypeCommands, TypeStart, TypeFailures, TypeSupervise, TypeCleanup, TypeEnds,
       TypeEnvironment DEF RuntimeInv, Step, Startup, Supervise, Cleanup
  <2> QED
    BY <1>3, <2>1, InvCommands, InvStart, InvFailures, InvSupervise, InvCleanup, InvEnds,
       InvEnvironment DEF Step, Startup, Supervise, Cleanup
<1> QED BY <1>1, <1>2, <1>3 DEF Next

\* The invariant holds in every reachable state.
LEMMA RuntimeSafe == Spec => []RuntimeInv
BY RuntimeInit, RuntimeNext, PTL DEF Spec

-------------------------------------------------------------------------------
(* What run_gateway promises *)

\* Whatever the configuration and whatever fails, the variables keep the shape
\* that start, supervise and cleanup give them.
THEOREM TypeCorrect == Spec => []TypeOK
<1>1. RuntimeInv => TypeOK
  BY DEF RuntimeInv
<1> QED BY <1>1, RuntimeSafe, PTL

\* Until cleanup() begins, wg0 is up only behind the drop policy, with complete
\* policy routing and the tables of every version or a dead sshuttle.
THEOREM GuardedIngress == Spec => []IngressGuarded
<1>1. RuntimeInv => IngressGuarded
  BY DEF RuntimeInv, TypeOK, NetAt, NetIs, NotBegun, ProxyAt, TryStep, IngressGuarded
<1> QED BY <1>1, RuntimeSafe, PTL

\* "ready" in status.json is true, up to a lost write.
THEOREM ReadinessIsTrue == Spec => []ReadyIsTrue
<1>1. RuntimeInv => ReadyIsTrue
  BY DEF RuntimeInv, StatusAt
<1> QED BY <1>1, RuntimeSafe, PTL

\* status.json and the exit status tell the same story, up to a lost write.
THEOREM ExitMatchesStatus == Spec => []StatusMatchesExit
<1>1. RuntimeInv => StatusMatchesExit
  BY DEF RuntimeInv, StatusAt
<1> QED BY <1>1, RuntimeSafe, PTL

\* After any number of failures cleanup() leaves only objects whose own last
\* removal went wrong.
THEOREM CleanupIndependent == Spec => []IndependentCleanup
<1>1. RuntimeInv => IndependentCleanup
  <2> SUFFICES ASSUME RuntimeInv, exit # Running PROVE IndependentCleanup
    BY DEF IndependentCleanup
  <2>1. pc = "exited"
    BY DEF RuntimeInv, ControlAt
  <2> QED BY <2>1 DEF RuntimeInv, ProxyAt, CleanupAt, CleanupStep, IndependentCleanup,
             AfterFilter, AfterRules6, AfterRules4, AfterLink
<1> QED BY <1>1, RuntimeSafe, PTL

-------------------------------------------------------------------------------
(* Packets *)

\* A captured address has a route, so its version has a table and a rule.
LEMMA RoutedVersion ==
  ASSUME config \in Configs, NEW a, Routed(config, a)
  PROVE  a[1] \in Families
<1>1. ValidConfig(config)
  BY RuntimeAssumption
<1>2. PICK r \in EffectiveRoutes(config) : a \in r.members
  BY DEF Routed
<1>3. r \in Networks
  BY <1>1, <1>2, KnownNetworks
<1>4. a[1] = r.version
  BY <1>2, <1>3, PrefixAssumption
<1> QED BY <1>2, <1>4 DEF Families, Versions

\* For every valid configuration and every packet: a gateway that passes its
\* health check proxies what the configuration declares and what is sent to the
\* port of its listener, and drops all else, also with a stale "ready" in the
\* middle of cleanup().
THEOREM ServesRoutes == Spec => []RoutesServed
<1>1. RuntimeInv => RoutesServed
  <2> SUFFICES ASSUME RuntimeInv, Healthy, NEW p \in Packets
               PROVE  Outcome(p) =
                        IF /\ proxy # "dead" /\ p.protocol \in {"tcp", "udp"} /\ ~Local(p.to)
                           /\ \/ Routed(config, p.to)
                              \/ p.port = "listener" /\ p.to[1] \in Families
                        THEN "proxied" ELSE "dropped"
    BY DEF RoutesServed
  <2>1. config \in Configs /\ ValidConfig(config)
    BY RuntimeAssumption DEF RuntimeInv, TypeOK
  <2>2. proxy \in {"up", "dead"} /\ net.filter /\ net.rules = Families
    BY DEF RuntimeInv, TypeOK, StatusAt, Healthy
  <2>3. Captures(Subnets(config, p.to[1]), p.to) <=> Routed(config, p.to)
    BY <2>1, CaptureIsRouting
  <2>4. Routed(config, p.to) => p.to[1] \in Families
    BY <2>1, RoutedVersion
  <2>5. CASE proxy = "dead"
    BY <2>2, <2>5 DEF Outcome, Marked
  <2>6. CASE proxy = "up"
    <3>1. p.to[1] \in Families => tables[p.to[1]] = "loaded"
      BY <2>1, <2>6, FamiliesTyped DEF RuntimeInv, ProxyAt
    <3>2. p.to[1] \in Families =>
            (Marked(p) <=> /\ ~Local(p.to) /\ p.protocol \in {"tcp", "udp"}
                           /\ p.port = "listener" \/ Routed(config, p.to))
      BY <2>3, <2>6, <3>1 DEF Marked
    <3> QED BY <2>2, <2>4, <2>6, <3>2 DEF Outcome
  <2> QED BY <2>2, <2>5, <2>6
<1> QED BY <1>1, RuntimeSafe, PTL

-------------------------------------------------------------------------------
(* Refinement *)

\* How an attempt looks from outside
Phase == IF exit # Running THEN "over" ELSE IF NotBegun THEN "new"
         ELSE IF pc \in CleanupStep THEN "withdrawn" ELSE "serving"
Outside == <<Phase, status, exit>>

\* The steps of GatewayAttempt, over what is seen
AttemptStep ==
  \/ Phase = "new" /\ status' = "stopping" /\ UNCHANGED <<Phase, exit>>
  \/ Phase = "new" /\ Phase' = "serving" /\ status' = "starting" /\ UNCHANGED exit
  \/ Phase = "new" /\ Phase' = "withdrawn" /\ UNCHANGED <<status, exit>>
  \/ Phase = "serving" /\ status' = "ready" /\ UNCHANGED <<Phase, exit>>
  \/ Phase = "serving" /\ Phase' = "withdrawn" /\ UNCHANGED <<status, exit>>
  \/ Phase = "withdrawn" /\ status' = "stopping" /\ UNCHANGED <<Phase, exit>>
  \/ /\ Phase = "withdrawn" /\ Phase' = "over"
     /\ \/ exit' = "75" /\ status' \in {status, "retrying"}
        \/ exit' = "0" /\ status' \in {status, "stopped"}
        \/ exit' \in {"1", "2"} /\ status' \in {status, "failed"}
  \/ UNCHANGED Outside

\* What AttemptStep allows, the abstract attempt allows.
LEMMA SameAttempt ==
  AttemptStep => [Attempt!Next]_(Attempt!attempt)
BY DEF AttemptStep, Outside, Phase, NotBegun, Attempt!Next, Attempt!attempt, Attempt!Reconcile,
   Attempt!Begin, Attempt!Refuse, Attempt!Ready, Attempt!Withdraw, Attempt!Announce,
   Attempt!End

\* The commands of start(), when they work
LEMMA AttemptCommands ==
  ASSUME RuntimeInv, RuntimeInv',
         \/ ConfigureNamespace \/ RemotePythonCheck \/ CheckFilter \/ InstallFilter
         \/ DeleteStaleLink \/ AddLink \/ ConfigureWireguard \/ SetupPolicyRouting
         \/ ActivateWireguard
  PROVE  AttemptStep
<1> USE DEF RuntimeInv, TypeOK, ControlAt, NotBegun, TryStep, CleanupStep, Running,
        AttemptStep, Phase, Outside, Command, Intended
<1>1. CASE ConfigureNamespace BY <1>1 DEF ConfigureNamespace
<1>2. CASE RemotePythonCheck BY <1>2 DEF RemotePythonCheck
<1>3. CASE CheckFilter BY <1>3 DEF CheckFilter
<1>4. CASE InstallFilter BY <1>4 DEF InstallFilter
<1>5. CASE DeleteStaleLink BY <1>5 DEF DeleteStaleLink
<1>6. CASE AddLink BY <1>6 DEF AddLink
<1>7. CASE ConfigureWireguard BY <1>7 DEF ConfigureWireguard
<1>8. CASE SetupPolicyRouting BY <1>8 DEF SetupPolicyRouting
<1>9. CASE ActivateWireguard BY <1>9 DEF ActivateWireguard
<1> QED BY <1>1, <1>2, <1>3, <1>4, <1>5, <1>6, <1>7, <1>8, <1>9

\* The rest of start()
LEMMA AttemptStart ==
  ASSUME RuntimeInv, RuntimeInv',
         \/ StartCleanup \/ WriteStarting \/ SpawnProxy \/ ProxyReady \/ Verify
         \/ PublishReady
  PROVE  AttemptStep
<1> USE DEF RuntimeInv, TypeOK, ControlAt, NotBegun, TryStep, CleanupStep, Running,
        AttemptStep, Phase, Outside, CallCleanup
<1>1. CASE StartCleanup BY <1>1 DEF StartCleanup
<1>2. CASE WriteStarting BY <1>2 DEF WriteStarting
<1>3. CASE SpawnProxy BY <1>3 DEF SpawnProxy
<1>4. CASE ProxyReady BY <1>4 DEF ProxyReady
<1>5. CASE Verify BY <1>5 DEF Verify
<1>6. CASE PublishReady BY <1>6 DEF PublishReady
<1> QED BY <1>1, <1>2, <1>3, <1>4, <1>5, <1>6

\* Failures of start()
LEMMA AttemptFailures ==
  ASSUME RuntimeInv, RuntimeInv',
         \/ ProxyExitsEarly \/ ProxyTimeout \/ VerifyFails \/ CommandFails
  PROVE  AttemptStep
<1> USE DEF RuntimeInv, TypeOK, ControlAt, NotBegun, TryStep, CleanupStep, Running,
        AttemptStep, Phase, Outside, CallCleanup, Throw, FailureClasses
<1>1. CASE ProxyExitsEarly BY <1>1 DEF ProxyExitsEarly
<1>2. CASE ProxyTimeout BY <1>2 DEF ProxyTimeout
<1>3. CASE VerifyFails BY <1>3 DEF VerifyFails
<1>4. CASE CommandFails BY <1>4 DEF CommandFails
<1> QED BY <1>1, <1>2, <1>3, <1>4

\* supervise()
LEMMA AttemptSupervise ==
  ASSUME RuntimeInv, RuntimeInv',
         \/ SuperviseStop \/ SuperviseProxyGone \/ SupervisePoll \/ Snapshot
  PROVE  AttemptStep
<1> USE DEF RuntimeInv, TypeOK, ControlAt, NotBegun, TryStep, CleanupStep, Running,
        AttemptStep, Phase, Outside, CallCleanup
<1>1. CASE SuperviseStop BY <1>1 DEF SuperviseStop
<1>2. CASE SuperviseProxyGone BY <1>2 DEF SuperviseProxyGone
<1>3. CASE SupervisePoll BY <1>3 DEF SupervisePoll
<1>4. CASE Snapshot BY <1>4 DEF Snapshot
<1> QED BY <1>1, <1>2, <1>3, <1>4

\* The steps of cleanup()
LEMMA AttemptCleanup ==
  ASSUME RuntimeInv, RuntimeInv',
         \/ CleanupStatus \/ StopProxy \/ DropFilter \/ DropRules6 \/ DropRules4
         \/ DropLink
  PROVE  AttemptStep
<1> USE DEF RuntimeInv, TypeOK, ControlAt, NotBegun, TryStep, CleanupStep, Running,
        AttemptStep, Phase, Outside, WriteStatus, Remove
<1>1. CASE CleanupStatus BY <1>1 DEF CleanupStatus
<1>2. CASE StopProxy BY <1>2 DEF StopProxy
<1>3. CASE DropFilter BY <1>3 DEF DropFilter
<1>4. CASE DropRules6 BY <1>4 DEF DropRules6
<1>5. CASE DropRules4 BY <1>5 DEF DropRules4
<1>6. CASE DropLink BY <1>6 DEF DropLink
<1> QED BY <1>1, <1>2, <1>3, <1>4, <1>5, <1>6

\* The end of cleanup() and of the process
LEMMA AttemptEnds ==
  ASSUME RuntimeInv, RuntimeInv',
         \/ EndFirstCleanup \/ EndRollback \/ EndHandler \/ EndStop \/ Terminal
         \/ Stopped
  PROVE  AttemptStep
<1> USE DEF RuntimeInv, TypeOK, ControlAt, NotBegun, TryStep, CleanupStep, Running,
        AttemptStep, Phase, Outside, CallCleanup, WriteStatus
<1>1. CASE EndFirstCleanup BY <1>1 DEF EndFirstCleanup
<1>2. CASE EndRollback BY <1>2 DEF EndRollback
<1>3. CASE EndHandler BY <1>3 DEF EndHandler
<1>4. CASE EndStop BY <1>4 DEF EndStop
<1>5. CASE Terminal BY <1>5 DEF Terminal
<1>6. CASE Stopped BY <1>6 DEF Stopped
<1> QED BY <1>1, <1>2, <1>3, <1>4, <1>5, <1>6

\* Signals and the death of sshuttle
LEMMA AttemptEnvironment ==
  ASSUME RuntimeInv, RuntimeInv',
         \/ RequestStop \/ ProxyDies
  PROVE  AttemptStep
<1> USE DEF RuntimeInv, TypeOK, ControlAt, NotBegun, TryStep, CleanupStep, Running,
        AttemptStep, Phase, Outside, control
<1>1. CASE RequestStop BY <1>1 DEF RequestStop
<1>2. CASE ProxyDies BY <1>2 DEF ProxyDies
<1> QED BY <1>1, <1>2

\* The firewall steps of the sshuttle child, and no step, do not show outside.
LEMMA AttemptManager ==
  ASSUME Manager \/ UNCHANGED vars
  PROVE  AttemptStep
<1>1. UNCHANGED <<pc, after, exit, status>>
  BY DEF Manager, SetupFirewall, SetupFails, RestoreFirewall, control, vars
<1> QED BY <1>1 DEF AttemptStep, Outside, Phase, NotBegun

\* One attempt of the gateway, with all its failures, signals and lost writes,
\* implements GatewayAttempt: readiness, once withdrawn, does not come back, and
\* the last snapshot fits the exit status.
THEOREM Refinement == Spec => ImplementsAttempt
<1>1. Init => Attempt!Init
  BY DEF Init, Attempt!Init, Running
<1>2. RuntimeInv /\ RuntimeInv' /\ [Next]_vars => [Attempt!Next]_(Attempt!attempt)
  <2> SUFFICES ASSUME RuntimeInv, RuntimeInv', [Next]_vars
               PROVE  AttemptStep
    BY SameAttempt
  <2>1. CASE UNCHANGED vars \/ Done \/ Manager
    BY <2>1, AttemptManager DEF Done
  <2>2. CASE Step \/ RequestStop \/ ProxyDies
    BY <2>2, AttemptCommands, AttemptStart, AttemptFailures, AttemptSupervise,
       AttemptCleanup, AttemptEnds, AttemptEnvironment DEF Step, Startup, Supervise, Cleanup
  <2> QED BY <2>1, <2>2 DEF Next
<1> QED BY <1>1, <1>2, RuntimeSafe, PTL DEF Spec, ImplementsAttempt, Attempt!Spec
===============================================================================
