---------------------------- MODULE LifecycleProofs ----------------------------
(***************************************************************************)
(* Proofs about Lifecycle for any number of concurrent commands, edits,    *)
(* key mutations, launches, restarts, interrupts and failing queries.      *)
(***************************************************************************)
EXTENDS Lifecycle, TLAPS

-------------------------------------------------------------------------------
(* The inductive invariant *)

Plans == [launch : 1..MaxLaunches, config : Configs, gen : 1..gen, sockets : Sockets]
Gateways == [phase : {"exec", "loaded", "starting", "ready"}, plan : Plans \cup {Nothing},
             file : Configs, live : BOOLEAN, mounted : BOOLEAN, config : Configs,
             gen : 1..gen, launch : 0..MaxLaunches]
UpCommands ==
  [step : {"uplock", "check", "attach", "remove", "prepare", "launch", "wait",
           "waitunit", "expired"}, config : Configs, launch : 1..MaxLaunches]
DownCommands == [step : {"downlock", "stop", "stopping"}]

\* What TypeOK leaves open
Shapes ==
  /\ manifest = Nothing \/ manifest \in Plans
  /\ gateway = NoGateway \/ gateway \in Gateways
  /\ command \in [Commands -> {Idle} \cup UpCommands \cup DownCommands]
  /\ launches \in 0..MaxLaunches
  /\ mutations \in 0..MaxMutations /\ gen = 1 + mutations

\* The lifecycle lock: who is past its acquisition holds it.
HoldsLock(c) == ~At(c, "idle") /\ ~At(c, "uplock") /\ ~At(c, "downlock") => lock = c

\* The plan on disk is the one the unit was started with.
PlanOfUnit ==
  /\ manifest # Nothing /\ manifest.launch = service.launch
  /\ manifest.sockets = service.sockets

\* What a command knows at each of its steps; only the lock makes it last.
Knows(c) ==
  /\ At(c, "remove") \/ At(c, "prepare") \/ At(c, "launch") =>
       unit \in {"inactive", "deactivating"} \/ misled
  /\ At(c, "stopping") => unit \in {"inactive", "deactivating"}
  /\ At(c, "attach") => misled \/ PlanOfUnit
  /\ At(c, "launch") =>
       /\ manifest # Nothing /\ manifest.launch = command[c].launch
       /\ manifest.sockets = command[c].config.sockets
  /\ (At(c, "wait") \/ At(c, "waitunit")) /\ ~misled =>
       /\ service.launch = command[c].launch
       /\ service.sockets = command[c].config.sockets

\* What a unit that runs or will be restarted finds, unless an up was misled
UnitHas ==
  /\ unit \in {"active", "activating"} /\ ~misled =>
       PlanOfUnit /\ (gateway # NoGateway => gateway.mounted)
  /\ unit = "activating" => attempts < Burst

\* What the gateway was made of
GatewayHas ==
  /\ gateway # NoGateway /\ ~misled =>
       gateway.plan # Nothing /\ gateway.plan.sockets = service.sockets
  /\ StateLocked =>
       /\ gateway.plan \in Plans
       /\ gateway.config.sockets = gateway.plan.sockets
       /\ gateway.launch = gateway.plan.launch
       /\ gateway.gen = gen /\ gateway.plan.gen = gen

Typed == TypeOK /\ Shapes
LifecycleInv ==
  /\ Typed /\ UnitHas /\ GatewayHas
  /\ \A c \in Commands : HoldsLock(c) /\ Knows(c)
-------------------------------------------------------------------------------
(* Type correctness *)

USE DEF files, inputs, systemd, bounds, At, Goto, Finish

\* No command, no unit and no gateway have the right types.
LEMMA TypeInit == Init => Typed
<1> SUFFICES ASSUME Init PROVE Typed
  OBVIOUS
<1>1. misled \in BOOLEAN
  BY Zenon DEF Init
<1>2. config \in Configs
  BY LifecycleAssumption DEF Init
<1> QED BY <1>1, <1>2, LifecycleAssumption DEF Init, Typed, TypeOK, Shapes, Nothing,
           NoGateway, Idle, UnitStates

\* The first steps of up, and the lock
LEMMA TypeUpSteps ==
  ASSUME LifecycleInv, NEW c \in Commands,
         \/ UpBegin(c) \/ Lock(c) \/ LockBusy(c) \/ Check(c) \/ Attach(c) \/ Remove(c)
         \/ SocketTaken(c) \/ Prepare(c) \/ PrepareFails(c) \/ Launch(c)
  PROVE  Typed'
<1> USE LifecycleAssumption DEF LifecycleInv, UnitHas, GatewayHas, Knows, PlanOfUnit,
        Typed, TypeOK, Shapes, Plans, Gateways, UpCommands, DownCommands, Nothing,
        NoGateway, Idle, RemoveFiles, StopUnit, Exits, WriteStatus, Edit, Exec, Matches,
        StateLocked, CanPrepare, StatusSays, HostState, UnitStates, Alive
<1>1. CASE UpBegin(c) BY <1>1 DEF UpBegin
<1>2. CASE Lock(c) BY <1>2 DEF Lock
<1>3. CASE LockBusy(c) BY <1>3 DEF LockBusy
<1>4. CASE Check(c) BY <1>4 DEF Check
<1>5. CASE Attach(c) BY <1>5 DEF Attach
<1>6. CASE Remove(c)
  <2>1. gateway' = NoGateway \/ gateway' \in Gateways'
    BY <1>6 DEF Remove
  <2>2. command' \in [Commands -> {Idle} \cup UpCommands \cup DownCommands]
    BY <1>6 DEF Remove
  <2> QED BY <1>6, <2>1, <2>2 DEF Remove
<1>7. CASE Prepare(c)
  <2>1. command' \in [Commands -> {Idle} \cup UpCommands \cup DownCommands]
    BY <1>7 DEF Prepare
  <2>2. command[c] \in UpCommands
    BY <1>7 DEF Prepare
  <2>3. /\ command[c].launch \in 1..MaxLaunches /\ command[c].config.sockets \in Sockets
        /\ config \in Configs
    BY <2>2 DEF Configs
  <2>4. gen \in 1..gen
    OBVIOUS
  <2>5. manifest' \in Plans
    BY <1>7, <2>3, <2>4 DEF Prepare
  <2> QED BY <1>7, <2>1, <2>5 DEF Prepare
<1>8. CASE PrepareFails(c) BY <1>8 DEF PrepareFails
<1>9. CASE Launch(c)
  <2>1. command' \in [Commands -> {Idle} \cup UpCommands \cup DownCommands]
    BY <1>9 DEF Launch
  <2>2. command[c] \in UpCommands /\ manifest \in Plans
    BY <1>9 DEF Launch
  <2>3. Exec \in Gateways
    BY <2>2
  <2>4. gateway' = NoGateway \/ gateway' \in Gateways
    BY <1>9, <2>3 DEF Launch
  <2>5. misled' \in BOOLEAN
    <3>1. misled \in BOOLEAN
      OBVIOUS
    <3>2. misled' = misled \/ misled' = FALSE
      BY <1>9, Zenon DEF Launch
    <3> QED BY <3>1, <3>2, Zenon
  <2> QED BY <1>9, <2>1, <2>2, <2>4, <2>5 DEF Launch
<1>10. CASE SocketTaken(c) BY <1>10 DEF SocketTaken
<1> QED BY <1>1, <1>2, <1>3, <1>4, <1>5, <1>6, <1>7, <1>8, <1>9, <1>10

\* _wait_for_state, and interrupts
LEMMA TypeWaitSteps ==
  ASSUME LifecycleInv, NEW c \in Commands,
         \/ ReportReady(c) \/ ReportFailed(c) \/ WaitStatus(c) \/ WaitUnit(c)
         \/ WaitTimeout(c) \/ Expire(c) \/ Interrupt(c)
  PROVE  Typed'
<1> USE LifecycleAssumption DEF LifecycleInv, UnitHas, GatewayHas, Knows, PlanOfUnit,
        Typed, TypeOK, Shapes, Plans, Gateways, UpCommands, DownCommands, Nothing,
        NoGateway, Idle, RemoveFiles, StopUnit, Exits, WriteStatus, Edit, Exec, Matches,
        StateLocked, CanPrepare, StatusSays, HostState, UnitStates, Alive
<1>1. CASE ReportReady(c) BY <1>1 DEF ReportReady
<1>2. CASE ReportFailed(c) BY <1>2 DEF ReportFailed
<1>3. CASE WaitStatus(c) BY <1>3 DEF WaitStatus
<1>4. CASE WaitUnit(c) BY <1>4 DEF WaitUnit
<1>5. CASE WaitTimeout(c) BY <1>5 DEF WaitTimeout
<1>6. CASE Expire(c) BY <1>6 DEF Expire
<1>7. CASE Interrupt(c) BY <1>7 DEF Interrupt
<1> QED BY <1>1, <1>2, <1>3, <1>4, <1>5, <1>6, <1>7

\* down
LEMMA TypeDownSteps ==
  ASSUME LifecycleInv, NEW c \in Commands,
         \/ DownBegin(c) \/ DownStop(c) \/ DownRemove(c) \/ DownTimeout(c)
  PROVE  Typed'
<1> USE LifecycleAssumption DEF LifecycleInv, UnitHas, GatewayHas, Knows, PlanOfUnit,
        Typed, TypeOK, Shapes, Plans, Gateways, UpCommands, DownCommands, Nothing,
        NoGateway, Idle, RemoveFiles, StopUnit, Exits, WriteStatus, Edit, Exec, Matches,
        StateLocked, CanPrepare, StatusSays, HostState, UnitStates, Alive
<1>1. CASE DownBegin(c) BY <1>1 DEF DownBegin
<1>2. CASE DownStop(c) BY <1>2 DEF DownStop
<1>3. CASE DownRemove(c) BY <1>3 DEF DownRemove
<1>4. CASE DownTimeout(c) BY <1>4 DEF DownTimeout
<1> QED BY <1>1, <1>2, <1>3, <1>4

\* The unit and the gateway
LEMMA TypeUnitSteps ==
  ASSUME LifecycleInv,
         \/ GatewayLoad \/ GatewayValidate \/ GatewayStarting \/ GatewayReady
         \/ GatewayRetries \/ UnitRestart \/ GatewayFails \/ GatewayDies \/ GatewayStops
  PROVE  Typed'
<1> USE LifecycleAssumption DEF LifecycleInv, UnitHas, GatewayHas, Knows, PlanOfUnit,
        Typed, TypeOK, Shapes, Plans, Gateways, UpCommands, DownCommands, Nothing,
        NoGateway, Idle, RemoveFiles, StopUnit, Exits, WriteStatus, Edit, Exec, Matches,
        StateLocked, CanPrepare, StatusSays, HostState, UnitStates, Alive
<1>1. CASE GatewayLoad
  <2>1. gateway \in Gateways
    BY <1>1 DEF GatewayLoad
  <2>2. gateway' \in Gateways
    BY <1>1, <2>1 DEF GatewayLoad
  <2> QED BY <1>1, <2>2 DEF GatewayLoad
<1>2. CASE GatewayValidate
  <2>1. gateway \in Gateways
    BY <1>2 DEF GatewayValidate
  <2>2. gen \in 1..gen /\ gateway.plan.launch \in 0..MaxLaunches
    BY <2>1
  <2>3. [gateway EXCEPT !.phase = "starting", !.gen = gen, !.launch = gateway.plan.launch,
                        !.live = FALSE] \in Gateways
    BY <2>1, <2>2
  <2>4. gateway' = NoGateway \/ gateway' \in Gateways
    BY <1>2, <2>3 DEF GatewayValidate
  <2> QED BY <1>2, <2>4 DEF GatewayValidate
<1>3. CASE GatewayStarting BY <1>3 DEF GatewayStarting
<1>4. CASE GatewayReady BY <1>4 DEF GatewayReady
<1>5. CASE GatewayRetries BY <1>5 DEF GatewayRetries
<1>6. CASE UnitRestart BY <1>6 DEF UnitRestart
<1>7. CASE GatewayFails BY <1>7 DEF GatewayFails
<1>8. CASE GatewayDies BY <1>8 DEF GatewayDies
<1>9. CASE GatewayStops BY <1>9 DEF GatewayStops
<1> QED BY <1>1, <1>2, <1>3, <1>4, <1>5, <1>6, <1>7, <1>8, <1>9

\* The user
LEMMA TypeUserSteps ==
  ASSUME LifecycleInv,
         \/ EditInPlace \/ EditByRename \/ MutateKeys
  PROVE  Typed'
<1> USE LifecycleAssumption DEF LifecycleInv, UnitHas, GatewayHas, Knows, PlanOfUnit,
        Typed, TypeOK, Shapes, Plans, Gateways, UpCommands, DownCommands, Nothing,
        NoGateway, Idle, RemoveFiles, StopUnit, Exits, WriteStatus, Edit, Exec, Matches,
        StateLocked, CanPrepare, StatusSays, HostState, UnitStates, Alive
<1>1. CASE EditInPlace BY <1>1 DEF EditInPlace
<1>2. CASE EditByRename
  <2>1. gateway' = NoGateway \/ gateway' \in Gateways
    <3>1. CASE gateway = NoGateway
      BY <1>2, <3>1 DEF EditByRename
    <3>2. CASE gateway # NoGateway
      <4>1. gateway \in Gateways
        BY <3>2
      <4> QED BY <1>2, <3>2, <4>1 DEF EditByRename
    <3> QED BY <3>1, <3>2
  <2>2. /\ gen' = gen /\ config' \in Configs
        /\ UNCHANGED <<rendered, manifest, status, unit, service, attempts, lock, command,
                       misled, launches, mutations>>
    BY <1>2 DEF EditByRename
  <2> QED BY <2>1, <2>2
<1>3. CASE MutateKeys BY <1>3 DEF MutateKeys
<1> QED BY <1>1, <1>2, <1>3

-------------------------------------------------------------------------------
(* The inductive invariant is preserved *)

\* The first steps of up, and the lock
LEMMA InvUpSteps ==
  ASSUME LifecycleInv, Typed', NEW c \in Commands,
         \/ UpBegin(c) \/ Lock(c) \/ LockBusy(c) \/ Check(c) \/ Attach(c) \/ Remove(c)
         \/ SocketTaken(c) \/ Prepare(c) \/ PrepareFails(c) \/ Launch(c)
  PROVE  LifecycleInv'
<1> USE LifecycleAssumption DEF LifecycleInv, UnitHas, GatewayHas, HoldsLock, Knows,
        PlanOfUnit, Typed, TypeOK, Shapes, Plans, Gateways, UpCommands, DownCommands,
        Nothing, NoGateway, Idle, RemoveFiles, StopUnit, Exits, WriteStatus, Edit, Exec,
        Matches, StateLocked, CanPrepare, StatusSays, HostState, UnitStates, Alive
<1>1. CASE UpBegin(c) BY <1>1 DEF UpBegin
<1>2. CASE Lock(c) BY <1>2 DEF Lock
<1>3. CASE LockBusy(c) BY <1>3 DEF LockBusy
<1>4. CASE Check(c)
  <2>1. /\ lock = c /\ command[c] \in UpCommands
        /\ UNCHANGED <<inputs, files, systemd, gateway, lock, bounds>>
    BY <1>4 DEF Check
  <2>2. misled => misled'
    BY <1>4, Zenon DEF Check
  <2>3. \/ command' = [command EXCEPT ![c].step = "remove"]
           /\ (unit \in {"active", "activating"} => misled')
        \/ /\ command' = [command EXCEPT ![c].step = "attach"]
           /\ unit \in {"active", "activating"}
    BY <1>4 DEF Check
  <2>4. UnitHas' /\ GatewayHas'
    BY <2>1, <2>2
  <2>5. ASSUME NEW d \in Commands PROVE HoldsLock(d)' /\ Knows(d)'
    <3>1. CASE d = c
      BY <2>1, <2>2, <2>3, <3>1
    <3>2. CASE d # c
      BY <2>1, <2>2, <2>3, <3>2
    <3> QED BY <3>1, <3>2
  <2> QED BY <2>4, <2>5
<1>5. CASE Attach(c) BY <1>5 DEF Attach
<1>6. CASE Remove(c)
  <2>1. lock = c /\ (unit \in {"inactive", "deactivating"} \/ misled)
    BY <1>6 DEF Remove
  <2>2. gateway' # NoGateway =>
          /\ gateway # NoGateway /\ gateway'.plan = gateway.plan
          /\ gateway'.phase = gateway.phase /\ gateway'.config = gateway.config
          /\ gateway'.launch = gateway.launch /\ gateway'.gen = gateway.gen
    BY <1>6 DEF Remove
  <2>3. gateway' = NoGateway => gateway = NoGateway
    BY <1>6 DEF Remove
  <2>4. /\ \A d \in Commands \ {c} : command'[d] = command[d]
        /\ command'[c].step = "prepare"
    BY <1>6 DEF Remove
  <2>5. UnitHas' /\ GatewayHas'
    BY <1>6, <2>1, <2>2, <2>3 DEF Remove
  <2>6. ASSUME NEW d \in Commands PROVE HoldsLock(d)' /\ Knows(d)'
    BY <1>6, <2>1, <2>4 DEF Remove
  <2> QED BY <2>5, <2>6
<1>7. CASE Prepare(c) BY <1>7 DEF Prepare
<1>8. CASE PrepareFails(c) BY <1>8 DEF PrepareFails
<1>9. CASE Launch(c) BY <1>9 DEF Launch
<1>10. CASE SocketTaken(c) BY <1>10 DEF SocketTaken
<1> QED BY <1>1, <1>2, <1>3, <1>4, <1>5, <1>6, <1>7, <1>8, <1>9, <1>10

\* _wait_for_state, and interrupts
LEMMA InvWaitSteps ==
  ASSUME LifecycleInv, Typed', NEW c \in Commands,
         \/ ReportReady(c) \/ ReportFailed(c) \/ WaitStatus(c) \/ WaitUnit(c)
         \/ WaitTimeout(c) \/ Expire(c) \/ Interrupt(c)
  PROVE  LifecycleInv'
<1> USE LifecycleAssumption DEF LifecycleInv, UnitHas, GatewayHas, HoldsLock, Knows,
        PlanOfUnit, Typed, TypeOK, Shapes, Plans, Gateways, UpCommands, DownCommands,
        Nothing, NoGateway, Idle, RemoveFiles, StopUnit, Exits, WriteStatus, Edit, Exec,
        Matches, StateLocked, CanPrepare, StatusSays, HostState, UnitStates, Alive
<1>1. CASE ReportReady(c) BY <1>1 DEF ReportReady
<1>2. CASE ReportFailed(c) BY <1>2 DEF ReportFailed
<1>3. CASE WaitStatus(c) BY <1>3 DEF WaitStatus
<1>4. CASE WaitUnit(c) BY <1>4 DEF WaitUnit
<1>5. CASE WaitTimeout(c) BY <1>5 DEF WaitTimeout
<1>6. CASE Expire(c) BY <1>6 DEF Expire
<1>7. CASE Interrupt(c) BY <1>7 DEF Interrupt
<1> QED BY <1>1, <1>2, <1>3, <1>4, <1>5, <1>6, <1>7

\* down
LEMMA InvDownSteps ==
  ASSUME LifecycleInv, Typed', NEW c \in Commands,
         \/ DownBegin(c) \/ DownStop(c) \/ DownRemove(c) \/ DownTimeout(c)
  PROVE  LifecycleInv'
<1> USE LifecycleAssumption DEF LifecycleInv, UnitHas, GatewayHas, HoldsLock, Knows,
        PlanOfUnit, Typed, TypeOK, Shapes, Plans, Gateways, UpCommands, DownCommands,
        Nothing, NoGateway, Idle, RemoveFiles, StopUnit, Exits, WriteStatus, Edit, Exec,
        Matches, StateLocked, CanPrepare, StatusSays, HostState, UnitStates, Alive
<1>1. CASE DownBegin(c) BY <1>1 DEF DownBegin
<1>2. CASE DownStop(c) BY <1>2 DEF DownStop
<1>3. CASE DownRemove(c)
  <2>1. lock = c /\ unit \in {"inactive", "deactivating"}
    BY <1>3 DEF DownRemove
  <2>2. gateway' # NoGateway =>
          /\ gateway # NoGateway /\ gateway'.plan = gateway.plan
          /\ gateway'.phase = gateway.phase /\ gateway'.config = gateway.config
          /\ gateway'.launch = gateway.launch /\ gateway'.gen = gateway.gen
    BY <1>3 DEF DownRemove
  <2>3. gateway' = NoGateway => gateway = NoGateway
    BY <1>3 DEF DownRemove
  <2>4. /\ \A d \in Commands \ {c} : command'[d] = command[d]
        /\ command'[c].step = "idle"
    BY <1>3 DEF DownRemove
  <2>5. UnitHas' /\ GatewayHas'
    BY <1>3, <2>1, <2>2, <2>3 DEF DownRemove
  <2>6. ASSUME NEW d \in Commands PROVE HoldsLock(d)' /\ Knows(d)'
    BY <1>3, <2>1, <2>4 DEF DownRemove
  <2> QED BY <2>5, <2>6
<1>4. CASE DownTimeout(c) BY <1>4 DEF DownTimeout
<1> QED BY <1>1, <1>2, <1>3, <1>4

\* The unit and the gateway
LEMMA InvUnitSteps ==
  ASSUME LifecycleInv, Typed',
         \/ GatewayLoad \/ GatewayValidate \/ GatewayStarting \/ GatewayReady
         \/ GatewayRetries \/ UnitRestart \/ GatewayFails \/ GatewayDies \/ GatewayStops
  PROVE  LifecycleInv'
<1> USE LifecycleAssumption DEF LifecycleInv, UnitHas, GatewayHas, HoldsLock, Knows,
        PlanOfUnit, Typed, TypeOK, Shapes, Plans, Gateways, UpCommands, DownCommands,
        Nothing, NoGateway, Idle, RemoveFiles, StopUnit, Exits, WriteStatus, Edit, Exec,
        Matches, StateLocked, CanPrepare, StatusSays, HostState, UnitStates, Alive
<1>1. CASE GatewayLoad BY <1>1 DEF GatewayLoad
<1>2. CASE GatewayValidate
  <2>1. gateway \in Gateways
    BY <1>2 DEF GatewayValidate
  <2>2. \A c \in Commands : HoldsLock(c)' /\ Knows(c)'
    BY <1>2 DEF GatewayValidate
  <2>3. CASE Matches(gateway.plan, gateway.config, gateway.file)
    <3>0. gateway' = [gateway EXCEPT !.phase = "starting", !.gen = gen,
                                     !.launch = gateway.plan.launch, !.live = FALSE]
      BY <1>2, <2>3 DEF GatewayValidate
    <3>1. /\ gateway'.phase = "starting" /\ gateway'.gen = gen
          /\ gateway'.launch = gateway.plan.launch /\ gateway'.plan = gateway.plan
          /\ gateway'.config = gateway.config /\ gateway'.mounted = gateway.mounted
      BY <2>1, <3>0
    <3>2. /\ gateway.plan.gen = gen /\ gateway.plan.sockets = gateway.config.sockets
          /\ gateway.plan \in Plans
      BY <2>1, <2>3
    <3>3. UNCHANGED <<gen, systemd, manifest, misled>> /\ gateway # NoGateway
      BY <1>2, <2>1, <2>3 DEF GatewayValidate
    <3> QED BY <2>2, <3>1, <3>2, <3>3
  <2>4. CASE ~Matches(gateway.plan, gateway.config, gateway.file)
    BY <1>2, <2>2, <2>4 DEF GatewayValidate
  <2> QED BY <2>3, <2>4
<1>3. CASE GatewayStarting BY <1>3 DEF GatewayStarting
<1>4. CASE GatewayReady BY <1>4 DEF GatewayReady
<1>5. CASE GatewayRetries BY <1>5 DEF GatewayRetries
<1>6. CASE UnitRestart BY <1>6 DEF UnitRestart
<1>7. CASE GatewayFails BY <1>7 DEF GatewayFails
<1>8. CASE GatewayDies BY <1>8 DEF GatewayDies
<1>9. CASE GatewayStops BY <1>9 DEF GatewayStops
<1> QED BY <1>1, <1>2, <1>3, <1>4, <1>5, <1>6, <1>7, <1>8, <1>9

\* The user
LEMMA InvUserSteps ==
  ASSUME LifecycleInv, Typed',
         \/ EditInPlace \/ EditByRename \/ MutateKeys
  PROVE  LifecycleInv'
<1> USE LifecycleAssumption DEF LifecycleInv, UnitHas, GatewayHas, HoldsLock, Knows,
        PlanOfUnit, Typed, TypeOK, Shapes, Plans, Gateways, UpCommands, DownCommands,
        Nothing, NoGateway, Idle, RemoveFiles, StopUnit, Exits, WriteStatus, Edit, Exec,
        Matches, StateLocked, CanPrepare, StatusSays, HostState, UnitStates, Alive
<1>1. CASE EditInPlace BY <1>1 DEF EditInPlace
<1>2. CASE EditByRename
  <2>1. UNCHANGED <<gen, rendered, manifest, status, unit, service, attempts, lock, command,
                    misled>>
    BY <1>2 DEF EditByRename
  <2>2. CASE gateway = NoGateway
    BY <1>2, <2>1, <2>2 DEF EditByRename
  <2>3. CASE gateway # NoGateway
    <3>1. gateway \in Gateways
      BY <2>3
    <3>2. gateway' = [gateway EXCEPT !.live = FALSE]
      BY <1>2, <2>3 DEF EditByRename
    <3>3. /\ gateway' # NoGateway /\ gateway'.plan = gateway.plan
          /\ gateway'.phase = gateway.phase /\ gateway'.config = gateway.config
          /\ gateway'.launch = gateway.launch /\ gateway'.gen = gateway.gen
          /\ gateway'.mounted = gateway.mounted
      BY <3>1, <3>2
    <3>4. UnitHas'
      BY <2>1, <2>3, <3>3
    <3>5. GatewayHas'
      BY <2>1, <2>3, <3>3
    <3>6. \A c \in Commands : HoldsLock(c)' /\ Knows(c)'
      BY <2>1
    <3> QED BY <3>4, <3>5, <3>6
  <2> QED BY <2>2, <2>3
<1>3. CASE MutateKeys BY <1>3 DEF MutateKeys
<1> QED BY <1>1, <1>2, <1>3

\* The invariant holds before the first command.
LEMMA InvInit == Init => LifecycleInv
BY TypeInit DEF Init, LifecycleInv, UnitHas, GatewayHas, HoldsLock, Knows, StateLocked,
   NoGateway, Idle

\* A step that changes nothing keeps the invariant.
LEMMA InvStuttering == LifecycleInv /\ UNCHANGED vars => LifecycleInv'
<1> SUFFICES ASSUME LifecycleInv, UNCHANGED vars PROVE LifecycleInv'
  OBVIOUS
<1>1. Typed'
  BY DEF LifecycleInv, Typed, TypeOK, Shapes, Plans, Gateways, vars
<1> QED BY <1>1 DEF LifecycleInv, UnitHas, GatewayHas, HoldsLock, Knows, PlanOfUnit,
                    StateLocked, Plans, vars

\* Every step of a command, of systemd and of a gateway keeps the invariant.
LEMMA InvNext == LifecycleInv /\ [Next]_vars => LifecycleInv'
<1> SUFFICES ASSUME LifecycleInv, Next PROVE LifecycleInv'
  BY InvStuttering
<1>1. Typed'
  BY TypeUpSteps, TypeWaitSteps, TypeDownSteps, TypeUnitSteps, TypeUserSteps
     DEF Next, UpStep, DownStep, UnitStep
<1> QED
  BY <1>1, InvUpSteps, InvWaitSteps, InvDownSteps, InvUnitSteps, InvUserSteps
     DEF Next, UpStep, DownStep, UnitStep

\* The invariant holds in every reachable state.
LEMMA LifecycleSafe == Spec => []LifecycleInv
BY InvInit, InvNext, PTL DEF Spec

-------------------------------------------------------------------------------
(* What up, down and the unit promise *)

\* Files, unit, gateway and lock keep the shape that the host commands and the
\* gateway give them, however many of them run.
THEOREM TypeCorrect == Spec => []TypeOK
<1>1. LifecycleInv => TypeOK
  BY DEF LifecycleInv, Typed
<1> QED BY <1>1, LifecycleSafe, PTL

\* The gateway serves with the sockets that claims and pasta were set up for,
\* however config.yaml is edited between and during the reads of it, unless a
\* failing query misled an up about this run of the unit.
THEOREM ClaimedSocketsServed == Spec => []ServesClaimedSockets
<1>1. LifecycleInv => ServesClaimedSockets
  <2> SUFFICES ASSUME LifecycleInv, StateLocked, ~misled
               PROVE  gateway.config.sockets = service.sockets
    BY DEF ServesClaimedSockets
  <2>1. gateway # NoGateway
    BY DEF StateLocked, NoGateway
  <2> QED BY <2>1 DEF LifecycleInv, GatewayHas
<1> QED BY <1>1, LifecycleSafe, PTL

\* The keys of a launch plan are those of the gateway that serves by it, and no
\* key command changes them meanwhile, whatever the queries of the unit say.
THEOREM PinnedKeys == Spec => []KeysPinned
<1>1. LifecycleInv => KeysPinned
  BY DEF LifecycleInv, GatewayHas, KeysPinned
<1> QED BY <1>1, LifecycleSafe, PTL

\* No interleaving of up and down, interrupted anywhere, takes launch.json or
\* the output directory from a unit that runs or will be restarted, as long as
\* the queries of its state do not fail.
THEOREM FilesOfUnit == Spec => []FilesBelongToUnit
<1>1. LifecycleInv => FilesBelongToUnit
  BY DEF LifecycleInv, UnitHas, PlanOfUnit, FilesBelongToUnit
<1> QED BY <1>1, LifecycleSafe, PTL

\* An up that reports readiness reports it of the unit that was launched with
\* its identifier and its sockets, unless an up was misled about this unit.
THEOREM ReportsAsAsked == Spec => ReportedAsAsked
<1>1. LifecycleInv /\ [Next]_vars =>
        [\A c \in Commands : ReportReady(c) /\ ~misled =>
           /\ service.launch = command[c].launch
           /\ service.sockets = command[c].config.sockets]_vars
  BY DEF LifecycleInv, Knows, ReportReady
<1> QED BY <1>1, LifecycleSafe, PTL DEF Spec, ReportedAsAsked
===============================================================================
