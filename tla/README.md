# shuttle-gate in TLA+

This directory holds TLA+ models of shuttle-gate, the TLC configurations that
check them on small instances, and TLAPS proofs of the safety properties of
every module for all values of its constants. shuttle-gate runs a WireGuard
gateway in a rootless network namespace and forwards the peers' traffic through
sshuttle over SSH.

## The system

| Component | State it keeps | Operations | What makes it correct |
|---|---|---|---|
| Persistent state store (`state.py`) | `state/generations/*`, `state/current`, the legacy directories, receipts, `.state.lock` | `mutate_state`, `locked_state_view`, `read_state` | a usable pointer at every instant, exactly one effect per operation ID, nothing acknowledged is lost, readers keep their generation |
| SSH identity (`keys.py` 450-836) | the key pair, staged files, backups, a journal, a receipt | `generate_ssh_key`, `recover_ssh_key_transaction` | the pair changes as one, recovery gets through from every crash, one key per operation ID |
| WireGuard keys, phone configurations (`keys.py` 1-449, `render.py`) | the content of a generation | generate, rotate, render, `require_current_phone_configs` | peer-scoped changes, a phone configuration is current or is reported as stale |
| Gateway runtime (`runtime.py`) | namespace objects (drop policy, policy routes, `wg0`), the sshuttle process, `status.json` | `start`, `supervise`, `cleanup`, `request_stop` | no ingress without drop policy, a true status, complete cleanup, termination |
| Socket claims (`claim.py`, `host.py` 565-620, 836-855) | one lock file per host UDP socket | probe, claim, run the child, release | no two supervised gateways on one socket, no claim left behind |
| Host lifecycle (`host.py`, `launch.py`) | lifecycle lock, `launch.json`, runtime directories, the systemd unit | `up`, `down` | files belong to the running unit, the gateway runs what was validated, commands end |
| nftables adapter (`nft_tproxy.py`, `sshuttle_entry.py`) | one TPROXY table per IP version | `setup_firewall`, `restore_firewall` | the declared routes are captured, and beside them only what is sent to the listener, while `wg0` is up |
| Configuration (`config.py`) | none | parse and validate | what passes can be served: DNS reaches sshuttle, multicast never does |
| Runner, files, errors, CLI | none of their own | command execution, atomic writes, output | see the components that use them |

The interactions: `up` holds the lifecycle lock, parses the configuration,
takes the state lock to publish a launch manifest and starts a transient
systemd unit. The unit runs the claim supervisor, which runs pasta, bubblewrap
and `run_gateway`. The gateway validates the manifest under the shared state
lock and keeps that lock while it serves; key commands take it exclusively and
without waiting. Host and gateway talk through `status.json` and the exit
status: 75 makes systemd restart the unit, up to its start limit.

What is hard: crashes and power losses between any two effects on the disk,
retries of operations with an unknown outcome, commands that fail with their
effect done, three readings of one configuration file, stop signals and child
deaths at any moment, and several instances that contend for sockets.
`PROJECT.json` lists these hazards at their lines.

## Modules

| Module | Models | Composes |
|---|---|---|
| `StateContent` | what a generation contains: the operations applied, their receipts, migrated keys | |
| `AtomicStore` | abstract: a value that changes by whole mutations, with a stable copy | `StateContent` |
| `StateStore` | `mutate_state` and readers, effect by effect, on a disk with a volatile and a durable image | `StateContent`; implements `AtomicStore` |
| `StateStoreProofs` | theorems about `StateStore` | `StateStore` |
| `AtomicKeyPair` | abstract: a key pair that changes as one | |
| `SshKeyTransaction` | the journalled replacement of the SSH key pair | implements `AtomicKeyPair` |
| `SshKeyTransactionProofs` | theorems about `SshKeyTransaction` | `SshKeyTransaction` |
| `Keys` | the key commands, phone configurations, the launch plan, the gateway that loads them and the phones that import them | on the promise of `AtomicStore` |
| `KeysProofs` | theorems about `Keys` | `Keys` |
| `PacketPolicy` | configuration rules, sshuttle's subnets and the order of the TPROXY rules, as operators | |
| `PacketPolicyProofs` | theorems about `PacketPolicy` | `PacketPolicy` |
| `GatewayAttempt` | abstract: what the host sees of one attempt | |
| `GatewayRuntime` | one attempt of the gateway process with sshuttle's firewall manager | `PacketPolicy`; implements `GatewayAttempt` |
| `GatewayRuntimeProofs` | theorems about `GatewayRuntime` | `GatewayRuntime`, `PacketPolicyProofs` |
| `SocketClaims` | supervisors of several instances | |
| `SocketClaimsProofs` | theorems about `SocketClaims` | `SocketClaims` |
| `Lifecycle` | `up`, `down`, manifest, unit and phases of the gateway for one instance | abstracts `GatewayRuntime` |
| `LifecycleProofs` | theorems about `Lifecycle` | `Lifecycle` |
| `MCStateStore`, `MCSshKeyTransaction`, `MCKeys`, `MCGatewayRuntime`, `MCLifecycle` | instances for TLC: symmetry sets, filesystems, configurations | |

Operators whose comment begins with "Mutant" are faulty variants of the
definition that follows them. No specification uses them; they document which
mistake each property would catch.

### State and code

* **StateStore.** `gen[g]` is the condition of a generation directory (absent,
  staging, staged, final, torn), `data[g]` its content, `current` the symlink,
  `legacy` the old layout; `genD`, `currentD`, `legacyD` are what the disk
  holds. `pc[w]` follows `mutate_state` line by line, one action per effect.
  `Fail` is an exception with its handler, `Kill` a process that stops without,
  `PowerLoss` the return to the durable image. Removal with `rmtree` is two
  steps, so a crash can leave a torn directory. What a mutator writes is the
  set of operations done; the files themselves belong to `Keys`.
* **Filesystem.** `fsync` of a directory makes its entries durable. With
  `Ordered = TRUE` that makes everything durable that was changed before it, as
  journalling filesystems do for metadata; with `Ordered = FALSE` exactly the
  synced directory, and `Writeback` may write any other part at any time. In
  `SshKeyTransaction` the kind of filesystem and the faults that happen on it
  are chosen in the initial state (`fs`), and the parts that are written on
  their own are the secrets directory, the receipts in `state/operations` and
  the entry of that directory in `state/` (`listed`). The first receipt creates
  the directory, and `atomic_write_bytes` syncs the directory but not the entry,
  so `SyncReceipts` leaves `listed` alone and `Survivors` is what a power loss
  leaves of the receipts. `fs.operations` says whether the entry was on the disk
  from before. The entries of `state/` and `secrets/` themselves are taken to be.
* **SshKeyTransaction.** `file` maps the two keys, their staged files and
  backups to the key they belong to; `journal` and `receipt` are the two JSON
  files. The steps are the renames, syncs and unlinks in their order, first for
  the public and then for the private key.
* **Keys.** `store` is the published generation: key files, phone
  configurations with their fingerprints, and receipts. `Publish` is
  `mutate_state` from the lock to the publication, with the mutator and the
  validator of the command (`Mutated`, `Valid`); that this may be one step is
  what `StateStore` shows. The parsed configuration is older than that step,
  and `phone-config` reads back in a step of its own (`HandOut`). A launch is
  three steps: `Prepare` is the section of `up` under the exclusive lock, with the
  configuration that `up` parsed before; `Load` the gateway's own parse of the
  mounted file, without a lock; `Serve` the validation of the plan under the
  shared lock and `wg setconf`. The gateway does not check phone configurations.
  `plan.checked` remembers which configuration they were checked against; the
  rest of `plan` is in `launch.json`. The comparison of sockets is in
  `Lifecycle`. A restart goes through `Load` and `Serve` again. A key is named
  after its owner and the generation it was made in. `Settings` stands for
  endpoint, port, routes and DNS, which are rendered and fingerprinted alike.
* **PacketPolicy.** A network is its version, prefix length and set of
  addresses; `PrefixAssumption` says how prefixes nest. `Captures` is the first
  match over the rules as `_subnet_weight` sorts them. `Routed` says the same
  without an order: in a declared route, and in no excluded network that is part
  of it. It follows the code where the documentation says less (see Findings).
* **GatewayRuntime.** `pc` is the place in `start`, `supervise` or `cleanup`,
  `after` the caller of `cleanup`, `net` the namespace. Every command of the
  try block may fail (`CommandFails`) before or after its effect, and every
  removal in `cleanup` may fail with or without being noticed. `tables` are the
  TPROXY tables, which sshuttle's firewall manager (external) loads one by one
  before sshuttle reports ready and removes when it finds sshuttle gone.
  A packet has an address, a protocol and a port, which is that of sshuttle's
  listener or another one. `Marked` is the prerouting chain in its order: local
  addresses are left alone, then `socket transparent` marks what has a
  transparent socket, then come the subnets. sshuttle binds its listener to the
  wildcard address, and the rule does not say `socket wildcard 0`, so the
  listener is the socket of every address at its port.
  `Outcome` is what the namespace makes of a packet from `wg0`: "proxied" is
  marked and routed to the listener (that the kernel may still refuse multicast
  there is left out); without the drop
  policy it is "unfiltered", whatever the kernel does then. `Healthy` is the
  health check, taken as one step; a sshuttle that died keeps its pid until it
  is waited for.
* **SocketClaims.** `lock[s]` is the supervisor that holds the lock file of a
  socket, `child` the instances whose sockets are bound. A stop reaches
  supervisor and child at once (`KillMode=control-group`).
* **Lifecycle.** `command[c]` is a running `up` or `down` with the
  configuration it parsed; `service` is what the unit was started with;
  `gateway` the process with what its sandbox has mounted: `config.yaml` and
  `launch.json` are mounted as files, so an edit in place is seen and a replaced
  file is not. A configuration has three parts: the sockets, what the phones'
  fingerprints cover, and the rest, which the digest covers. `rendered` is what
  the phone configurations were made for; a mutation may set it to anything,
  since a command may hold an older configuration and `ssh-key generate` renders
  nothing. `HostState` is `_host_state`: a `systemctl show` that fails reads
  "inactive", at the check of `up`, in its wait loop and in `down`. `misled` is a
  history variable: an `up` took an active or activating unit for stopped, since
  that unit was started. A generation number stands for the state generation and
  the SSH identity. The application source does not change. `systemd-run` is one
  step.

## Runs

| Run | Shows |
|---|---|
| `state_store` | safety, refinement and retries of the store with failures, kills and power losses, ordered metadata |
| `state_store_unordered` | the pointer and the refinement (which carries the promises to callers with it) under power losses with unordered metadata, two kinds of operations: the `fsync` calls are enough |
| `state_store_kill_then_power` | finding: a kill and a power loss leave a dangling pointer |
| `ssh_key` | safety, refinement and recovery of the key replacement, with every fault on ordered metadata and, once `state/operations` is on the disk, power losses on unordered metadata |
| `ssh_key_stop_then_power` | finding: a stop and a power loss make an operation rotate twice |
| `keys` | phone files agree with their keys, a gateway that parsed what `up` checked accepts what is published, phones keep working |
| `gateway_runtime` | ingress, served packets, status, cleanup and termination of one attempt; refinement of `GatewayAttempt` |
| `gateway_ingress_window` | finding: the drop policy goes before `wg0` |
| `socket_claims` | exclusion of sockets, no leaked claims, contenders do not all lose |
| `socket_claims_stop` | finding: a stop frees the claims before the child ends |
| `lifecycle` | up and down against restarts, failing queries of the unit, edits, key mutations, interrupts; commands end |
| `lifecycle_stale_config` | finding: startup with phone configurations that were checked against another configuration |

### Bounds

* Store: two writers and a reader (two writers meet only through what the first
  leaves on the disk and through the lock), three generations (active, next, and
  one left over), one operation ID and requests without ID, two faults: the
  findings need two. The unordered run requests the ID under two kinds.
* SSH key: three keys (the original and two rotations leave one spare), two
  operation IDs, three faults, so that a recovery is itself interrupted.
* Keys: two commands, so that one can hold an older configuration; two peers
  and two addresses, so that peers can be added, dropped and can swap their
  addresses; three generations (a rotation, a rotation by the other command and
  a retry), one ID, one edit, in place or by replacement, which can come between
  any two readings of the file (600,000 states). An edit that is taken back is
  left to the theorems.
* Gateway: three failing commands, so that a failing startup, a failing rollback
  and a failing cleanup can come together. Addresses of four and three bits are
  enough for a gateway network, a multicast network, the limited broadcast
  address, an uplink address and routes that are equal to, inside and around
  each of them. The three configurations are full routing of both versions,
  gateways of both versions with routes of one, and IPv4 alone; all others are
  the business of the theorems.
* Claims: three instances over all subsets of two sockets, so that two losers
  can stand in the way of a third; one restart each and one stop.
* Lifecycle: two concurrent commands, two `up` in all and any number of `down`,
  one edit in place or by replacement, one mutation, one interrupt, a start limit
  of two, any query failing (270,000 states). In `lifecycle` all configurations
  have the same phone part: none of its properties looks at that part, and a
  `Prepare` that fails for it ends like an interrupted one;
  `lifecycle_stale_config` has two. The configuration to begin with is
  fixed (`OneConfig`), as the values of each part are interchangeable.

Symmetry is used only in runs without liveness properties. Deadlock is checked
in every run.

### Fairness

* `StateStore`: `mutate_state` never waits after it got the lock, so `Advance`
  is weakly fair; the kernel writes back; a reader lets go of the lock (a
  gateway when it is stopped); the caller repeats its request, and
  since the lock is taken without waiting, only strong fairness of `Begin` says
  that one of the attempts meets a free lock.
* `SshKeyTransaction`: `Running`, as `Advance` above, and every command that needs the key
  begins with recovery.
* `GatewayRuntime`: every wait has a timeout (runner, readiness, process stop),
  so the process keeps moving. Signals, deaths and the firewall manager are not
  fair.
* `Keys`: no liveness is stated, since every command may be refused.
* `SocketClaims`: a supervisor never waits for a lock. Nothing is assumed of
  `up`, of the child or of stops.
* `Lifecycle`: commands move on, the loops of `_wait_for_state` and `_down` have
  deadlines, and systemd carries a stop through (`TimeoutStopSec`). Nothing is
  assumed of a gateway that starts. The deadline is strongly fair because it is
  looked at only at the head of the loop.

## Proofs

Every invariant and action property that the passing runs check is also a
theorem, and so is every refinement. The proofs about specifications rest on an
inductive invariant, which also holds in TLC on the instances of the runs, and
have a lemma per action, group of actions or part of the invariant. Bounds on faults, edits, launches and the
like are arbitrary numbers in the theorems, so nothing depends on them.

### The store

`StateStoreProofs` proves, for every number of writers, readers, generations,
operation IDs and faults:

* `TypeCorrect`: `TypeOK`, on any filesystem;
* on an ordered filesystem (`ASSUME Ordered`): `PointerSafe`,
  `ReadersUndisturbed`, `ExactlyOnceEffects`, `AcknowledgedSurvives`,
  `MigrationSafe` and `Refinement`.

They use `StoreAssumption`: the special values are no members of the sets and
the bounds are numbers.

The invariants are not inductive. That removing a generation leaves the pointer
usable depends on the step of the writer that removes it and on its being the
only one. `Struct` adds both: `Mutex` (at most one writer runs, and no reader is
bound meanwhile) and `Progress(w)`, what the disk looks like at each step of
writer `w`: the staged copy contains the active state with the request applied,
the durable pointer is the visible or the previous one, the durable generations
cover it, the legacy directories go only when the durable pointer is set.
`Struct` is kept by every action; the lemmas `EarlySteps`, `BuildSteps`,
`SyncSteps`, `SwapStep`, `LateSteps`, `ReturnStep`, `StopSteps` and `PowerStep`
take the actions in groups, and each also shows the step of `AtomicStore` that
it implements: `PublishSwap` is the commit, `Return` with its sync the
acknowledgement, everything else stutters or makes the value stable. The
remaining promises (`Promise`) are then invariants of `AtomicStore` and follow
through the refinement (`CommitExactlyOnce`, `PromiseStep`).

### The SSH identity

`SshKeyTransactionProofs` proves, for any keys, operation IDs, faults and
filesystems, ordered or not:

* `TypeCorrect`;
* `AlwaysResumable`: recovery never meets a state that it refuses (`NeverStuck`);
* `KeysOnlyAdvance`: once a command found a pair in place, no crash brings an
  older key back (`NoRollback`);
* `Refinement`: the replacement implements `AtomicKeyPair`.

Two more, `OneKeyPerOperation` (`AtMostOneKey`) and `AcknowledgedSurvive`
(`AckedSurvive`), have the hypothesis `KeepsReceipts` for every filesystem: it
is ordered, or commands are not killed there (power may fail) and
`state/operations` had its entry on the disk before. All filesystems of the run
`ssh_key` satisfy it; without it both are false: with kills as
`ssh_key_stop_then_power` shows, and for the first receipt of an instance as the
findings below tell.

`NeverStuck` looks only at the current step, and a power loss moves the code to
another one with the files of the disk. `SshInv` therefore says of both images,
visible and durable, that their journal can be resumed (`Resumable`): on each
side the new key is in place or still staged, and what it replaced is in place
or in the backup. `FilesAt` and `ReceiptsAt` say how far the current step is and
what the disk may lag behind. `OneOwner` says that a key is made for one
operation; without it a leftover receipt could claim the key of another one.
`Newest` is `NoRollback` for both images. The bigger part of the proof is what
`fsync` does: a sync of the key directory takes key files and journal together
(`SyncKeysIs`, `SyncReceiptsIs`), so the durable image is always one
that the visible image went through. `SurviveInv` adds that a pair which was
found in place has its receipt on the disk, that on an unordered filesystem
without kills the receipts on the disk lag behind in one step only, and that the
entry of their directory is on the disk whenever a receipt there counts.

### Keys and phones

`KeysProofs` proves, for any peers, addresses, settings, commands and edits:
`TypeCorrect`, `FilesAgree` (`PhoneFilesAgree`), `PublishedAccepted`
(`ServesPublished`) and `PhonesStay` (`PhonesKeepWorking`).

`KeysInv` has five parts. `StoreOK`: in the published generation keys are their
owner's own and complete in pairs, and a phone configuration is made of the keys
beside it. `Served`: what a gateway was started with is what the store holds, as
it keeps the state lock. `Planned`: a launch plan for the generation that is
still published was checked against just that generation, which is what the
comparison of generations in `validate_launch_manifest` is good for; so
`ServesPublished` needs no check of phone configurations in the gateway. It is
about gateways that parsed what `up` had checked against (`SetUpWith`): for the
others the property is false, as `lifecycle_stale_config` shows. `UpToDatePhone`: a phone that need not import again
holds what would be rendered now, which relates the phone, the store and
`config.yaml`, none of which `PhonesKeepWorking` by itself ties to the next
start. And operations that were reported have a receipt, so a retry changes
nothing. The proof follows `mutate_state`: `RenderOK` for the rendering that
ends each mutator, one lemma per mutator (`GenerateAccomplishes`,
`RotatePeerAccomplishes`, `RotateServerAccomplishes`, `PruneAccomplishes`) that
the staged generation is in order and leaves the keys of all other phones alone,
then `Published` for the validator and the receipt. It uses `KeysAssumption`,
`NoneAssumption` and `PlanAssumption`: `None` is none of the values that it marks the absence of.

### The gateway

`PacketPolicyProofs` proves, for every set of networks that nests like prefixes
(`PrefixAssumption`) and every configuration that passes validation:

* `CaptureIsRouting`: the subnet rules capture exactly the addresses that are
  `Routed`.
  From left to right the first matching rule is a route, so every excluded
  network around the address is wider. From right to left the narrowest route
  around the address (`GreatestNumber`, by well-founded induction on widths) is
  not wider than the one that routes it, so no exclusion comes before it;
* `NeverCaptured`: multicast and limited broadcast are never captured, since a
  route inside of them is rejected or impossible;
* `DnsCaptured`: the DNS upstream is captured;
* `PeersNotCaptured`: the peers' networks are not, unless a route is declared
  inside of one.

`PrefixAssumption` also says that every version has a network of width 0
(`0.0.0.0/0`, `::/0`), so that full routing always has a route.

`GatewayRuntimeProofs` proves, for every set of valid configurations
(`RuntimeAssumption`) and any number of failing commands: `TypeCorrect`,
`GuardedIngress` (`IngressGuarded`), `ReadinessIsTrue` (`ReadyIsTrue`),
`ExitMatchesStatus` (`StatusMatchesExit`), `CleanupIndependent`
(`IndependentCleanup`), `ServesRoutes` (`RoutesServed`) and `Refinement`
(`ImplementsAttempt`). `RuntimeInv` ties the namespace, the process and the
status to the step (`NetAt`, `ProxyAt`, `StatusAt`), since the order of the
commands in `start` is the only reason why ingress is guarded, and says of
`cleanup` which objects it has dealt with (`CleanupAt`): what is gone by then or
went wrong on its own. `ServesRoutes` rests on `CaptureIsRouting`; together they
say what a healthy gateway forwards, for every configuration that passes
validation: routed addresses, and everything at the port of its listener.

### Claims

`SocketClaimsProofs` proves, for any instances and any sockets that each of them
wants: `TypeCorrect`, `SocketsExclusive` (`NoSharedSocket`) and `NothingLeaks`
(`NoLeakedClaim`). `SocketsExclusive` is about children whose supervisors hold
their claims; a child that outlives its stopped supervisor can share a socket
with the next holder, as `socket_claims_stop` shows. `ClaimInv` adds `Progress`: a supervisor holds all claims
that it no longer waits for.

### The lifecycle

`LifecycleProofs` proves, for any number of commands, launches, edits, mutations
and interrupts: `TypeCorrect`, `ClaimedSocketsServed` (`ServesClaimedSockets`),
`PinnedKeys` (`KeysPinned`), `FilesOfUnit` (`FilesBelongToUnit`) and the action
property `ReportsAsAsked` (`ReportedAsAsked`). `LifecycleInv` adds `HoldsLock`
(a command past the lock holds it), `Knows(c)` (what a command has found out
about the unit and the manifest stays true, because only the holder of the lock
changes them or because the unit is gone), `UnitHas` and `GatewayHas` (unit and
gateway were made from the manifest that is still there). `PinnedKeys` holds
whatever the queries of the unit's state return. The other three are about units
that no `up` was misled about (`~misled`); while one is, `Knows`, `UnitHas` and
`GatewayHas` promise nothing, and the next successful launch restores them.
`LifecycleAssumption` says that 0, the free lock, is no command.

### Only model-checked

* Liveness: `RetryConverges`, `JournalResolved`, `ProxyDeathEnds`, `StopEnds`,
  `SomeoneWins`, `CommandsEnd`. Fairness and `ENABLED` are beyond the prover.
* The store on an unordered filesystem under power losses alone
  (`state_store_unordered`). The theorems with `Ordered` do not hold there once
  kills are added (see the finding).

## Findings

The five violation runs are disagreements between the code and what the
repository says; `PROJECT.json` quotes the lines. Two need a filesystem that
does not order metadata and a second fault within the writeback interval. The
window without drop policy is a few commands long and lies inside a namespace
that is about to be destroyed. The stale configuration needs an edit within the
second that `up` takes to prepare the launch.

Others, without a run of their own:

* After a normal stop `run_gateway` calls `cleanup` outside of its handler
  (`runtime.py` 570), so a cleanup that raises leaves the status "stopping"
  (`EndStop`); `StatusMatchesExit` allows for it.
* `docs/security.md` 73 says that peer networks are excluded. A selected route
  strictly inside of a gateway network passes validation and is more specific
  than the exclusion, so it is captured. `Routed` follows the code, and
  `PeersNotCaptured` names the hypothesis.
* `docs/security.md` 71 says that only traffic inside declared routes is
  captured. The rule `socket transparent 1` (`nft_tproxy.py` 92) comes before the
  subnets and has no `socket wildcard 0`; sshuttle's listener is transparent and
  bound to the wildcard address (`runtime.py` 143-159). New packets to its port,
  at any address that is not local and of a version with routes, are therefore
  delivered to sshuttle, and not dropped. The port is chosen by the kernel at
  every start. `RoutesServed` says so.
* A failing `systemctl show` reads "inactive" (`host.py` 700). When that happens
  to an `up` while the unit waits for its restart, the command removes the
  runtime files, publishes its own `launch.json`, and then fails, since
  `systemd-run` refuses a loaded unit. The restart runs with the new manifest
  under the claims of the old launch: after an edit of the sockets in between,
  the gateway is configured with sockets that nobody claimed, and an `up` that
  attaches reports a launch that the unit was not started with. TLC finds it in
  20 steps when `ServesClaimedSockets` is stated without `~misled`; `down`
  repairs it.
* The first SSH receipt of an instance creates `state/operations`, and only that
  directory is synced (`files.py` 183, 193), not its entry in `state/`. On a
  filesystem that does not order metadata one power loss after the journal is
  gone loses the receipt, and a retry with `--force` makes a second key, against
  `docs/architecture.md` 61. TLC shows it with `operations |-> FALSE` for the
  second filesystem of `MCSshKeyTransaction`. Any later `fsync` of `state/`, such
  as that of a key command, closes the gap.
* 255.255.255.255 passes as DNS upstream (`config.py` 278) and is never captured.
* `phone-config` publishes and reads back in two sections of the lock. Another
  command that parsed an older configuration can render in between, and
  `phone-config` hands out a file of the older configuration. The next start
  refuses it (`Current`); for `PhonesKeepWorking` that phone has to import again.
* A partial server key together with an incomplete declared peer is repaired by
  no command: `generate` refuses, `rotate-server` cannot render the peer and
  `rotate-peer` cannot load the server. Only a damaged legacy layout gets there,
  and nothing starts from it.
* An `up` that is killed while `systemd-run` runs leaves that child behind, and
  the lifecycle lock is free. Its unit can start between the check of the next
  `up` and that command's own launch: the files of a running unit are then
  removed or replaced, or the unit runs with the sockets of an older
  configuration. `down` repairs it.

## Not modelled

* The syntax of the configuration (hosts, names, paths, YAML), the text of
  rendered files and nftables rules, argument lists of pasta and bubblewrap:
  pure functions.
* Output, logging, `status`, `logs`, `doctor`, `peers list`: they only read.
* The creation of the instance directory by `init`, which only adds directories
  and may be repeated at any point.
* `--output` of `phone-config`: one atomic write outside of the state.
* Sockets of established flows and UDP payloads: a flow that sshuttle accepted
  was captured by the same rules, or came to its listener's port.
* The durability of the entries of `state/` and `secrets/` in the instance
  directory, which no code syncs: they are taken to be on the disk from before.
* File modes, owners and symlink checks: they reject what other users planted
  and do not change state.
* Cryptography, the SSH session, sshuttle and the kernel: outside the code.
* A `systemd-run` that survives the `up` that started it.

## Plan

1. A run for the first SSH receipt on an unordered filesystem, and one for the
   misread state of the unit, as findings of their own.
2. Proofs: the store on an unordered filesystem under power losses alone, with
   an inductive invariant for what `Writeback` may have written; a theorem that
   relates `Publish` of `Keys` to the commit of `AtomicStore`.
3. `Lifecycle`: the surviving `systemd-run` as an action of its own, with what
   still holds beside it; the phases of its gateway as an instance of
   `GatewayAttempt`; removal of runtime files step by step.
