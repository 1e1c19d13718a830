--------------------------------- MODULE Keys ---------------------------------
(***************************************************************************)
(* WireGuard keys and phone configurations (keys.py, render.py and the key *)
(* commands of cli.py).  A command parses config.yaml, then builds, checks *)
(* and publishes a new generation in one step: StateStore shows that       *)
(* mutate_state is as good as that (AtomicStore).  phone-config reads what *)
(* it published under a lock of its own.  up requires current phone        *)
(* configurations when it writes its launch plan; the gateway parses       *)
(* config.yaml again, compares it with the plan and keeps the state lock   *)
(* while it serves.  The other steps of a launch, and the sockets in the   *)
(* plan, are Lifecycle's.  Several commands run at a time, the             *)
(* configuration is edited meanwhile, and phones import what phone-config  *)
(* hands out.                                                              *)
(***************************************************************************)
EXTENDS FiniteSets, Naturals

CONSTANTS Peers, Addresses,
          Settings,     \* endpoint, listen port, routes and DNS as one value
          Ids,          \* operation IDs that are used again
          None,         \* no such file, peer, ID or configuration
          Commands,     \* commands that run at the same time
          MaxPublished, \* bound: generations that are published
          MaxEdits      \* bound: edits of config.yaml

ASSUME KeysAssumption ==
  /\ None \notin Peers \cup Addresses \cup Settings \cup Ids
  /\ "server" \notin Peers
  /\ MaxPublished \in Nat /\ MaxEdits \in Nat

\* None is no key, no receipt, no phone configuration and no fingerprint.
ASSUME NoneAssumption ==
  LET names == (Peers \cup {"server"}) \X Nat
  IN  /\ None \notin names
      /\ None \notin {"rotate-peer", "rotate-server"} \X (Peers \cup {None})
      /\ None \notin [private : names, preshared : names, server : names,
                     address : Addresses, settings : Settings]
      /\ None \notin [public : names, preshared : names, server : names,
                     address : Addresses, settings : Settings]

VARIABLES
  config,    \* config.yaml
  store,     \* the published generation
  command,   \* per command: the configuration it parsed, or the peer to read
  plan,      \* launch.json: generation and file, with the configuration that up
             \* checked the phones against (history); or None
  gateway,   \* a gateway before it has the lock: what it parsed and the
             \* file it sees, or None
  serving,   \* the configuration wg0 was set up with, or None
  imported,  \* per phone: the configuration it has, or None
  reimport,  \* history: phones whose configuration may have become invalid
  done,      \* history: operation IDs whose effect was published
  published, edits

vars == <<config, store, command, plan, gateway, serving, imported, reimport, done,
          published, edits>>
launch == <<plan, gateway, serving>>

-------------------------------------------------------------------------------
(* Data *)

\* config.yaml after validation: at least one peer, no address twice.
Configs ==
  {c \in [settings : Settings, address : [Peers -> Addresses \cup {None}]] :
     /\ \E p \in Peers : c.address[p] # None
     /\ \A p, q \in Peers : p # q /\ c.address[p] # None => c.address[p] # c.address[q]}
Plans == [checked : Configs, file : Configs, generation : Nat]
Gateways == [config : Configs, file : Configs]
ASSUME PlanAssumption == None \notin Plans
Declared(c) == {p \in Peers : c.address[p] # None}

\* The n-th key pair of an owner; either half is known by the same name.
NewKey(owner, n) == <<owner, n>>

NoServer == [private |-> None, public |-> None]
NoPeer == [private |-> None, public |-> None, preshared |-> None,
           conf |-> None, print |-> None]
ServerKeys(n) == [private |-> NewKey("server", n), public |-> NewKey("server", n)]
WithPeerKeys(d, p, n) ==
  [d EXCEPT !.private = NewKey(p, n), !.public = NewKey(p, n), !.preshared = NewKey(p, n)]

\* _key_pair_status and _peer_key_status
Status(present) ==
  IF present = {TRUE} THEN "complete" ELSE IF TRUE \in present THEN "partial" ELSE "missing"
ServerStatus(s) == Status({s.server.private # None, s.server.public # None})
PeerStatus(s, p) ==
  Status({s.peers[p].private # None, s.peers[p].public # None, s.peers[p].preshared # None})

\* render_phone_config
PhoneConfig(c, s, p) ==
  [private |-> s.peers[p].private, preshared |-> s.peers[p].preshared,
   server |-> s.server.public, address |-> c.address[p], settings |-> c.settings]

\* Mutant: the fingerprint does not cover the addresses.
FingerprintOfKeys(c, s, p) ==
  [public |-> s.peers[p].public, preshared |-> s.peers[p].preshared,
   server |-> s.server.public, address |-> None, settings |-> c.settings]

\* phone_fingerprint
Fingerprint(c, s, p) ==
  [public |-> s.peers[p].public, preshared |-> s.peers[p].preshared,
   server |-> s.server.public, address |-> c.address[p], settings |-> c.settings]

\* render_server_config, loaded with wg setconf
ServerConfig(c, s) ==
  [private |-> s.server.private, settings |-> c.settings,
   peers |-> [p \in Declared(c) |->
                [public |-> s.peers[p].public, preshared |-> s.peers[p].preshared,
                 address |-> c.address[p]]]]

\* A legacy layout may be without phone configurations, or have lost a file.
Legacy(c) ==
  LET keys == [server |-> ServerKeys(0), receipts |-> [i \in Ids |-> None],
               peers |-> [p \in Peers |-> IF p \in Declared(c)
                            THEN WithPeerKeys(NoPeer, p, 0) ELSE NoPeer]]
  IN  {keys, [keys EXCEPT !.server.public = None]}
        \cup {[keys EXCEPT !.peers[p].preshared = None] : p \in Declared(c)}
Empty == [server |-> NoServer, receipts |-> [i \in Ids |-> None],
          peers |-> [p \in Peers |-> NoPeer]]

Idle == [step |-> "idle"]
Request(op, p, i) == [op |-> op, peer |-> p, id |-> i]
Requests ==
  {Request("generate", p, None) : p \in Peers \cup {None}}
    \cup {Request("phone", p, None) : p \in Peers}
    \cup {Request("rotate-peer", p, i) : p \in Peers, i \in Ids \cup {None}}
    \cup {Request("rotate-server", None, i) : i \in Ids \cup {None}}
    \cup {Request("prune", None, None)}

Init ==
  /\ config \in Configs
  /\ store \in {Empty} \cup Legacy(config)
  /\ command = [k \in Commands |-> Idle]
  /\ plan = None /\ gateway = None /\ serving = None
  /\ imported = [p \in Peers |-> None]
  /\ reimport = {} /\ done = {}
  /\ published = 0 /\ edits = 0

-------------------------------------------------------------------------------
(* What the commands make of a generation *)

\* _validate_selected_keys
KeysComplete(s, selected) ==
  /\ ServerStatus(s) = "complete"
  /\ \A p \in selected : PeerStatus(s, p) = "complete"

\* _render_phone_configs, which first loads the keys
Render(c, s, selected) ==
  [s EXCEPT !.peers = [p \in Peers |-> IF p \in selected
     THEN [s.peers[p] EXCEPT !.conf = PhoneConfig(c, s, p), !.print = Fingerprint(c, s, p)]
     ELSE s.peers[p]]]

\* _require_selected_phone_configs: the files and the fingerprint are exactly
\* what would be rendered now.
Current(c, s, selected) ==
  /\ KeysComplete(s, selected)
  /\ \A p \in selected : /\ s.peers[p].conf = PhoneConfig(c, s, p)
                         /\ s.peers[p].print = Fingerprint(c, s, p)

\* Mutant: every peer that has ever been known is selected.
SelectedAll(r, c) == IF r.peer = None THEN Peers ELSE {r.peer}

\* _selected_peers; an undeclared name is refused.
Selected(r, c) ==
  IF r.peer = None THEN Declared(c) ELSE {r.peer} \cap Declared(c)

\* _generate_missing_keys, before it renders
WithMissingKeys(s, selected, n) ==
  [s EXCEPT
     !.server = IF ServerStatus(s) = "missing" THEN ServerKeys(n) ELSE @,
     !.peers = [p \in Peers |-> IF p \in selected /\ PeerStatus(s, p) = "missing"
                                THEN WithPeerKeys(s.peers[p], p, n) ELSE s.peers[p]]]
GenerateRaises(s, selected) ==
  ServerStatus(s) = "partial" \/ \E p \in selected : PeerStatus(s, p) = "partial"

\* prune_orphaned_peers: directories without a declared peer
Orphans(s, c) == {p \in Peers \ Declared(c) : s.peers[p] # NoPeer}

\* The generation that the mutator of request r leaves in the staging area.
Mutated(r, c, s, n) ==
  LET selected == Selected(r, c)
  IN  CASE r.op = "generate" -> Render(c, WithMissingKeys(s, selected, n), selected)
        [] r.op = "phone" -> Render(c, s, selected)
        [] r.op = "rotate-peer" ->
             Render(c, [s EXCEPT !.peers[r.peer] = WithPeerKeys(@, r.peer, n)], selected)
        [] r.op = "rotate-server" ->
             Render(c, [s EXCEPT !.server = ServerKeys(n)], selected)
        [] r.op = "prune" ->
             [s EXCEPT !.peers = [p \in Peers |->
                IF p \in Orphans(s, c) THEN NoPeer ELSE s.peers[p]]]

\* The validator of each command; prune needs no phone configurations.
Valid(r, c, s) ==
  IF r.op = "prune"
    THEN /\ ServerStatus(s) = "complete"
         /\ \A p \in Declared(c) : PeerStatus(s, p) # "partial"
    ELSE Current(c, s, Selected(r, c))

-------------------------------------------------------------------------------
(* Commands *)

\* The receipt says what the ID was used for.
Kind(r) == <<r.op, r.peer>>
\* Mutant: receipts are not looked at.
ReceiptIgnored(r) == None

Receipt(r) == IF r.id = None THEN None ELSE store.receipts[r.id]

\* The configuration is parsed before any lock is taken.  Until then it makes
\* no difference what the command was asked for.
Begin(k) ==
  /\ command[k] = Idle
  /\ command' = [command EXCEPT ![k] = [step |-> "mutate", config |-> config]]
  /\ UNCHANGED <<launch, config, store, imported, reimport, done, published, edits>>

\* The exclusive state lock is taken without waiting.
Locked == serving # None

Mutating(k) == command[k].step = "mutate" /\ ~Locked

\* Phones that an operation is meant to cut off; a retry is not.
Affected(r, c) ==
  IF r.id \in done THEN {}
  ELSE CASE r.op = "rotate-peer" -> {r.peer}
         [] r.op = "rotate-server" -> Peers
         [] r.op = "prune" -> Orphans(store, c)
         [] OTHER -> {}

\* mutate_state up to the publication
Publish(k, r) ==
  LET c == command[k].config
      staged == Mutated(r, c, store, published')
      next == IF r.id = None THEN staged ELSE [staged EXCEPT !.receipts[r.id] = Kind(r)]
  IN  /\ Mutating(k)
      /\ published < MaxPublished /\ published' = published + 1
      /\ Receipt(r) = None
      /\ r.peer # None => r.peer \in Declared(c)
      /\ r.op = "generate" => ~GenerateRaises(store, Selected(r, c))
      /\ r.op = "prune" => Orphans(store, c) # {}
      /\ Valid(r, c, next)
      /\ store' = next
      /\ reimport' = reimport \cup Affected(r, c)
      /\ done' = IF r.id = None THEN done ELSE done \cup {r.id}
      /\ command' = [command EXCEPT ![k] =
                       IF r.op = "phone" THEN [step |-> "read", peer |-> r.peer] ELSE Idle]
      /\ UNCHANGED <<launch, config, imported, edits>>

\* Any other end: the lock is busy, the ID is completed or was used otherwise,
\* nothing to prune, invalid or partial state, a failing wg, an interrupt.
Finish(k) ==
  /\ command[k] # Idle
  /\ command' = [command EXCEPT ![k] = Idle]
  /\ UNCHANGED <<launch, config, store, imported, reimport, done, published, edits>>

\* phone-config reads the file back, under a shared lock of its own, and hands
\* it out.  What is current on import is good until something cuts it off.
HandOut(k) ==
  LET p == command[k].peer
  IN  /\ command[k].step = "read"
      /\ store.peers[p].conf # None
      /\ imported' = [imported EXCEPT ![p] = store.peers[p].conf]
      /\ reimport' = IF p \in Declared(config) /\ Current(config, store, {p})
                     THEN reimport \ {p} ELSE reimport \cup {p}
      /\ command' = [command EXCEPT ![k] = Idle]
      /\ UNCHANGED <<launch, config, store, done, published, edits>>

-------------------------------------------------------------------------------
(* Gateway and user *)

\* prepare_launch, with the configuration that up parsed: every declared peer's
\* phone configuration is current, and the plan names the generation and the
\* file as they are now.
Prepare(k) ==
  LET c == command[k].config
  IN  /\ Mutating(k)
      /\ published > 0
      /\ Current(c, store, Declared(c))
      /\ plan' = [checked |-> c, file |-> config, generation |-> published]
      /\ command' = [command EXCEPT ![k] = Idle]
      /\ UNCHANGED <<config, store, gateway, serving, imported, reimport, done,
                     published, edits>>

\* The unit starts, or starts again, and the gateway parses config.yaml.
Load ==
  /\ plan # None /\ gateway = None /\ ~Locked
  /\ gateway' = [config |-> config, file |-> config]
  /\ UNCHANGED <<config, store, command, plan, serving, imported, reimport, done,
                 published, edits>>

\* Mutant: the keys may have changed since the plan was made.
MatchesFile == plan.file = gateway.file

\* validate_launch_manifest: the file it sees and the generation are the plan's.
MatchesPlan == plan.file = gateway.file /\ plan.generation = published

\* The gateway takes the shared lock, validates the plan and loads the keys of
\* the configuration it parsed into wg0.  It does not look at the phones'.
Serve ==
  /\ gateway # None
  /\ MatchesPlan
  /\ KeysComplete(store, Declared(gateway.config))
  /\ serving' = ServerConfig(gateway.config, store)
  /\ gateway' = None
  /\ UNCHANGED <<config, store, command, plan, imported, reimport, done, published, edits>>

\* The gateway ends or gives up.  A restart finds the plan again, down removes it.
Stop ==
  /\ gateway # None \/ Locked
  /\ gateway' = None /\ serving' = None
  /\ plan' \in {plan, None}
  /\ UNCHANGED <<config, store, command, imported, reimport, done, published, edits>>

\* Routes, endpoint, addresses, peers: the phones have to import again.  The
\* gateway sees an edit in place, and a file renamed over config.yaml it does not.
Edit ==
  /\ edits < MaxEdits /\ edits' = edits + 1
  /\ config' \in Configs \ {config}
  /\ \/ gateway' = gateway
     \/ gateway # None /\ gateway.file = config /\ gateway' = [gateway EXCEPT !.file = config']
  /\ reimport' = Peers
  /\ UNCHANGED <<store, command, plan, serving, imported, done, published>>

Next ==
  \/ \E k \in Commands : \/ Begin(k) \/ Finish(k) \/ HandOut(k) \/ Prepare(k)
                         \/ \E r \in Requests : Publish(k, r)
  \/ Load \/ Serve \/ Stop \/ Edit

Spec == Init /\ [][Next]_vars

-------------------------------------------------------------------------------
(* Properties *)

\* The variables hold what the code can put there.
KeyNames(owner) == {NewKey(owner, n) : n \in 0..MaxPublished} \cup {None}
TypeOK ==
  /\ config \in Configs
  /\ store.server \in [private : KeyNames("server"), public : KeyNames("server")]
  /\ \A p \in Peers :
       /\ {store.peers[p].private, store.peers[p].public, store.peers[p].preshared}
            \subseteq KeyNames(p)
       /\ store.peers[p].conf # None =>
            /\ store.peers[p].conf.server \in KeyNames("server") \ {None}
            /\ store.peers[p].conf.address \in Addresses
  /\ \A k \in Commands :
       command[k] \in {Idle} \cup [step : {"mutate"}, config : Configs]
                            \cup [step : {"read"}, peer : Peers]
  /\ plan \in Plans \cup {None} /\ gateway \in Gateways \cup {None}
  /\ reimport \subseteq Peers /\ done \subseteq Ids
  /\ published \in 0..MaxPublished /\ edits \in 0..MaxEdits

\* In every generation a phone configuration belongs to the keys beside it and
\* to the fingerprint beside it, whatever commands with whatever configuration
\* came one after another, and no command leaves keys behind half.
PhoneFilesAgree ==
  \A p \in Peers :
    LET d == store.peers[p]
    IN  /\ d.conf # None <=> d.print # None
        /\ d.conf # None =>
             /\ PeerStatus(store, p) = "complete"
             /\ d.conf.private = d.private /\ d.print.public = d.public
             /\ \A f \in {"preshared", "server", "address", "settings"} : d.conf[f] = d.print[f]
             /\ d.conf.preshared = d.preshared

\* The two ends of a tunnel fit: keys, preshared key, address and endpoint.
Accepts(sc, p, conf) ==
  /\ p \in DOMAIN sc.peers
  /\ conf.private = sc.peers[p].public /\ conf.server = sc.private
  /\ conf.preshared = sc.peers[p].preshared
  /\ conf.address = sc.peers[p].address /\ conf.settings = sc.settings

\* wg0 was set up with the settings, peers and addresses of c.
SetUpWith(sc, c) ==
  /\ sc.settings = c.settings
  /\ DOMAIN sc.peers = Declared(c)
  /\ \A p \in DOMAIN sc.peers : sc.peers[p].address = c.address[p]

\* A gateway that parsed what up had checked the phones against accepts the
\* published phone configuration of each of its peers, whatever other commands
\* ran between the check and the gateway's lock, on the first start and on every
\* restart.
ServesPublished ==
  serving # None /\ SetUpWith(serving, plan.checked) =>
    \A p \in DOMAIN serving.peers :
      store.peers[p].conf # None /\ Accepts(serving, p, store.peers[p].conf)

\* A phone that imported a current configuration gets through to every gateway
\* that serves config.yaml as it is, until its peer or the server is rotated, its
\* peer is pruned or config.yaml is edited.  Generation, other peers' rotations,
\* prunes, retries and commands that still hold an old configuration do not cut
\* it off.
PhonesKeepWorking ==
  serving # None /\ SetUpWith(serving, config) =>
    \A p \in Peers \ reimport :
      imported[p] # None => Accepts(serving, p, imported[p])
===============================================================================
