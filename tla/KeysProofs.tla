------------------------------ MODULE KeysProofs ------------------------------
(***************************************************************************)
(* Proofs about Keys for any number of peers, addresses, settings,         *)
(* operation IDs, concurrent commands, generations and edits.              *)
(***************************************************************************)
EXTENDS Keys, TLAPS

-------------------------------------------------------------------------------
(* Key states *)

\* Status tells whether all of some files are there, or none.
LEMMA StatusIs ==
  ASSUME NEW T \in SUBSET BOOLEAN, T # {}
  PROVE  /\ Status(T) = "complete" <=> FALSE \notin T
         /\ Status(T) = "missing" <=> TRUE \notin T
<1>1. T = {TRUE} <=> FALSE \notin T
  BY Zenon
<1> QED BY <1>1 DEF Status

\* _key_pair_status: both files or none
LEMMA ServerStatusIs ==
  ASSUME NEW s
  PROVE  /\ ServerStatus(s) = "complete" <=> s.server.private # None /\ s.server.public # None
         /\ ServerStatus(s) = "missing" <=> s.server.private = None /\ s.server.public = None
<1> DEFINE T == {s.server.private # None, s.server.public # None}
<1>1. T \in SUBSET BOOLEAN /\ T # {}
  BY Zenon
<1>2. FALSE \notin T <=> s.server.private # None /\ s.server.public # None
  BY Zenon
<1>3. TRUE \notin T <=> s.server.private = None /\ s.server.public = None
  BY Zenon
<1> HIDE DEF T
<1>4. ServerStatus(s) = Status(T)
  BY DEF ServerStatus, T
<1> QED BY <1>1, <1>2, <1>3, <1>4, StatusIs

\* _peer_key_status: all three files or none
LEMMA PeerStatusIs ==
  ASSUME NEW s, NEW p
  PROVE  /\ PeerStatus(s, p) = "complete" <=>
              /\ s.peers[p].private # None /\ s.peers[p].public # None
              /\ s.peers[p].preshared # None
         /\ PeerStatus(s, p) = "missing" <=>
              /\ s.peers[p].private = None /\ s.peers[p].public = None
              /\ s.peers[p].preshared = None
<1> DEFINE d == s.peers[p]
           T == {d.private # None, d.public # None, d.preshared # None}
<1> HIDE DEF d
<1>1. T \in SUBSET BOOLEAN /\ T # {}
  BY Zenon
<1>2. FALSE \notin T <=> d.private # None /\ d.public # None /\ d.preshared # None
  BY Zenon
<1>3. TRUE \notin T <=> d.private = None /\ d.public = None /\ d.preshared = None
  BY Zenon
<1>4. PeerStatus(s, p) = Status(T)
  BY DEF PeerStatus, d
<1> HIDE DEF T
<1> QED BY <1>1, <1>2, <1>3, <1>4, StatusIs DEF d

-------------------------------------------------------------------------------
(* The inductive invariant *)

Names == (Peers \cup {"server"}) \X Nat
PhoneConfigs == [private : Names, preshared : Names, server : KeyNames("server") \ {None},
                 address : Addresses, settings : Settings]
Prints == [public : Names, preshared : Names, server : KeyNames("server") \ {None},
           address : Addresses, settings : Settings]
Dirs == [private : Names \cup {None}, public : Names \cup {None},
         preshared : Names \cup {None}, conf : PhoneConfigs \cup {None},
         print : Prints \cup {None}]
Servers == [private : KeyNames("server"), public : KeyNames("server")]
Kinds == {"rotate-peer", "rotate-server"} \X (Peers \cup {None})
Stores == [server : Servers, receipts : [Ids -> Kinds \cup {None}], peers : [Peers -> Dirs]]

\* One directory: the keys are the peer's own, in pairs, and the phone
\* configuration is made of them.
KeysOK(s, p) ==
  /\ {s.peers[p].private, s.peers[p].public, s.peers[p].preshared} \subseteq KeyNames(p)
  /\ s.peers[p].private = s.peers[p].public
DirOK(s, p) ==
  /\ KeysOK(s, p)
  /\ s.peers[p].conf # None <=> s.peers[p].print # None
  /\ s.peers[p].conf # None =>
       /\ PeerStatus(s, p) = "complete"
       /\ s.peers[p].conf.private = s.peers[p].private
       /\ s.peers[p].print.public = s.peers[p].public
       /\ s.peers[p].conf.preshared = s.peers[p].preshared
       /\ \A f \in {"preshared", "server", "address", "settings"} :
            s.peers[p].conf[f] = s.peers[p].print[f]

ServerOK(s) ==
  s.server.private # None /\ s.server.public # None => s.server.private = s.server.public

StoreOK(s) == s \in Stores /\ ServerOK(s) /\ \A p \in Peers : DirOK(s, p)

\* What a gateway was started with is what the store still holds.
Served ==
  serving # None =>
    /\ KeysComplete(store, DOMAIN serving.peers) /\ DOMAIN serving.peers \subseteq Peers
    /\ serving.private = store.server.private
    /\ \A p \in DOMAIN serving.peers :
         /\ serving.peers[p].public = store.peers[p].public
         /\ serving.peers[p].preshared = store.peers[p].preshared

\* A phone that need not import again has what would be rendered now.
UpToDatePhone(p) ==
  imported[p] # None =>
    /\ p \in Declared(config) /\ KeysComplete(store, {p})
    /\ imported[p] = PhoneConfig(config, store, p)

\* A gateway has a plan, and a plan for the generation that is published was
\* checked against it.
Planned ==
  /\ gateway # None \/ serving # None => plan # None
  /\ plan # None =>
       /\ plan.generation \in 1..published
       /\ plan.generation = published =>
            Current(plan.checked, store, Declared(plan.checked))

Rest ==
  /\ config \in Configs
  /\ command \in [Commands -> {Idle} \cup [step : {"mutate"}, config : Configs]
                                     \cup [step : {"read"}, peer : Peers]]
  /\ plan \in Plans \cup {None} /\ gateway \in Gateways \cup {None}
  /\ imported \in [Peers -> PhoneConfigs \cup {None}]
  /\ reimport \subseteq Peers /\ done \subseteq Ids
  /\ published \in 0..MaxPublished /\ edits \in 0..MaxEdits

KeysInv ==
  /\ Rest /\ StoreOK(store)
  /\ \A i \in done : store.receipts[i] # None
  /\ Served /\ ServesPublished /\ Planned
  /\ \A p \in Peers \ reimport : UpToDatePhone(p)

-------------------------------------------------------------------------------
(* What a mutator leaves in the staging area *)

\* The phones that the operation itself cuts off, retries apart
Cut(r, c, s) ==
  CASE r.op = "rotate-peer" -> {r.peer}
    [] r.op = "rotate-server" -> Peers
    [] r.op = "prune" -> Orphans(s, c)
    [] OTHER -> {}

SameKeys(s, t, p) ==
  /\ t.server = s.server
  /\ t.peers[p].private = s.peers[p].private /\ t.peers[p].public = s.peers[p].public
  /\ t.peers[p].preshared = s.peers[p].preshared

\* NewKey names one of the owner's keys, and no absent file.
LEMMA NewKeys ==
  ASSUME NEW n \in 0..MaxPublished, NEW q \in Peers \cup {"server"}
  PROVE  NewKey(q, n) \in KeyNames(q) /\ NewKey(q, n) \in Names /\ NewKey(q, n) # None
<1>1. NewKey(q, n) \in Names
  BY DEF NewKey, Names
<1>2. None \notin Names
  BY NoneAssumption DEF Names
<1> QED BY <1>1, <1>2 DEF KeyNames

\* KeyNames are Names, or None.
LEMMA NamesOfServer == KeyNames("server") \subseteq Names \cup {None}
<1> QED BY KeysAssumption DEF KeyNames, NewKey, Names

\* A phone's configuration and fingerprint are well formed once its keys and
\* the server's are there.
LEMMA Rendered ==
  ASSUME NEW s \in Stores, NEW c \in Configs, NEW p \in Declared(c), KeysComplete(s, {p})
  PROVE  PhoneConfig(c, s, p) \in PhoneConfigs /\ Fingerprint(c, s, p) \in Prints
<1>1. p \in Peers /\ c.address[p] \in Addresses /\ c.settings \in Settings
  BY DEF Declared, Configs
<1>2. /\ s.peers[p].private \in Names /\ s.peers[p].public \in Names
      /\ s.peers[p].preshared \in Names
  BY <1>1, PeerStatusIs DEF KeysComplete, Stores, Dirs
<1>3. s.server.public \in KeyNames("server") \ {None}
  BY ServerStatusIs DEF KeysComplete, Stores, Servers
<1> QED BY <1>1, <1>2, <1>3 DEF PhoneConfig, Fingerprint, PhoneConfigs, Prints

\* PhoneConfigs and Prints do not have None.
LEMMA NoneIsNone == None \notin PhoneConfigs /\ None \notin Prints
<1>1. PhoneConfigs \subseteq [private : Names, preshared : Names, server : Names,
                              address : Addresses, settings : Settings]
  BY NamesOfServer DEF PhoneConfigs
<1>2. Prints \subseteq [public : Names, preshared : Names, server : Names,
                        address : Addresses, settings : Settings]
  BY NamesOfServer DEF Prints
<1> QED BY <1>1, <1>2, NoneAssumption DEF Names

\* _render_phone_configs changes the selected phones' files and no key.
LEMMA RenderIs ==
  ASSUME NEW s \in Stores, NEW c, NEW S \in SUBSET Peers
  PROVE  LET t == Render(c, s, S)
         IN  /\ t = [server |-> s.server, receipts |-> s.receipts, peers |-> t.peers]
             /\ DOMAIN t.peers = Peers
             /\ \A p \in Peers : SameKeys(s, t, p)
             /\ \A p \in Peers \ S : t.peers[p] = s.peers[p]
             /\ \A p \in S : t.peers[p] =
                  [private |-> s.peers[p].private, public |-> s.peers[p].public,
                   preshared |-> s.peers[p].preshared,
                   conf |-> PhoneConfig(c, s, p), print |-> Fingerprint(c, s, p)]
<1> DEFINE t == Render(c, s, S)
           P == [p \in Peers |-> IF p \in S
                  THEN [s.peers[p] EXCEPT !.conf = PhoneConfig(c, s, p),
                                          !.print = Fingerprint(c, s, p)]
                  ELSE s.peers[p]]
<1>1. t = [server |-> s.server, receipts |-> s.receipts, peers |-> P]
  <2>1. t = [s EXCEPT !.peers = P]
    BY DEF Render
  <2> HIDE DEF P, t
  <2> QED BY <2>1 DEF Stores
<1> HIDE DEF t
<1>2. t.peers = P /\ t.server = s.server
  <2> HIDE DEF P
  <2> QED BY <1>1
<1>3. ASSUME NEW p \in S
      PROVE  t.peers[p] = [private |-> s.peers[p].private, public |-> s.peers[p].public,
                           preshared |-> s.peers[p].preshared,
                           conf |-> PhoneConfig(c, s, p), print |-> Fingerprint(c, s, p)]
  <2>1. s.peers[p] \in Dirs /\ p \in Peers
    BY DEF Stores
  <2>2. t.peers[p] = [s.peers[p] EXCEPT !.conf = PhoneConfig(c, s, p),
                                        !.print = Fingerprint(c, s, p)]
    BY <1>2, <2>1
  <2>3. PICK d, e : d = s.peers[p] /\ e = t.peers[p]
    OBVIOUS
  <2>4. PICK x, y : x = PhoneConfig(c, s, p) /\ y = Fingerprint(c, s, p)
    OBVIOUS
  <2>5. d \in Dirs /\ e = [d EXCEPT !.conf = x, !.print = y]
    BY <2>1, <2>2, <2>3, <2>4
  <2>6. e = [private |-> d.private, public |-> d.public, preshared |-> d.preshared,
             conf |-> x, print |-> y]
    BY ONLY <2>5 DEF Dirs
  <2> QED BY <2>3, <2>4, <2>6
<1>4. \A p \in Peers \ S : t.peers[p] = s.peers[p]
  BY <1>2
<1>5. \A p \in Peers : SameKeys(s, t, p)
  BY <1>2, <1>3, <1>4 DEF SameKeys
<1> QED BY <1>1, <1>2, <1>3, <1>4, <1>5 DEF t

\* A rendered generation that the validator accepts is in order when its keys
\* are and the files of the phones that were not selected are.
LEMMA RenderOK ==
  ASSUME NEW s \in Stores, NEW c \in Configs, NEW S \in SUBSET Declared(c),
         ServerOK(s), \A p \in Peers : KeysOK(s, p), \A p \in Peers \ S : DirOK(s, p),
         Current(c, Render(c, s, S), S)
  PROVE  StoreOK(Render(c, s, S))
<1> DEFINE t == Render(c, s, S)
<1>0. S \subseteq Peers
  BY DEF Declared
<1>1. /\ t = [server |-> s.server, receipts |-> s.receipts, peers |-> t.peers]
      /\ DOMAIN t.peers = Peers
      /\ \A p \in Peers : SameKeys(s, t, p)
      /\ \A p \in Peers \ S : t.peers[p] = s.peers[p]
      /\ \A p \in S : t.peers[p] =
           [private |-> s.peers[p].private, public |-> s.peers[p].public,
            preshared |-> s.peers[p].preshared,
            conf |-> PhoneConfig(c, s, p), print |-> Fingerprint(c, s, p)]
  BY <1>0, RenderIs
<1> HIDE DEF t
<1>2. ASSUME NEW p \in S
      PROVE  KeysComplete(s, {p}) /\ KeysComplete(t, {p})
  <2>1. KeysComplete(t, {p})
    BY DEF Current, KeysComplete, t
  <2>2. SameKeys(s, t, p)
    BY <1>0, <1>1
  <2> QED BY <2>1, <2>2, ServerStatusIs, PeerStatusIs DEF KeysComplete, SameKeys
<1>3. ASSUME NEW p \in Peers PROVE t.peers[p] \in Dirs
  <2>1. CASE p \in S
    <3>1. PhoneConfig(c, s, p) \in PhoneConfigs /\ Fingerprint(c, s, p) \in Prints
      BY <2>1, <1>2, Rendered
    <3>2. t.peers[p] =
            [private |-> s.peers[p].private, public |-> s.peers[p].public,
             preshared |-> s.peers[p].preshared,
             conf |-> PhoneConfig(c, s, p), print |-> Fingerprint(c, s, p)]
      BY <1>1, <2>1
    <3>3. s.peers[p] \in Dirs
      BY DEF Stores
    <3> QED BY <3>1, <3>2, <3>3 DEF Dirs
  <2>2. CASE p \notin S
    BY <1>1, <2>2 DEF Stores
  <2> QED BY <2>1, <2>2
<1>4. t \in Stores
  <2>0. t.peers = [p \in Peers |-> t.peers[p]]
    BY <1>0, <1>1, <1>3 DEF t, Render, Stores
  <2>1. t.peers \in [Peers -> Dirs]
    BY <1>3, <2>0
  <2> QED BY <1>1, <2>1 DEF Stores
<1>5. ServerOK(t)
  BY <1>1 DEF ServerOK
<1>6. ASSUME NEW p \in Peers PROVE DirOK(t, p)
  <2>1. KeysOK(t, p)
    BY <1>1 DEF KeysOK, SameKeys
  <2>2. CASE p \in S
    <3>1. PhoneConfig(c, s, p) \in PhoneConfigs /\ Fingerprint(c, s, p) \in Prints
      BY <2>2, <1>2, Rendered
    <3>0. t.peers[p] =
            [private |-> s.peers[p].private, public |-> s.peers[p].public,
             preshared |-> s.peers[p].preshared,
             conf |-> PhoneConfig(c, s, p), print |-> Fingerprint(c, s, p)]
      BY <1>1, <2>2
    <3>2. t.peers[p].conf = PhoneConfig(c, s, p) /\ t.peers[p].print = Fingerprint(c, s, p)
      BY <3>0
    <3>3. t.peers[p].conf # None /\ t.peers[p].print # None
      BY <3>1, <3>2, NoneIsNone
    <3>4. PeerStatus(t, p) = "complete"
      BY <1>2, <2>2 DEF KeysComplete
    <3> QED BY <1>1, <2>1, <3>2, <3>3, <3>4 DEF DirOK, SameKeys, PhoneConfig, Fingerprint
  <2>3. CASE p \notin S
    <3>1. t.peers[p] = s.peers[p]
      BY <1>1, <2>3
    <3> QED BY <2>1, <2>3, <3>1 DEF DirOK, PeerStatus
  <2> QED BY <2>2, <2>3
<1> QED BY <1>4, <1>5, <1>6 DEF StoreOK, t
\* The staged generation is in order, keeps the receipts, and has the old keys
\* of every phone whose keys were there and that the operation does not cut off.
Accomplishes(r, c, s, t) ==
  /\ StoreOK(t) /\ t.receipts = s.receipts
  /\ \A p \in Peers \ Cut(r, c, s) : KeysComplete(s, {p}) => SameKeys(s, t, p)

\* Rendering on top of keys that an operation made or left.
LEMMA RenderAccomplishes ==
  ASSUME NEW r, NEW c \in Configs, NEW s, NEW S \in SUBSET Declared(c),
         NEW u \in Stores, u.receipts = s.receipts,
         ServerOK(u), \A p \in Peers : KeysOK(u, p), \A p \in Peers \ S : DirOK(u, p),
         \A p \in Peers \ Cut(r, c, s) : KeysComplete(s, {p}) => SameKeys(s, u, p),
         Current(c, Render(c, u, S), S)
  PROVE  Accomplishes(r, c, s, Render(c, u, S))
<1>0. S \subseteq Peers
  BY DEF Declared
<1>1. StoreOK(Render(c, u, S))
  BY RenderOK
<1>2. Render(c, u, S).receipts = u.receipts
  <2>1. Render(c, u, S) = [server |-> u.server, receipts |-> u.receipts,
                           peers |-> Render(c, u, S).peers]
    BY <1>0, RenderIs
  <2> QED BY <2>1
<1>3. \A p \in Peers : SameKeys(u, Render(c, u, S), p)
  BY <1>0, RenderIs
<1> QED BY <1>1, <1>2, <1>3 DEF Accomplishes, SameKeys

\* A selection is of declared peers, and has the peer that was asked for.
LEMMA SelectedIs ==
  ASSUME NEW r, NEW c, r.peer # None => r.peer \in Declared(c)
  PROVE  /\ Selected(r, c) \in SUBSET Declared(c)
         /\ r.peer # None => Selected(r, c) = {r.peer}
<1> QED BY DEF Selected

\* Key files replaced, phone configuration left alone
LEMMA WithPeerKeysIs ==
  ASSUME NEW d \in Dirs, NEW p, NEW n
  PROVE  WithPeerKeys(d, p, n) =
           [private |-> NewKey(p, n), public |-> NewKey(p, n), preshared |-> NewKey(p, n),
            conf |-> d.conf, print |-> d.print]
<1> DEFINE x == NewKey(p, n)
<1> HIDE DEF x
<1>1. WithPeerKeys(d, p, n) = [d EXCEPT !.private = x, !.public = x, !.preshared = x]
  BY DEF WithPeerKeys, x
<1>2. [d EXCEPT !.private = x, !.public = x, !.preshared = x] =
        [private |-> x, public |-> x, preshared |-> x, conf |-> d.conf, print |-> d.print]
  <2> SUFFICES ASSUME NEW e, e = [d EXCEPT !.private = x, !.public = x, !.preshared = x]
               PROVE  e = [private |-> x, public |-> x, preshared |-> x,
                           conf |-> d.conf, print |-> d.print]
    OBVIOUS
  <2> QED BY DEF Dirs
<1> QED BY <1>1, <1>2 DEF x

\* Fresh keys for one phone
LEMMA PeerKeysIs ==
  ASSUME NEW s \in Stores, NEW p \in Peers, NEW n \in 0..MaxPublished
  PROVE  LET d == WithPeerKeys(s.peers[p], p, n)
         IN  d = [private |-> NewKey(p, n), public |-> NewKey(p, n), preshared |-> NewKey(p, n),
                  conf |-> s.peers[p].conf, print |-> s.peers[p].print] /\ d \in Dirs
<1>1. s.peers[p] \in Dirs
  BY DEF Stores
<1>2. NewKey(p, n) \in Names
  BY NewKeys
<1>3. WithPeerKeys(s.peers[p], p, n) =
        [private |-> NewKey(p, n), public |-> NewKey(p, n), preshared |-> NewKey(p, n),
         conf |-> s.peers[p].conf, print |-> s.peers[p].print]
  BY <1>1, WithPeerKeysIs, Zenon
<1> QED BY <1>1, <1>2, <1>3 DEF Dirs

\* generate-keys: missing keys only
LEMMA GenerateAccomplishes ==
  ASSUME NEW s, StoreOK(s), NEW c \in Configs, NEW r, r.op = "generate",
         NEW S \in SUBSET Declared(c), NEW n \in 0..MaxPublished,
         Current(c, Render(c, WithMissingKeys(s, S, n), S), S)
  PROVE  Accomplishes(r, c, s, Render(c, WithMissingKeys(s, S, n), S))
<1> DEFINE u == WithMissingKeys(s, S, n)
           V == IF ServerStatus(s) = "missing" THEN ServerKeys(n) ELSE s.server
           P == [p \in Peers |-> IF p \in S /\ PeerStatus(s, p) = "missing"
                                 THEN WithPeerKeys(s.peers[p], p, n) ELSE s.peers[p]]
<1>0. s \in Stores /\ S \subseteq Peers /\ ServerOK(s) /\ \A p \in Peers : DirOK(s, p)
  BY DEF StoreOK, Declared
<1>1. V \in Servers /\ (V.private # None /\ V.public # None => V.private = V.public)
  <2>1. ServerKeys(n) \in Servers
    BY NewKeys DEF ServerKeys, Servers
  <2> QED BY <1>0, <2>1 DEF Stores, ServerKeys, ServerOK
<1>2. P \in [Peers -> Dirs]
  BY <1>0, PeerKeysIs DEF Stores
<1>3. u = [server |-> V, receipts |-> s.receipts, peers |-> P]
  <2>1. u = [s EXCEPT !.server = V, !.peers = P]
    BY DEF WithMissingKeys
  <2> HIDE DEF u, V, P
  <2> QED BY <1>0, <2>1 DEF Stores
<1>4. ASSUME NEW p \in Peers PROVE KeysOK(u, p)
  <2>1. u.peers[p] = P[p]
    <3> HIDE DEF u, P
    <3> QED BY <1>3
  <2>2. CASE p \in S /\ PeerStatus(s, p) = "missing"
    <3>1. u.peers[p] = [private |-> NewKey(p, n), public |-> NewKey(p, n),
                        preshared |-> NewKey(p, n), conf |-> s.peers[p].conf,
                        print |-> s.peers[p].print]
      <4>1. u.peers[p] = WithPeerKeys(s.peers[p], p, n)
        BY <2>1, <2>2
      <4> QED BY <1>0, <4>1, PeerKeysIs
    <3> HIDE DEF u
    <3> QED BY <3>1, NewKeys DEF KeysOK
  <2>3. CASE ~(p \in S /\ PeerStatus(s, p) = "missing")
    <3>1. u.peers[p] = s.peers[p]
      BY <2>1, <2>3
    <3> HIDE DEF u
    <3> QED BY <1>0, <3>1 DEF DirOK, KeysOK
  <2> QED BY <2>2, <2>3
<1>5. \A p \in Peers : ~(p \in S /\ PeerStatus(s, p) = "missing") => u.peers[p] = s.peers[p]
  <2>1. u.peers = P
    <3> HIDE DEF u, P
    <3> QED BY <1>3
  <2> QED BY <2>1
<1>6. u \in Stores /\ u.receipts = s.receipts /\ u.server = V
  <2> HIDE DEF u, V, P
  <2> QED BY <1>0, <1>1, <1>2, <1>3 DEF Stores
<1> HIDE DEF u, P
<1>7. ServerOK(u)
  BY <1>1, <1>6 DEF ServerOK
<1>8. \A p \in Peers \ S : DirOK(u, p)
  <2> SUFFICES ASSUME NEW p \in Peers \ S PROVE DirOK(u, p)
    OBVIOUS
  <2>1. u.peers[p] = s.peers[p]
    BY <1>5
  <2> QED BY <1>0, <1>4, <2>1 DEF DirOK, PeerStatus
<1>9. ASSUME NEW p \in Peers, KeysComplete(s, {p}) PROVE SameKeys(s, u, p)
  <2>1. ServerStatus(s) # "missing" /\ PeerStatus(s, p) # "missing"
    BY <1>9 DEF KeysComplete
  <2> QED BY <1>5, <1>6, <2>1 DEF SameKeys
<1> QED BY <1>4, <1>6, <1>7, <1>8, <1>9, RenderAccomplishes DEF u

\* rotate-peer: one phone's keys
LEMMA RotatePeerAccomplishes ==
  ASSUME NEW s, StoreOK(s), NEW c \in Configs, NEW r, r.op = "rotate-peer",
         r.peer \in Declared(c), NEW n \in 0..MaxPublished,
         NEW u, u = [s EXCEPT !.peers[r.peer] = WithPeerKeys(@, r.peer, n)],
         Current(c, Render(c, u, {r.peer}), {r.peer})
  PROVE  Accomplishes(r, c, s, Render(c, u, {r.peer}))
<1> DEFINE q == r.peer
           d == WithPeerKeys(s.peers[q], q, n)
<1> HIDE DEF q, d
<1>0. /\ s \in Stores /\ q \in Peers /\ ServerOK(s) /\ \A p \in Peers : DirOK(s, p)
      /\ q = r.peer
  BY DEF StoreOK, Declared, q
<1>1. u = [server |-> s.server, receipts |-> s.receipts, peers |-> [s.peers EXCEPT ![q] = d]]
  BY <1>0 DEF Stores, d
<1>2. /\ d \in Dirs
      /\ d.private = NewKey(q, n) /\ d.public = NewKey(q, n) /\ d.preshared = NewKey(q, n)
  <2>1. d = [private |-> NewKey(q, n), public |-> NewKey(q, n), preshared |-> NewKey(q, n),
             conf |-> s.peers[q].conf, print |-> s.peers[q].print] /\ d \in Dirs
    BY <1>0, PeerKeysIs DEF d
  <2> QED BY <2>1
<1>3. /\ u \in Stores /\ u.receipts = s.receipts /\ u.server = s.server
      /\ u.peers[q] = d /\ \A p \in Peers \ {q} : u.peers[p] = s.peers[p]
  BY <1>0, <1>1, <1>2 DEF Stores
<1>4. \A p \in Peers : KeysOK(u, p)
  BY <1>0, <1>2, <1>3, NewKeys DEF KeysOK, DirOK
<1>5. ASSUME NEW p \in Peers \ {q} PROVE DirOK(u, p)
  <2>1. DirOK(s, p) /\ KeysOK(u, p) /\ u.peers[p] = s.peers[p] /\ u.server = s.server
    BY <1>0, <1>3, <1>4
  <2> QED BY ONLY <2>1 DEF DirOK, PeerStatus
<1>6. ServerOK(u)
  BY <1>0, <1>3 DEF ServerOK
<1>7. \A p \in Peers \ Cut(r, c, s) : SameKeys(s, u, p)
  BY <1>0, <1>3 DEF Cut, SameKeys
<1>8. {q} \in SUBSET Declared(c)
  BY <1>0
<1> QED BY <1>0, <1>3, <1>4, <1>5, <1>6, <1>7, <1>8, RenderAccomplishes

\* rotate-server: the server's keys
LEMMA RotateServerAccomplishes ==
  ASSUME NEW s, StoreOK(s), NEW c \in Configs, NEW r, r.op = "rotate-server",
         NEW S \in SUBSET Declared(c), NEW n \in 0..MaxPublished,
         NEW u, u = [s EXCEPT !.server = ServerKeys(n)],
         Current(c, Render(c, u, S), S)
  PROVE  Accomplishes(r, c, s, Render(c, u, S))
<1>0. s \in Stores /\ ServerOK(s) /\ \A p \in Peers : DirOK(s, p)
  BY DEF StoreOK
<1>1. /\ ServerKeys(n) \in Servers /\ ServerKeys(n).private = ServerKeys(n).public
  BY NewKeys DEF ServerKeys, Servers
<1>2. u \in Stores /\ u.receipts = s.receipts /\ u.peers = s.peers /\ u.server = ServerKeys(n)
  <2> HIDE DEF ServerKeys
  <2> QED BY <1>0, <1>1 DEF Stores
<1>3. ServerOK(u)
  BY <1>1, <1>2 DEF ServerOK
<1>4. \A p \in Peers : DirOK(u, p) /\ KeysOK(u, p)
  BY <1>0, <1>2 DEF DirOK, KeysOK, PeerStatus
<1>5. Cut(r, c, s) = Peers
  BY DEF Cut
<1> QED BY <1>2, <1>3, <1>4, <1>5, RenderAccomplishes

\* prune: directories of peers that are not declared
LEMMA PruneAccomplishes ==
  ASSUME NEW s, StoreOK(s), NEW c \in Configs, NEW r, r.op = "prune",
         NEW u, u = [s EXCEPT !.peers = [p \in Peers |->
                       IF p \in Orphans(s, c) THEN NoPeer ELSE s.peers[p]]]
  PROVE  Accomplishes(r, c, s, u)
<1> DEFINE P == [p \in Peers |-> IF p \in Orphans(s, c) THEN NoPeer ELSE s.peers[p]]
<1>0. s \in Stores /\ ServerOK(s) /\ \A p \in Peers : DirOK(s, p)
  BY DEF StoreOK
<1>1. NoPeer \in Dirs
  BY DEF NoPeer, Dirs
<1>2. P \in [Peers -> Dirs]
  BY <1>0, <1>1 DEF Stores
<1>3. u \in Stores /\ u.receipts = s.receipts /\ u.peers = P /\ u.server = s.server
  <2> HIDE DEF P
  <2>1. u = [server |-> s.server, receipts |-> s.receipts, peers |-> P]
    BY <1>0 DEF Stores, P
  <2> QED BY <1>0, <1>2, <2>1 DEF Stores
<1>4. ServerOK(u)
  BY <1>0, <1>3 DEF ServerOK
<1>5. ASSUME NEW p \in Peers PROVE DirOK(u, p)
  <2>1. CASE p \in Orphans(s, c)
    <3>1. u.peers[p] = NoPeer
      BY <1>3, <2>1
    <3> QED BY <3>1 DEF DirOK, KeysOK, KeyNames, NoPeer
  <2>2. CASE p \notin Orphans(s, c)
    <3>1. u.peers[p] = s.peers[p]
      BY <1>3, <2>2
    <3> QED BY <1>0, <3>1 DEF DirOK, KeysOK, PeerStatus
  <2> QED BY <2>1, <2>2
<1>6. \A p \in Peers \ Cut(r, c, s) : SameKeys(s, u, p)
  BY <1>3 DEF Cut, SameKeys
<1> QED BY <1>3, <1>4, <1>5, <1>6 DEF Accomplishes, StoreOK
\* The requests that a command line can make.
LEMMA RequestIs ==
  ASSUME NEW r \in Requests
  PROVE  /\ r.op \in {"generate", "phone", "rotate-peer", "rotate-server", "prune"}
         /\ r.peer \in Peers \cup {None} /\ r.id \in Ids \cup {None}
         /\ r.op \in {"phone", "rotate-peer"} => r.peer \in Peers
         /\ r.id # None => Kind(r) \in Kinds
<1> QED BY DEF Requests, Request, Kind, Kinds

\* Whatever the mutator, what its validator accepts is in order.
LEMMA MutationAccomplishes ==
  ASSUME NEW s, StoreOK(s), NEW c \in Configs, NEW r \in Requests,
         NEW n \in 0..MaxPublished, r.peer # None => r.peer \in Declared(c),
         Valid(r, c, Mutated(r, c, s, n))
  PROVE  Accomplishes(r, c, s, Mutated(r, c, s, n))
<1> DEFINE S == Selected(r, c)
<1>0. s \in Stores /\ ServerOK(s) /\ \A p \in Peers : DirOK(s, p) /\ KeysOK(s, p)
  BY DEF StoreOK, DirOK
<1>1. S \in SUBSET Declared(c) /\ (r.peer # None => S = {r.peer})
  BY SelectedIs
<1>2. r.op \in {"generate", "phone", "rotate-peer", "rotate-server", "prune"}
      /\ (r.op \in {"phone", "rotate-peer"} => r.peer \in Peers)
  BY RequestIs
<1>3. None \notin Peers
  BY KeysAssumption
<1> HIDE DEF S
<1>4. CASE r.op = "generate"
  <2>1. Mutated(r, c, s, n) = Render(c, WithMissingKeys(s, S, n), S)
    BY <1>4 DEF Mutated, S
  <2>2. Current(c, Mutated(r, c, s, n), S)
    BY <1>4 DEF Valid, S
  <2> QED BY <1>1, <1>4, <2>1, <2>2, GenerateAccomplishes
<1>5. CASE r.op = "phone"
  <2>1. Mutated(r, c, s, n) = Render(c, s, S)
    BY <1>5 DEF Mutated, S
  <2>2. Current(c, Mutated(r, c, s, n), S)
    BY <1>5 DEF Valid, S
  <2>3. \A p \in Peers : SameKeys(s, s, p)
    BY DEF SameKeys
  <2> QED BY <1>0, <1>1, <2>1, <2>2, <2>3, RenderAccomplishes
<1>6. CASE r.op = "rotate-peer"
  <2> DEFINE u == [s EXCEPT !.peers[r.peer] = WithPeerKeys(@, r.peer, n)]
  <2>1. Mutated(r, c, s, n) = Render(c, u, S)
    BY <1>6 DEF Mutated, S
  <2>2. Current(c, Mutated(r, c, s, n), S)
    BY <1>6 DEF Valid, S
  <2>3. S = {r.peer} /\ r.peer \in Declared(c)
    BY <1>1, <1>2, <1>3, <1>6
  <2> QED BY <1>6, <2>1, <2>2, <2>3, RotatePeerAccomplishes
<1>7. CASE r.op = "rotate-server"
  <2> DEFINE u == [s EXCEPT !.server = ServerKeys(n)]
  <2>1. Mutated(r, c, s, n) = Render(c, u, S)
    BY <1>7 DEF Mutated, S
  <2>2. Current(c, Mutated(r, c, s, n), S)
    BY <1>7 DEF Valid, S
  <2> QED BY <1>1, <1>7, <2>1, <2>2, RotateServerAccomplishes
<1>8. CASE r.op = "prune"
  <2>1. Mutated(r, c, s, n) = [s EXCEPT !.peers = [p \in Peers |->
                                 IF p \in Orphans(s, c) THEN NoPeer ELSE s.peers[p]]]
    BY <1>8 DEF Mutated
  <2> QED BY <1>8, <2>1, PruneAccomplishes
<1> QED BY <1>2, <1>4, <1>5, <1>6, <1>7, <1>8

WithReceipt(t, r) == [t EXCEPT !.receipts[r.id] = Kind(r)]

\* The receipt beside the files changes nothing else.
LEMMA ReceiptAdded ==
  ASSUME NEW t, NEW r \in Requests, r.id # None, StoreOK(t)
  PROVE  /\ WithReceipt(t, r).receipts[r.id] = Kind(r)
         /\ \A i \in Ids \ {r.id} : WithReceipt(t, r).receipts[i] = t.receipts[i]
         /\ StoreOK(WithReceipt(t, r))
<1> DEFINE u == WithReceipt(t, r)
<1>1. r.id \in Ids /\ Kind(r) \in Kinds
  BY RequestIs
<1>2. u = [server |-> t.server, receipts |-> [t.receipts EXCEPT ![r.id] = Kind(r)],
           peers |-> t.peers]
  BY DEF StoreOK, Stores, WithReceipt
<1> HIDE DEF u
<1>3. u \in Stores /\ u.server = t.server /\ u.peers = t.peers
      /\ u.receipts = [t.receipts EXCEPT ![r.id] = Kind(r)]
  BY <1>1, <1>2 DEF StoreOK, Stores
<1>4. StoreOK(u)
  BY <1>3 DEF StoreOK, ServerOK, DirOK, KeysOK, PeerStatus
<1>5. u.receipts[r.id] = Kind(r) /\ \A i \in Ids \ {r.id} : u.receipts[i] = t.receipts[i]
  BY <1>1, <1>3 DEF StoreOK, Stores
<1> QED BY <1>4, <1>5 DEF u
Shaped(t) == t = [server |-> t.server, receipts |-> t.receipts, peers |-> t.peers]

\* A mutator changes fields of a generation and adds none.
LEMMA MutatedShaped ==
  ASSUME NEW s \in Stores, NEW c, NEW r \in Requests, NEW n
  PROVE  Shaped(Mutated(r, c, s, n))
<1>1. ASSUME NEW x PROVE Shaped([s EXCEPT !.peers = x]) /\ Shaped([s EXCEPT !.server = x])
  <2>1. [s EXCEPT !.peers = x] = [server |-> s.server, receipts |-> s.receipts, peers |-> x]
    BY DEF Stores
  <2>2. [s EXCEPT !.server = x] = [server |-> x, receipts |-> s.receipts, peers |-> s.peers]
    BY DEF Stores
  <2> QED BY <2>1, <2>2 DEF Shaped
<1>2. ASSUME NEW x, NEW y PROVE Shaped([s EXCEPT !.server = x, !.peers = y])
  <2> SUFFICES ASSUME NEW e, e = [s EXCEPT !.server = x, !.peers = y] PROVE Shaped(e)
    OBVIOUS
  <2>1. e = [server |-> x, receipts |-> s.receipts, peers |-> y]
    BY DEF Stores
  <2> QED BY <2>1 DEF Shaped
<1>3. ASSUME NEW u, Shaped(u), NEW S PROVE Shaped(Render(c, u, S))
  <2> DEFINE P == [p \in Peers |-> IF p \in S
                   THEN [u.peers[p] EXCEPT !.conf = PhoneConfig(c, u, p),
                                           !.print = Fingerprint(c, u, p)]
                   ELSE u.peers[p]]
  <2>1. Render(c, u, S) = [u EXCEPT !.peers = P]
    BY DEF Render
  <2> HIDE DEF P
  <2> QED BY <1>3, <2>1 DEF Shaped
<1>4. Shaped(s)
  BY DEF Shaped, Stores
<1>5. Shaped([s EXCEPT !.peers[r.peer] = WithPeerKeys(@, r.peer, n)])
  BY DEF Shaped, Stores
<1>6. Shaped(WithMissingKeys(s, Selected(r, c), n))
  BY <1>2 DEF WithMissingKeys
<1>7. r.op \in {"generate", "phone", "rotate-peer", "rotate-server", "prune"}
  BY RequestIs
<1>8. CASE r.op = "generate"
  BY <1>8, <1>3, <1>6 DEF Mutated
<1>9. CASE r.op = "phone"
  BY <1>9, <1>3, <1>4 DEF Mutated
<1>10. CASE r.op = "rotate-peer"
  BY <1>10, <1>3, <1>5 DEF Mutated
<1>11. CASE r.op = "rotate-server"
  BY <1>11, <1>3, <1>1 DEF Mutated
<1>12. CASE r.op = "prune"
  BY <1>12, <1>1 DEF Mutated
<1> QED BY <1>7, <1>8, <1>9, <1>10, <1>11, <1>12

\* Validators look at keys and phone configurations, not at receipts.
LEMMA ValidIgnoresReceipts ==
  ASSUME NEW r, NEW c, NEW t, NEW u, u.server = t.server, u.peers = t.peers, Valid(r, c, u)
  PROVE  Valid(r, c, t)
<1> QED
  BY DEF Valid, Current, KeysComplete, ServerStatus, PeerStatus, PhoneConfig, Fingerprint

\* The generation that mutate_state publishes
Staged(r, c, s, n) ==
  IF r.id = None THEN Mutated(r, c, s, n)
  ELSE [Mutated(r, c, s, n) EXCEPT !.receipts[r.id] = Kind(r)]

\* What mutate_state publishes, receipt included
LEMMA Published ==
  ASSUME NEW s, StoreOK(s), NEW c \in Configs, NEW r \in Requests,
         NEW n \in 0..MaxPublished, r.peer # None => r.peer \in Declared(c),
         NEW u, u = Staged(r, c, s, n), Valid(r, c, u)
  PROVE  /\ StoreOK(u)
         /\ \A p \in Peers \ Cut(r, c, s) : KeysComplete(s, {p}) => SameKeys(s, u, p)
         /\ r.id # None => u.receipts[r.id] # None
         /\ \A i \in Ids : s.receipts[i] # None => u.receipts[i] # None
<1> DEFINE t == Mutated(r, c, s, n)
<1> HIDE DEF t
<1>1. Shaped(t)
  BY MutatedShaped DEF StoreOK, t
<1>2. u = (IF r.id = None THEN t ELSE [t EXCEPT !.receipts[r.id] = Kind(r)])
  BY DEF t, Staged
<1>3. u.server = t.server /\ u.peers = t.peers
  BY <1>1, <1>2 DEF Shaped
<1>4. Accomplishes(r, c, s, t)
  BY <1>3, ValidIgnoresReceipts, MutationAccomplishes DEF t
<1>5. \A p \in Peers \ Cut(r, c, s) : KeysComplete(s, {p}) => SameKeys(s, u, p)
  BY <1>3, <1>4 DEF Accomplishes, SameKeys
<1>6. CASE r.id = None
  BY <1>2, <1>4, <1>5, <1>6 DEF Accomplishes
<1>7. CASE r.id # None
  <2>1. /\ u.receipts[r.id] = Kind(r) /\ StoreOK(u)
        /\ \A i \in Ids \ {r.id} : u.receipts[i] = t.receipts[i]
    <3>1. u = WithReceipt(t, r) /\ StoreOK(t)
      BY <1>2, <1>4, <1>7, Zenon DEF Accomplishes, WithReceipt
    <3>2. /\ WithReceipt(t, r).receipts[r.id] = Kind(r)
          /\ \A i \in Ids \ {r.id} : WithReceipt(t, r).receipts[i] = t.receipts[i]
          /\ StoreOK(WithReceipt(t, r))
      BY <1>7, <3>1, ReceiptAdded, Zenon
    <3> QED BY <3>1, <3>2, Zenon
  <2>2. Kind(r) # None
    BY <1>7, RequestIs, NoneAssumption DEF Kinds
  <2> QED BY <1>4, <1>5, <2>1, <2>2 DEF Accomplishes
<1> QED BY <1>6, <1>7

-------------------------------------------------------------------------------
(* The invariant is inductive *)

\* An empty state directory, or a legacy one that may have lost a file
LEMMA KeysInit == Init => KeysInv
<1> SUFFICES ASSUME Init PROVE KeysInv
  OBVIOUS
<1>1. 0 \in 0..MaxPublished /\ 0 \in 0..MaxEdits
  BY KeysAssumption
<1>2. Rest
  BY <1>1 DEF Init, Rest
<1>3. NoPeer \in Dirs /\ NoServer \in Servers
  BY DEF NoPeer, NoServer, Dirs, Servers, KeyNames
<1>4. StoreOK(Empty)
  <2>1. Empty \in Stores
    BY <1>3 DEF Empty, Stores
  <2>2. Empty.server = NoServer /\ Empty.peers = [p \in Peers |-> NoPeer]
    BY DEF Empty
  <2>3. ServerOK(Empty)
    BY <2>2 DEF ServerOK, NoServer
  <2>4. ASSUME NEW p \in Peers PROVE DirOK(Empty, p)
    <3>1. Empty.peers[p] = NoPeer
      BY <2>2
    <3> QED BY <3>1 DEF DirOK, KeysOK, KeyNames, NoPeer
  <2> QED BY <2>1, <2>3, <2>4 DEF StoreOK
<1>5. ASSUME NEW s \in Legacy(config) PROVE StoreOK(s)
  <2> DEFINE P == [p \in Peers |-> IF p \in Declared(config)
                            THEN WithPeerKeys(NoPeer, p, 0) ELSE NoPeer]
             R == [i \in Ids |-> None]
             keys == [server |-> ServerKeys(0), receipts |-> R, peers |-> P]
  <2>1. ServerKeys(0) \in Servers /\ NewKey("server", 0) # None
        /\ ServerKeys(0) = [private |-> NewKey("server", 0), public |-> NewKey("server", 0)]
    BY <1>1, NewKeys DEF ServerKeys, Servers
  <2>2. ASSUME NEW p \in Peers
        PROVE  /\ P[p] \in Dirs /\ P[p].conf = None /\ P[p].print = None
               /\ P[p].private = P[p].public
               /\ {P[p].private, P[p].public, P[p].preshared} \subseteq KeyNames(p)
    <3>1. NewKey(p, 0) \in Names /\ NewKey(p, 0) \in KeyNames(p) /\ None \in KeyNames(p)
      BY <1>1, NewKeys DEF KeyNames
    <3>2. WithPeerKeys(NoPeer, p, 0) =
            [private |-> NewKey(p, 0), public |-> NewKey(p, 0), preshared |-> NewKey(p, 0),
             conf |-> None, print |-> None]
      <4>1. NoPeer \in Dirs /\ NoPeer.conf = None /\ NoPeer.print = None
        BY <1>3 DEF NoPeer
      <4>2. WithPeerKeys(NoPeer, p, 0) =
              [private |-> NewKey(p, 0), public |-> NewKey(p, 0), preshared |-> NewKey(p, 0),
               conf |-> NoPeer.conf, print |-> NoPeer.print]
        BY <4>1, WithPeerKeysIs, Zenon
      <4> QED BY <4>1, <4>2, Zenon
    <3>3. CASE p \in Declared(config)
      <4>1. P[p] = [private |-> NewKey(p, 0), public |-> NewKey(p, 0),
                    preshared |-> NewKey(p, 0), conf |-> None, print |-> None]
        BY <3>2, <3>3
      <4> HIDE DEF P
      <4> QED BY <3>1, <4>1 DEF Dirs
    <3>4. CASE p \notin Declared(config)
      <4>1. P[p] = NoPeer
        BY <3>4
      <4> HIDE DEF P
      <4> QED BY <3>1, <4>1, <1>3 DEF NoPeer
    <3> QED BY <3>3, <3>4
  <2>3. DOMAIN P = Peers /\ P = [p \in Peers |-> P[p]]
    OBVIOUS
  <2>4. R \in [Ids -> Kinds \cup {None}]
    OBVIOUS
  <2>5. s = keys \/ s = [keys EXCEPT !.server.public = None]
          \/ \E p \in Declared(config) : s = [keys EXCEPT !.peers[p].preshared = None]
    BY DEF Legacy
  <2> HIDE DEF P, R
  <2>6. keys \in Stores
    BY <2>1, <2>2, <2>3, <2>4 DEF Stores
  <2>7. CASE s = keys
    BY <2>1, <2>2, <2>6, <2>7 DEF StoreOK, ServerOK, DirOK, KeysOK
  <2>8. CASE s = [keys EXCEPT !.server.public = None]
    <3>1. /\ s = [server |-> [private |-> NewKey("server", 0), public |-> None],
                  receipts |-> R, peers |-> P]
      BY <2>1, <2>8
    <3>2. s.server \in Servers
      BY <3>1, <2>1 DEF Servers, KeyNames
    <3>3. s \in Stores
      BY <3>1, <3>2, <2>6 DEF Stores
    <3> QED BY <3>1, <3>3, <2>2 DEF StoreOK, ServerOK, DirOK, KeysOK
  <2>9. ASSUME NEW q \in Declared(config), s = [keys EXCEPT !.peers[q].preshared = None]
        PROVE  StoreOK(s)
    <3>0. q \in Peers
      BY DEF Declared
    <3>1. s = [server |-> ServerKeys(0), receipts |-> R,
               peers |-> [P EXCEPT ![q] = [P[q] EXCEPT !.preshared = None]]]
      BY <2>9
    <3> DEFINE d == [P[q] EXCEPT !.preshared = None]
    <3>2. d \in Dirs /\ d.conf = None /\ d.print = None /\ d.private = P[q].private
          /\ d.public = P[q].public /\ d.preshared = None
      BY <3>0, <2>2 DEF Dirs
    <3> HIDE DEF d
    <3>3. s.server = ServerKeys(0) /\ s.receipts = R /\ s.peers = [P EXCEPT ![q] = d]
      BY <3>1 DEF d
    <3>4. s.peers \in [Peers -> Dirs] /\ s.peers[q] = d /\ \A p \in Peers \ {q} : s.peers[p] = P[p]
      BY <3>0, <3>2, <3>3, <2>2, <2>3
    <3>5. s \in Stores
      BY <3>1, <3>3, <3>4, <2>1, <2>4 DEF Stores
    <3>6. ServerOK(s)
      BY <3>3, <2>1 DEF ServerOK
    <3>7. ASSUME NEW p \in Peers PROVE DirOK(s, p)
      BY <3>0, <3>2, <3>4, <2>2 DEF DirOK, KeysOK, KeyNames
    <3> QED BY <3>5, <3>6, <3>7 DEF StoreOK
  <2> QED BY <2>5, <2>7, <2>8, <2>9
<1>6. StoreOK(store)
  BY <1>4, <1>5 DEF Init
<1>7. \A p \in Peers : UpToDatePhone(p)
  BY DEF Init, UpToDatePhone
<1> QED BY <1>2, <1>6, <1>7 DEF Init, KeysInv, Served, ServesPublished, Planned
\* Parsing config.yaml, or ending without an effect
LEMMA KeepsBegin ==
  ASSUME KeysInv, NEW k \in Commands, Begin(k) \/ Finish(k)
  PROVE  KeysInv'
<1>1. Rest'
  BY DEF KeysInv, Rest, Begin, Finish, launch
<1>2. UNCHANGED <<launch, config, store, imported, reimport, done, published>>
  BY DEF Begin, Finish
<1> QED BY <1>1, <1>2 DEF KeysInv, Served, ServesPublished, SetUpWith, Accepts, Planned,
                          UpToDatePhone, launch

\* Nothing is published while a gateway serves, and the phones that keep their
\* keys keep a configuration that is current.
LEMMA KeepsPublish ==
  ASSUME KeysInv, NEW k \in Commands, NEW r \in Requests, Publish(k, r)
  PROVE  KeysInv'
<1> DEFINE c == command[k].config
<1>1. c \in Configs /\ serving = None /\ serving' = None
  <2>1. command[k].step = "mutate"
    BY DEF Publish, Mutating
  <2>2. command[k] \in {Idle} \cup [step : {"mutate"}, config : Configs]
                              \cup [step : {"read"}, peer : Peers]
    BY DEF KeysInv, Rest
  <2>3. command[k] \in [step : {"mutate"}, config : Configs]
    BY <2>1, <2>2 DEF Idle
  <2> QED BY <2>3 DEF Publish, Mutating, Locked, launch
<1> HIDE DEF c
<1>2. published' \in 0..MaxPublished
  BY KeysAssumption DEF Publish, KeysInv, Rest
<1>3. /\ StoreOK(store')
      /\ \A p \in Peers \ Cut(r, c, store) :
           KeysComplete(store, {p}) => SameKeys(store, store', p)
      /\ r.id # None => store'.receipts[r.id] # None
      /\ \A i \in Ids : store.receipts[i] # None => store'.receipts[i] # None
  <2>1. /\ store' = Staged(r, c, store, published')
        /\ Valid(r, c, store')
        /\ r.peer # None => r.peer \in Declared(c)
    BY DEF Publish, Staged, c
  <2>2. StoreOK(store)
    BY DEF KeysInv
  <2>3. PICK s, n, u : s = store /\ n = published' /\ u = store'
    OBVIOUS
  <2>4. /\ StoreOK(s) /\ c \in Configs /\ n \in 0..MaxPublished
        /\ r.peer # None => r.peer \in Declared(c)
        /\ u = Staged(r, c, s, n) /\ Valid(r, c, u)
    BY <1>1, <1>2, <2>1, <2>2, <2>3, Zenon
  <2>5. /\ StoreOK(u)
        /\ \A p \in Peers \ Cut(r, c, s) : KeysComplete(s, {p}) => SameKeys(s, u, p)
        /\ r.id # None => u.receipts[r.id] # None
        /\ \A i \in Ids : s.receipts[i] # None => u.receipts[i] # None
    BY ONLY <2>4, r \in Requests, Published
  <2> QED BY <2>3, <2>5, Zenon
<1>4. Affected(r, c) = Cut(r, c, store)
  <2>1. r.id \notin done
    <3>1. Receipt(r) = None /\ \A i \in done : store.receipts[i] # None /\ i \in Ids
      BY DEF Publish, KeysInv, Rest
    <3> QED BY <3>1, KeysAssumption DEF Receipt
  <2> QED BY <2>1 DEF Affected, Cut
<1>5. Rest'
  <2>1. r.op = "phone" => r.peer \in Peers
    BY RequestIs
  <2>2. r.id # None => r.id \in Ids
    BY RequestIs
  <2>3. command' \in [Commands -> {Idle} \cup [step : {"mutate"}, config : Configs]
                                         \cup [step : {"read"}, peer : Peers]]
    BY <2>1 DEF Publish, KeysInv, Rest
  <2>4. reimport' \subseteq Peers
    <3>1. Cut(r, c, store) \subseteq Peers
      BY RequestIs DEF Cut, Orphans
    <3> QED BY <1>4, <3>1 DEF Publish, KeysInv, Rest, c
  <2> QED BY <1>2, <2>2, <2>3, <2>4 DEF Publish, KeysInv, Rest, launch
<1>6. \A i \in done' : store'.receipts[i] # None
  BY <1>3 DEF Publish, KeysInv, Rest
<1>7. ASSUME NEW p \in Peers \ reimport' PROVE UpToDatePhone(p)'
  <2>1. p \notin reimport /\ p \notin Cut(r, c, store)
    BY <1>4 DEF Publish, c
  <2>2. UpToDatePhone(p)
    BY <2>1 DEF KeysInv
  <2>3. UNCHANGED <<config, imported>>
    BY DEF Publish
  <2>4. CASE imported[p] = None
    BY <2>3, <2>4 DEF UpToDatePhone
  <2>5. CASE imported[p] # None
    <3>1. p \in Declared(config) /\ KeysComplete(store, {p})
          /\ imported[p] = PhoneConfig(config, store, p)
      BY <2>2, <2>5 DEF UpToDatePhone
    <3>2. SameKeys(store, store', p)
      BY <1>3, <2>1, <3>1
    <3>3. KeysComplete(store', {p})
      BY <3>1, <3>2, ServerStatusIs, PeerStatusIs DEF KeysComplete, SameKeys
    <3>4. PhoneConfig(config', store', p) = PhoneConfig(config, store, p)
      BY <2>3, <3>2 DEF PhoneConfig, SameKeys
    <3> QED BY <2>3, <3>1, <3>3, <3>4 DEF UpToDatePhone
  <2> QED BY <2>4, <2>5
<1>8. Served' /\ ServesPublished'
  BY <1>1 DEF Served, ServesPublished
<1>9. Planned'
  <2>1. UNCHANGED launch /\ published' = published + 1
    BY DEF Publish
  <2> QED BY <1>1, <2>1 DEF KeysInv, Rest, Planned, Plans, launch
<1> QED BY <1>3, <1>5, <1>6, <1>7, <1>8, <1>9 DEF KeysInv

\* A phone imports what is in the store, and need not import again only when
\* that is current.
LEMMA KeepsHandOut ==
  ASSUME KeysInv, NEW k \in Commands, HandOut(k)
  PROVE  KeysInv'
<1> DEFINE q == command[k].peer
<1>1. q \in Peers
  <2>1. command[k].step = "read"
    BY DEF HandOut
  <2>2. command[k] \in {Idle} \cup [step : {"mutate"}, config : Configs]
                              \cup [step : {"read"}, peer : Peers]
    BY DEF KeysInv, Rest
  <2>3. command[k] \in [step : {"read"}, peer : Peers]
    BY <2>1, <2>2 DEF Idle
  <2> QED BY <2>3
<1> HIDE DEF q
<1>2. store.peers[q].conf \in PhoneConfigs
  <2>1. store.peers[q].conf # None
    BY DEF HandOut, q
  <2>2. store.peers[q] \in Dirs
    BY <1>1 DEF KeysInv, StoreOK, Stores
  <2> QED BY <2>1, <2>2 DEF Dirs
<1>3. /\ imported' = [imported EXCEPT ![q] = store.peers[q].conf]
      /\ reimport' = IF q \in Declared(config) /\ Current(config, store, {q})
                     THEN reimport \ {q} ELSE reimport \cup {q}
      /\ UNCHANGED <<launch, config, store, done, published, edits>>
  BY DEF HandOut, q
<1>4. Rest'
  <2>1. command' \in [Commands -> {Idle} \cup [step : {"mutate"}, config : Configs]
                                         \cup [step : {"read"}, peer : Peers]]
    BY DEF HandOut, KeysInv, Rest
  <2> QED BY <1>1, <1>2, <1>3, <2>1 DEF KeysInv, Rest, launch
<1>5. ASSUME NEW p \in Peers \ reimport' PROVE UpToDatePhone(p)'
  <2>1. CASE p = q
    <3>1. q \in Declared(config) /\ Current(config, store, {q})
      BY <1>3, <2>1
    <3>2. imported'[q] = PhoneConfig(config, store, q)
      BY <1>1, <1>3, <3>1 DEF Current, KeysInv, Rest
    <3> QED BY <1>3, <2>1, <3>1, <3>2 DEF Current, UpToDatePhone
  <2>2. CASE p # q
    <3>1. p \notin reimport /\ imported'[p] = imported[p]
      BY <1>3, <2>2 DEF KeysInv, Rest
    <3> QED BY <1>3, <3>1 DEF KeysInv, UpToDatePhone
  <2> QED BY <2>1, <2>2
<1>6. Served' /\ ServesPublished' /\ Planned'
  BY <1>3 DEF KeysInv, Served, ServesPublished, SetUpWith, Accepts, Planned, launch
<1> QED BY <1>3, <1>4, <1>5, <1>6 DEF KeysInv

\* The plan is for the generation that up looked at.
LEMMA KeepsPrepare ==
  ASSUME KeysInv, NEW k \in Commands, Prepare(k)
  PROVE  KeysInv'
<1> DEFINE c == command[k].config
<1>1. c \in Configs
  <2>1. command[k].step = "mutate"
    BY DEF Prepare, Mutating
  <2>2. command[k] \in {Idle} \cup [step : {"mutate"}, config : Configs]
                              \cup [step : {"read"}, peer : Peers]
    BY DEF KeysInv, Rest
  <2>3. command[k] \in [step : {"mutate"}, config : Configs]
    BY <2>1, <2>2 DEF Idle
  <2> QED BY <2>3
<1>2. /\ Current(c, store, Declared(c)) /\ published > 0
      /\ plan' = [checked |-> c, file |-> config, generation |-> published]
      /\ serving = None /\ published \in Nat
      /\ UNCHANGED <<config, store, gateway, serving, imported, reimport, done, published,
                     edits>>
  BY KeysAssumption DEF Prepare, Mutating, Locked, KeysInv, Rest
<1> HIDE DEF c
<1>3. plan' \in Plans /\ plan'.checked = c /\ plan'.generation = published
  BY <1>1, <1>2 DEF KeysInv, Rest, Plans
<1>4. Rest'
  <2>1. command' \in [Commands -> {Idle} \cup [step : {"mutate"}, config : Configs]
                                         \cup [step : {"read"}, peer : Peers]]
    BY DEF Prepare, KeysInv, Rest
  <2> QED BY <1>2, <1>3, <2>1 DEF KeysInv, Rest
<1>5. Planned'
  <2>1. plan' # None
    BY <1>3, PlanAssumption
  <2>2. plan'.generation \in 1..published'
    BY <1>2, <1>3
  <2>3. Current(plan'.checked, store', Declared(plan'.checked))
    BY <1>2, <1>3
  <2> QED BY <2>1, <2>2, <2>3 DEF Planned
<1>6. Served' /\ ServesPublished'
  BY <1>2 DEF Served, ServesPublished
<1> QED BY <1>2, <1>4, <1>5, <1>6 DEF KeysInv, UpToDatePhone

\* A gateway has parsed a configuration; it has no lock yet.
LEMMA KeepsLoad == ASSUME KeysInv, Load PROVE KeysInv'
<1>1. gateway' \in Gateways
  BY DEF Load, KeysInv, Rest, Gateways
<1>2. Rest'
  BY <1>1 DEF Load, KeysInv, Rest
<1>3. Planned' /\ Served' /\ ServesPublished'
  BY DEF Load, Locked, KeysInv, Planned, Served, ServesPublished
<1> QED BY <1>2, <1>3 DEF Load, KeysInv, UpToDatePhone

\* The gateway loads the keys of the generation whose phone configurations were
\* current when the plan was made.
LEMMA KeepsServe == ASSUME KeysInv, Serve PROVE KeysInv'
<1> DEFINE c == gateway.config
           d == plan.checked
<1>0. /\ serving' = ServerConfig(c, store) /\ KeysComplete(store, Declared(c))
      /\ plan # None /\ plan.generation = published
      /\ gateway' = None
      /\ UNCHANGED <<config, store, command, plan, imported, reimport, done, published, edits>>
  BY DEF Serve, MatchesPlan, KeysInv, Planned
<1>1. d \in Configs /\ Current(d, store, Declared(d))
  BY <1>0 DEF KeysInv, Rest, Planned, Plans
<1> HIDE DEF c, d
<1>2. /\ DOMAIN serving'.peers = Declared(c) /\ serving'.private = store.server.private
      /\ \A p \in Declared(c) :
           /\ serving'.peers[p].public = store.peers[p].public
           /\ serving'.peers[p].preshared = store.peers[p].preshared
  BY <1>0 DEF ServerConfig
<1>3. Served'
  BY <1>0, <1>2 DEF Served, Declared
<1>4. store.server.private = store.server.public
  BY <1>0, ServerStatusIs DEF KeysComplete, KeysInv, StoreOK, ServerOK
<1>5. ASSUME SetUpWith(serving', d), NEW p \in DOMAIN serving'.peers
      PROVE  store.peers[p].conf # None /\ Accepts(serving', p, store.peers[p].conf)
  <2>0. /\ p \in Declared(c) /\ p \in Declared(d) /\ p \in Peers
        /\ serving'.settings = d.settings /\ serving'.peers[p].address = d.address[p]
    BY <1>2, <1>5 DEF SetUpWith, Declared
  <2>1. store.peers[p].conf = PhoneConfig(d, store, p)
    BY <1>1, <2>0 DEF Current
  <2>2. KeysComplete(store, {p})
    BY <1>1, <2>0 DEF Current, KeysComplete
  <2>3. store.peers[p].conf # None
    BY <1>1, <2>0, <2>1, <2>2, Rendered, NoneIsNone DEF KeysInv, StoreOK
  <2>4. store.peers[p].private = store.peers[p].public
    BY <2>0 DEF KeysInv, StoreOK, DirOK, KeysOK
  <2> QED BY <1>2, <1>4, <2>0, <2>1, <2>3, <2>4 DEF Accepts, PhoneConfig
<1>6. ServesPublished'
  BY <1>0, <1>5 DEF ServesPublished, d
<1>7. Rest' /\ Planned'
  BY <1>0 DEF KeysInv, Rest, Planned
<1> QED BY <1>0, <1>3, <1>6, <1>7 DEF KeysInv, UpToDatePhone

\* The gateway ends; or config.yaml is edited and every phone has to import again.
LEMMA KeepsStop == ASSUME KeysInv, Stop \/ Edit PROVE KeysInv'
<1>1. CASE Stop
  <2>1. Rest'
    BY <1>1 DEF Stop, KeysInv, Rest
  <2>2. Planned' /\ Served' /\ ServesPublished'
    BY <1>1 DEF Stop, KeysInv, Planned, Served, ServesPublished
  <2> QED BY <1>1, <2>1, <2>2 DEF Stop, KeysInv, UpToDatePhone
<1>2. CASE Edit
  <2>0. /\ config' \in Configs /\ gateway' \in Gateways \cup {None}
        /\ gateway' # None => gateway # None
    BY <1>2 DEF Edit, KeysInv, Rest, Gateways
  <2>1. Rest'
    <3>1. edits' \in 0..MaxEdits
      BY <1>2, KeysAssumption DEF Edit, KeysInv, Rest
    <3>2. reimport' = Peers /\ UNCHANGED <<command, plan, imported, done, published>>
      BY <1>2 DEF Edit
    <3> QED BY <2>0, <3>1, <3>2 DEF KeysInv, Rest
  <2>2. Planned'
    BY <1>2, <2>0 DEF Edit, KeysInv, Planned
  <2> QED BY <1>2, <2>1, <2>2 DEF Edit, KeysInv, Served, ServesPublished, SetUpWith, Accepts
<1> QED BY <1>1, <1>2

\* Steps that change nothing that is modelled keep the invariant.
LEMMA KeepsStutter == ASSUME KeysInv, UNCHANGED vars PROVE KeysInv'
<1> QED BY DEF vars, KeysInv, Rest, Served, ServesPublished, SetUpWith, Accepts, Planned,
               UpToDatePhone

\* Every command, hand-out, launch, gateway start and edit keeps the invariant.
THEOREM Inductive == Spec => []KeysInv
<1>1. Init => KeysInv
  BY KeysInit
<1>2. KeysInv /\ [Next]_vars => KeysInv'
  BY KeepsBegin, KeepsPublish, KeepsHandOut, KeepsPrepare, KeepsLoad, KeepsServe, KeepsStop,
     KeepsStutter DEF Next
<1> QED BY <1>1, <1>2, PTL DEF Spec

-------------------------------------------------------------------------------
(* Results *)

\* The variables hold what the code can put there.
THEOREM TypeCorrect == Spec => []TypeOK
<1>1. KeysInv => TypeOK
  <2> SUFFICES ASSUME KeysInv PROVE TypeOK
    OBVIOUS
  <2>1. ASSUME NEW p \in Peers
        PROVE  /\ {store.peers[p].private, store.peers[p].public, store.peers[p].preshared}
                    \subseteq KeyNames(p)
               /\ store.peers[p].conf # None =>
                    /\ store.peers[p].conf.server \in KeyNames("server") \ {None}
                    /\ store.peers[p].conf.address \in Addresses
    <3>1. store.peers[p] \in Dirs /\ KeysOK(store, p)
      BY DEF KeysInv, StoreOK, Stores, DirOK
    <3>2. store.peers[p].conf \in PhoneConfigs \cup {None}
      BY <3>1 DEF Dirs
    <3> QED BY <3>1, <3>2 DEF KeysOK, PhoneConfigs
  <2>2. store.server \in Servers
    BY DEF KeysInv, StoreOK, Stores
  <2>3. Rest
    BY DEF KeysInv
  <2> QED BY <2>1, <2>2, <2>3 DEF TypeOK, Servers, Rest
<1> QED BY <1>1, Inductive, PTL

\* Whatever commands came one after another, with whatever configuration each
\* had parsed, a published phone configuration belongs to the keys and to the
\* fingerprint beside it, and no command leaves keys behind half.
THEOREM FilesAgree == Spec => []PhoneFilesAgree
<1>1. KeysInv => PhoneFilesAgree
  BY DEF KeysInv, StoreOK, DirOK, PhoneFilesAgree
<1> QED BY <1>1, Inductive, PTL

\* A gateway that parsed what up had checked the phones against accepts the
\* published configuration of each of its peers, on every start and restart.
THEOREM PublishedAccepted == Spec => []ServesPublished
<1>1. KeysInv => ServesPublished
  BY DEF KeysInv
<1> QED BY <1>1, Inductive, PTL

\* A phone that imported a current configuration gets through to every gateway
\* started with config.yaml as it is, until a rotation, a prune or an edit that
\* is about it.
THEOREM PhonesStay == Spec => []PhonesKeepWorking
<1>1. KeysInv => PhonesKeepWorking
  <2> SUFFICES ASSUME KeysInv, serving # None, SetUpWith(serving, config),
                      NEW p \in Peers \ reimport, imported[p] # None
               PROVE  Accepts(serving, p, imported[p])
    BY DEF PhonesKeepWorking
  <2>1. p \in Declared(config) /\ imported[p] = PhoneConfig(config, store, p)
    BY DEF KeysInv, UpToDatePhone
  <2>2. p \in DOMAIN serving.peers
    BY <2>1 DEF SetUpWith
  <2>3. /\ serving.private = store.server.private
        /\ serving.peers[p].public = store.peers[p].public
        /\ serving.peers[p].preshared = store.peers[p].preshared
        /\ KeysComplete(store, DOMAIN serving.peers)
    BY <2>2 DEF KeysInv, Served
  <2>4. store.server.private = store.server.public
    BY <2>3, ServerStatusIs DEF KeysComplete, KeysInv, StoreOK, ServerOK
  <2>5. store.peers[p].private = store.peers[p].public
    BY DEF KeysInv, StoreOK, DirOK, KeysOK
  <2> QED BY <2>1, <2>2, <2>3, <2>4, <2>5 DEF Accepts, PhoneConfig, SetUpWith
<1> QED BY <1>1, Inductive, PTL
===============================================================================
