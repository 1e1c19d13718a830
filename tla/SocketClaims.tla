----------------------------- MODULE SocketClaims -----------------------------
(***************************************************************************)
(* Host UDP sockets of concurrent instances (host.py, claim.py).  `up`     *)
(* probes that the sockets of an instance are free and starts a service;   *)
(* its supervisor takes one file lock per socket, in sorted order and      *)
(* without waiting, gives up with status 73 on the first one that is held, *)
(* and otherwise holds them while the child (pasta and the gateway) runs.  *)
(* systemd restarts a service that exits with status 75 without probing.   *)
(***************************************************************************)
EXTENDS Naturals

CONSTANTS Instances,
          Sockets,      \* (address, port) pairs; numbers, for the sort order
          None,
          MaxRestarts,  \* bound: restarts per instance
          MaxStops      \* bound: `down` commands in all

ASSUME ClaimAssumption ==
  /\ Sockets \subseteq Nat
  /\ None \notin Instances
  /\ MaxRestarts \in Nat /\ MaxStops \in Nat

VARIABLES
  wants,      \* per instance: the sockets of its configuration
  pc,         \* per instance: where its service or supervisor is
  next,       \* per instance: claims still to take
  lock,       \* per socket: the supervisor that holds its claim
  child,      \* instances whose child runs, with its sockets bound
  restarts, stops

vars == <<wants, pc, next, lock, child, restarts, stops>>

\* socket_claim_paths: one claim per configured socket
Init ==
  /\ wants \in [Instances -> SUBSET Sockets \ {{}}]
  /\ pc = [i \in Instances |-> "down"]
  /\ next = [i \in Instances |-> {}]
  /\ lock = [s \in Sockets |-> None]
  /\ child = {}
  /\ restarts = [i \in Instances |-> 0]
  /\ stops = 0

Least(S) == CHOOSE s \in S : \A t \in S : s <= t
Release(i) == lock' = [s \in Sockets |-> IF lock[s] = i THEN None ELSE lock[s]]
Held(i) == {s \in Sockets : lock[s] = i}
Goto(i, from, to) == pc[i] = from /\ pc' = [pc EXCEPT ![i] = to]

\* _check_host_socket_availability: binding every socket works.
Probe(i) == \A j \in child : wants[i] \cap wants[j] = {}

Up(i) ==
  /\ i \notin child
  /\ Probe(i)
  /\ Goto(i, "down", "started")
  /\ UNCHANGED <<wants, next, lock, child, restarts, stops>>

\* Mutant: restarts are not limited.
RestartUnlimited(i) ==
  /\ Goto(i, "restart", "started")
  /\ restarts' = [restarts EXCEPT ![i] = @ + 1]
  /\ UNCHANGED <<wants, next, lock, child, stops>>

Restart(i) ==
  /\ restarts[i] < MaxRestarts
  /\ Goto(i, "restart", "started")
  /\ restarts' = [restarts EXCEPT ![i] = @ + 1]
  /\ UNCHANGED <<wants, next, lock, child, stops>>

\* The start limit
GiveUp(i) ==
  /\ restarts[i] = MaxRestarts
  /\ Goto(i, "restart", "down")
  /\ UNCHANGED <<wants, next, lock, child, restarts, stops>>

BeginClaim(i) ==
  /\ Goto(i, "started", "claiming")
  /\ next' = [next EXCEPT ![i] = wants[i]]
  /\ UNCHANGED <<wants, lock, child, restarts, stops>>

\* run_claimed: the next claim in order, LOCK_EX | LOCK_NB
NextClaim(i) == Least(next[i])

\* Mutant: LOCK_SH.
ClaimShared(i) ==
  /\ pc[i] = "claiming" /\ next[i] # {}
  /\ lock' = [lock EXCEPT ![NextClaim(i)] = i]
  /\ next' = [next EXCEPT ![i] = @ \ {NextClaim(i)}]
  /\ UNCHANGED <<wants, pc, child, restarts, stops>>

\* Mutant: the claims are not sorted.
ClaimUnsorted(i) ==
  /\ pc[i] = "claiming"
  /\ \E s \in next[i] :
       /\ lock[s] = None
       /\ lock' = [lock EXCEPT ![s] = i]
       /\ next' = [next EXCEPT ![i] = @ \ {s}]
  /\ UNCHANGED <<wants, pc, child, restarts, stops>>

Claim(i) ==
  /\ pc[i] = "claiming" /\ next[i] # {}
  /\ lock[NextClaim(i)] = None
  /\ lock' = [lock EXCEPT ![NextClaim(i)] = i]
  /\ next' = [next EXCEPT ![i] = @ \ {NextClaim(i)}]
  /\ UNCHANGED <<wants, pc, child, restarts, stops>>

\* The first claim that is held decides; the ones taken so far are still held.
Conflict(i) ==
  /\ next[i] # {} /\ lock[NextClaim(i)] # None
  /\ Goto(i, "claiming", "lost")
  /\ next' = [next EXCEPT ![i] = {}]
  /\ UNCHANGED <<wants, lock, child, restarts, stops>>

\* subprocess.run
Spawn(i) ==
  /\ next[i] = {}
  /\ Goto(i, "claiming", "holding")
  /\ child' = child \cup {i}
  /\ UNCHANGED <<wants, next, lock, restarts, stops>>

\* The child exits, with status 75 ("retry") or another one.
ChildExits(i) ==
  /\ i \in child
  /\ child' = child \ {i}
  /\ \E to \in {"ended", "retry"} : Goto(i, "holding", to)
  /\ UNCHANGED <<wants, next, lock, restarts, stops>>

\* The finally clause: one close after the other, in reverse order.
ReleaseClaim(i) ==
  /\ pc[i] \in {"lost", "ended", "retry"}
  /\ \E s \in Held(i) : /\ \A t \in Held(i) : t <= s
                        /\ lock' = [lock EXCEPT ![s] = None]
  /\ UNCHANGED <<wants, pc, next, child, restarts, stops>>

\* The supervisor passes the status on; systemd acts on 75 only.
SupervisorExits(i) ==
  /\ Held(i) = {}
  /\ Goto(i, "lost", "down") \/ Goto(i, "ended", "down") \/ Goto(i, "retry", "restart")
  /\ UNCHANGED <<wants, next, lock, child, restarts, stops>>

\* Mutant: the descriptors are inherited by processes that stay.
StopKeepsClaims(i) ==
  /\ stops < MaxStops
  /\ pc[i] # "down" /\ pc' = [pc EXCEPT ![i] = "down"]
  /\ next' = [next EXCEPT ![i] = {}]
  /\ stops' = stops + 1
  /\ UNCHANGED <<wants, lock, child, restarts>>

\* KillMode=control-group: SIGTERM reaches the supervisor and the child at
\* once.  The supervisor has no handler and dies, which drops its locks; the
\* child cleans up first.
Stop(i) ==
  /\ stops < MaxStops
  /\ pc[i] # "down" /\ pc' = [pc EXCEPT ![i] = "down"]
  /\ next' = [next EXCEPT ![i] = {}]
  /\ stops' = stops + 1
  /\ Release(i)
  /\ UNCHANGED <<wants, child, restarts>>

StoppedChildExits(i) ==
  /\ i \in child /\ pc[i] = "down"
  /\ child' = child \ {i}
  /\ UNCHANGED <<wants, pc, next, lock, restarts, stops>>

Step(i) ==
  \/ Up(i) \/ Restart(i) \/ GiveUp(i) \/ BeginClaim(i) \/ Claim(i) \/ Conflict(i)
  \/ Spawn(i) \/ ChildExits(i) \/ ReleaseClaim(i) \/ SupervisorExits(i) \/ Stop(i) \/ StoppedChildExits(i)
Next == \E i \in Instances : Step(i)

Spec == Init /\ [][Next]_vars

\* The supervisor never waits for a lock.
FairSpec == Spec /\ \A i \in Instances :
  WF_vars(\/ BeginClaim(i) \/ Claim(i) \/ Conflict(i) \/ Spawn(i)
          \/ ReleaseClaim(i) \/ SupervisorExits(i))

-------------------------------------------------------------------------------
(* Properties *)

\* The variables hold what the code can put there.
TypeOK ==
  /\ wants \in [Instances -> SUBSET Sockets]
  /\ pc \in [Instances -> {"down", "started", "claiming", "lost", "holding",
                       "ended", "retry", "restart"}]
  /\ next \in [Instances -> SUBSET Sockets]
  /\ lock \in [Sockets -> Instances \cup {None}]
  /\ child \subseteq Instances
  /\ restarts \in [Instances -> 0..MaxRestarts] /\ stops \in 0..MaxStops

\* No two supervised children ever have a socket in common, although the probe
\* of `up` and the start of the service are not one step and a restart does not
\* probe at all.
NoSharedSocket ==
  \A i, j \in {k \in child : pc[k] = "holding"} :
    i # j => wants[i] \cap wants[j] = {}

\* However a supervisor ends - conflict half-way, exit of the child, SIGTERM -
\* it leaves no claim behind that would keep another instance out.
NoLeakedClaim ==
  \A s \in Sockets : lock[s] # None =>
    pc[lock[s]] \notin {"down", "started", "restart"} /\ s \in wants[lock[s]]

\* claim.py: every claim is held until the child exits.
ClaimsCoverChild == \A i \in child : \A s \in wants[i] : lock[s] = i

\* Contenders never all defeat each other, although a loser keeps its claims for
\* a while: thanks to the sorted order, when instances are after claims and all
\* claims are free, one of them gets all of its own, unless a `down` intervenes.
Contention == \E i \in Instances : pc[i] = "claiming" /\ \A s \in Sockets : lock[s] = None
SomeoneWins ==
  \A n \in 0..MaxStops :
    (stops = n /\ Contention) ~> (stops # n \/ \E i \in Instances : pc[i] = "holding")
===============================================================================
