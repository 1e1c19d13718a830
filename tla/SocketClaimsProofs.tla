-------------------------- MODULE SocketClaimsProofs --------------------------
(***************************************************************************)
(* Proofs about SocketClaims for any number of instances, sockets,         *)
(* restarts and stops.                                                     *)
(***************************************************************************)
EXTENDS SocketClaims, TLAPS, WellFoundedInduction

\* The sorted order of the claims has a first one.
LEMMA LeastMember ==
  ASSUME NEW S \in SUBSET Sockets, S # {}
  PROVE  Least(S) \in S
<1> DEFINE R == OpToRel(<, Nat)
<1>1. S \subseteq Nat
  BY ClaimAssumption
<1>2. PICK s \in S : \A t \in S : ~(<<t, s>> \in R)
  <2> HIDE DEF R
  <2> QED BY <1>1, NatLessThanWellFounded, WFMin DEF R
<1>3. \A t \in S : ~(t < s)
  BY <1>1, <1>2 DEF OpToRel
<1>4. \A t \in S : s <= t
  BY <1>1, <1>3
<1> QED BY <1>4 DEF Least

-------------------------------------------------------------------------------
(* Type correctness *)

USE DEF Goto

\* Instances without sockets have the right types.
LEMMA TypeInit == Init => TypeOK
BY ClaimAssumption DEF Init, TypeOK

\* Every step of an instance keeps the types.
LEMMA TypeNext == TypeOK /\ [Next]_vars => TypeOK'
<1> SUFFICES ASSUME TypeOK, [Next]_vars PROVE TypeOK'
  OBVIOUS
<1> USE ClaimAssumption DEF TypeOK
<1>1. CASE UNCHANGED vars
  BY <1>1 DEF vars
<1>2. ASSUME NEW i \in Instances, Step(i) PROVE TypeOK'
  <2>1. CASE Up(i) BY <2>1 DEF Up
  <2>2. CASE Restart(i) BY <2>2 DEF Restart
  <2>3. CASE GiveUp(i) BY <2>3 DEF GiveUp
  <2>4. CASE BeginClaim(i) BY <2>4 DEF BeginClaim
  <2>5. CASE Claim(i) BY <2>5 DEF Claim
  <2>6. CASE Conflict(i) BY <2>6 DEF Conflict
  <2>7. CASE Spawn(i) BY <2>7 DEF Spawn
  <2>8. CASE ChildExits(i) BY <2>8 DEF ChildExits
  <2>9. CASE ReleaseClaim(i) BY <2>9 DEF ReleaseClaim, Held
  <2>10. CASE SupervisorExits(i) BY <2>10 DEF SupervisorExits
  <2>11. CASE Stop(i) BY <2>11 DEF Stop, Release
  <2>12. CASE StoppedChildExits(i) BY <2>12 DEF StoppedChildExits
  <2> QED BY <1>2, <2>1, <2>2, <2>3, <2>4, <2>5, <2>6, <2>7, <2>8, <2>9, <2>10, <2>11,
             <2>12 DEF Step
<1> QED BY <1>1, <1>2 DEF Next

\* Whatever instances start, contend, stop and restart, the variables keep the
\* shape that up and the supervisor give them.
THEOREM TypeCorrect == Spec => []TypeOK
BY TypeInit, TypeNext, PTL DEF Spec

-------------------------------------------------------------------------------
(* The inductive invariant *)

\* How far a supervisor has come: what it no longer waits for it holds, and it
\* holds all of it while its child runs.
Progress(i) ==
  /\ pc[i] = "claiming" =>
       next[i] \subseteq wants[i] /\ \A s \in wants[i] \ next[i] : lock[s] = i
  /\ pc[i] = "holding" => \A s \in wants[i] : lock[s] = i

ClaimInv == TypeOK /\ NoLeakedClaim /\ \A i \in Instances : Progress(i)

\* Without a claim nothing has leaked.
LEMMA ClaimInit == Init => ClaimInv
BY TypeInit DEF Init, ClaimInv, NoLeakedClaim, Progress

\* A step that neither takes nor gives back a claim
LEMMA LocksKept ==
  ASSUME ClaimInv, TypeOK', NEW i \in Instances,
         \/ Up(i) \/ Restart(i) \/ GiveUp(i) \/ BeginClaim(i) \/ Conflict(i) \/ Spawn(i)
         \/ ChildExits(i) \/ SupervisorExits(i) \/ StoppedChildExits(i)
  PROVE  ClaimInv'
<1> USE ClaimAssumption DEF ClaimInv, TypeOK
<1>1. UNCHANGED <<wants, lock>> /\ \A j \in Instances \ {i} : pc'[j] = pc[j] /\ next'[j] = next[j]
  BY DEF Up, Restart, GiveUp, BeginClaim, Conflict, Spawn, ChildExits, SupervisorExits,
         StoppedChildExits
<1>2. \A j \in Instances \ {i} : Progress(j)'
  BY <1>1 DEF Progress
<1>3. Progress(i)'
  <2>1. CASE BeginClaim(i) BY <2>1 DEF BeginClaim, Progress
  <2>2. CASE Spawn(i) BY <2>2 DEF Spawn, Progress
  <2>3. CASE StoppedChildExits(i) BY <2>3 DEF StoppedChildExits, Progress
  <2>4. CASE ~BeginClaim(i) /\ ~Spawn(i) /\ ~StoppedChildExits(i)
    <3>1. pc'[i] \notin {"claiming", "holding"}
      BY <2>4 DEF Up, Restart, GiveUp, Conflict, ChildExits, SupervisorExits
    <3> QED BY <3>1 DEF Progress
  <2> QED BY <2>1, <2>2, <2>3, <2>4
<1>4. NoLeakedClaim'
  <2>1. pc'[i] \in {"down", "started", "restart"} => \A s \in Sockets : lock[s] # i
    BY DEF NoLeakedClaim, Up, Restart, GiveUp, BeginClaim, Conflict, Spawn, ChildExits,
           SupervisorExits, StoppedChildExits, Held
  <2> QED BY <1>1, <2>1 DEF NoLeakedClaim
<1> QED BY <1>2, <1>3, <1>4

\* Only a free claim is taken.
LEMMA ClaimTaken ==
  ASSUME ClaimInv, TypeOK', NEW i \in Instances, Claim(i)
  PROVE  ClaimInv'
<1> USE ClaimAssumption DEF ClaimInv, TypeOK
<1> DEFINE s == NextClaim(i)
<1>1. s \in next[i] /\ s \in Sockets
  BY LeastMember DEF Claim, NextClaim
<1> HIDE DEF s
<1>2. /\ pc[i] = "claiming" /\ lock[s] = None /\ lock' = [lock EXCEPT ![s] = i]
      /\ next' = [next EXCEPT ![i] = @ \ {s}] /\ UNCHANGED <<wants, pc>>
  BY DEF Claim, s
<1>3. NoLeakedClaim'
  BY <1>1, <1>2 DEF NoLeakedClaim, Progress
<1>4. ASSUME NEW j \in Instances PROVE Progress(j)'
  <2>1. CASE j = i BY <2>1, <1>1, <1>2 DEF Progress
  <2>2. CASE j # i BY <2>2, <1>1, <1>2 DEF Progress
  <2> QED BY <2>1, <2>2
<1> QED BY <1>3, <1>4

\* Only claims of the instance's own go, and only when it no longer needs them.
LEMMA ClaimsGiven ==
  ASSUME ClaimInv, TypeOK', NEW i \in Instances, ReleaseClaim(i) \/ Stop(i)
  PROVE  ClaimInv'
<1> USE ClaimAssumption DEF ClaimInv, TypeOK
<1>1. /\ UNCHANGED wants /\ pc'[i] \notin {"claiming", "holding", "started", "restart"}
      /\ pc'[i] = "down" => \A s \in Sockets : lock'[s] # i
      /\ \A j \in Instances \ {i} : pc'[j] = pc[j] /\ next'[j] = next[j]
      /\ \A s \in Sockets : lock'[s] = lock[s] \/ (lock[s] = i /\ lock'[s] = None)
  BY DEF ReleaseClaim, Stop, Release, Held
<1>2. NoLeakedClaim'
  BY <1>1 DEF NoLeakedClaim
<1>3. ASSUME NEW j \in Instances PROVE Progress(j)'
  BY <1>1 DEF Progress
<1> QED BY <1>2, <1>3

\* Every step keeps the claims in order.
LEMMA ClaimNext == ClaimInv /\ [Next]_vars => ClaimInv'
<1> SUFFICES ASSUME ClaimInv, [Next]_vars PROVE ClaimInv'
  OBVIOUS
<1>1. TypeOK'
  BY TypeNext DEF ClaimInv
<1>2. CASE UNCHANGED vars
  BY <1>1, <1>2 DEF ClaimInv, NoLeakedClaim, Progress, vars
<1>3. ASSUME NEW i \in Instances, Step(i) PROVE ClaimInv'
  BY <1>1, <1>3, LocksKept, ClaimTaken, ClaimsGiven DEF Step
<1> QED BY <1>2, <1>3 DEF Next

\* No supervisor leaves a claim behind, however it ends: what it gave up on
\* half-way, held for its child or had when SIGTERM came is free afterwards.
THEOREM NothingLeaks == Spec => []NoLeakedClaim
<1>1. ClaimInv => NoLeakedClaim
  BY DEF ClaimInv
<1> QED BY <1>1, ClaimInit, ClaimNext, PTL DEF Spec

\* Any number of instances with any overlap of their sockets: two supervised
\* children never have a socket in common.
THEOREM SocketsExclusive == Spec => []NoSharedSocket
<1>1. ClaimInv => NoSharedSocket
  <2> SUFFICES ASSUME ClaimInv, NEW i \in child, NEW j \in child,
                      pc[i] = "holding", pc[j] = "holding", i # j,
                      NEW s \in wants[i] \cap wants[j]
               PROVE  FALSE
    BY DEF NoSharedSocket
  <2> QED BY DEF ClaimInv, TypeOK, Progress
<1> QED BY <1>1, ClaimInit, ClaimNext, PTL DEF Spec
===============================================================================
