---------------------------- MODULE AtomicKeyPair ----------------------------
(***************************************************************************)
(* What replacing the SSH identity promises: the pair of key files changes *)
(* as a whole, from whatever was there to one freshly generated pair, and  *)
(* a power loss can only fall back to the last durable pair.               *)
(***************************************************************************)
CONSTANTS Keys      \* key pairs that ssh-keygen can produce

VARIABLES pair,     \* [private, public]: the pair in force
          stable    \* the pair in force after a power loss

vars == <<pair, stable>>

Init == stable = pair

Replace == /\ \E k \in Keys : pair' = [private |-> k, public |-> k]
           /\ UNCHANGED stable

Stabilise == stable' = pair /\ UNCHANGED pair
PowerLoss == pair' = stable /\ UNCHANGED stable

Next == Replace \/ Stabilise \/ PowerLoss

Spec == Init /\ [][Next]_vars
==============================================================================
