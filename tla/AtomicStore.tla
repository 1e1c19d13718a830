----------------------------- MODULE AtomicStore -----------------------------
(***************************************************************************)
(* What the persistent state store of shuttle-gate promises to its callers *)
(* (keys.py): one value that changes by whole committed mutations, a       *)
(* stable copy that a power loss falls back to, and success reported only  *)
(* for operations whose receipt is already stable.                         *)
(***************************************************************************)
EXTENDS StateContent

VARIABLES value,    \* what a reader sees
          stable,   \* what survives a power loss
          acked     \* operations whose caller was told that they succeeded

vars == <<value, stable, acked>>

Init == /\ value \in {EmptyContent, LegacyContent}
        /\ stable = value
        /\ acked = {}

\* One complete mutation with its receipt, applied to the value it was
\* computed from.
Commit(r) == /\ ~HasReceipt(value, r.id)
             /\ value' = Receipt(Perform(value, r), r)
             /\ UNCHANGED <<stable, acked>>

Stabilise == /\ stable' = value
             /\ UNCHANGED <<value, acked>>

Acknowledge(o) == /\ o \in value.receipts
                  /\ stable' = value
                  /\ acked' = acked \cup {o}
                  /\ UNCHANGED value

PowerLoss == /\ value' = stable
             /\ UNCHANGED <<stable, acked>>

Next == \/ \E r \in Requests : Commit(r)
        \/ Stabilise
        \/ \E o \in Operations : Acknowledge(o)
        \/ PowerLoss

Spec == Init /\ [][Next]_vars
==============================================================================
