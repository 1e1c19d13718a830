------------------------------ MODULE MCLifecycle ------------------------------
(* Instances of Lifecycle for TLC. *)
EXTENDS Lifecycle

\* The parts of a configuration are interchangeable: one to begin with stands
\* for all.
One(S) == CHOOSE x \in S : TRUE
OneConfig == {[sockets |-> One(Sockets), phone |-> One(Phones), rest |-> One(Rests)]}
===============================================================================
