----------------------------- MODULE MCStateStore -----------------------------
(* Instances of StateStore for TLC. *)
EXTENDS StateStore, TLC

Symmetry == Permutations(Gens) \cup Permutations(Writers) \cup Permutations(Ids)
            \cup Permutations(Kinds)
===============================================================================
