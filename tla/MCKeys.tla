-------------------------------- MODULE MCKeys --------------------------------
(* Instance of Keys for TLC: names that no action tells apart. *)
EXTENDS Keys, TLC

Symmetry == Permutations(Peers) \cup Permutations(Addresses)
              \cup Permutations(Settings) \cup Permutations(Commands)
===============================================================================
