------------------------- MODULE MCSshKeyTransaction -------------------------
(* Instances of SshKeyTransaction for TLC. *)
EXTENDS SshKeyTransaction

\* Ordered metadata with every fault, from the first operation on; without
\* ordered metadata power losses alone, once state/operations is on the disk.
Supported == {[ordered |-> TRUE, faults |-> {"stop", "power"}, operations |-> FALSE],
              [ordered |-> FALSE, faults |-> {"power"}, operations |-> TRUE]}

\* Both faults without ordered metadata, state/operations on the disk from before.
Unordered == {[ordered |-> FALSE, faults |-> {"stop", "power"}, operations |-> TRUE]}
===============================================================================
