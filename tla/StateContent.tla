----------------------------- MODULE StateContent -----------------------------
(***************************************************************************)
(* What a state generation contains, as far as the store can tell: the     *)
(* mutations it embodies, the operation receipts, and whether it descends  *)
(* from the legacy layout.  Keys and rendered phone configurations are     *)
(* opaque to state.py.                                                     *)
(***************************************************************************)
CONSTANTS Ids,      \* operation IDs
          Kinds,    \* operation kinds ("keys.rotate-server", ...)
          NoId      \* a mutation without an operation ID

Operations == [id : Ids, kind : Kinds]
Requests == [id : Ids \cup {NoId}, kind : Kinds]

\* done is bookkeeping: the mutations that the content embodies; repeated says
\* that one with an operation ID was carried out twice.
Content == [done : SUBSET Requests, receipts : SUBSET Operations,
            repeated : BOOLEAN, legacy : BOOLEAN]

EmptyContent == [done |-> {}, receipts |-> {}, repeated |-> FALSE, legacy |-> FALSE]
LegacyContent == [done |-> {}, receipts |-> {}, repeated |-> FALSE, legacy |-> TRUE]

\* The receipt file is named after the ID alone, so it is found for any kind.
HasReceipt(c, id) == \E o \in c.receipts : o.id = id

\* The caller's mutator.
Perform(c, r) ==
  [done |-> c.done \cup {r},
   receipts |-> c.receipts,
   repeated |-> c.repeated \/ (r.id # NoId /\ r \in c.done),
   legacy |-> c.legacy]

\* _write_operation, which is skipped without an operation ID.
Receipt(c, r) ==
  [done |-> c.done,
   receipts |-> IF r.id = NoId THEN c.receipts ELSE c.receipts \cup {r},
   repeated |-> c.repeated,
   legacy |-> c.legacy]
===============================================================================
