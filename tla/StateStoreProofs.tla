--------------------------- MODULE StateStoreProofs ---------------------------
(***************************************************************************)
(* Proofs about StateStore for any number of writers, readers, operation   *)
(* IDs and generations, any request history and any number of faults.      *)
(***************************************************************************)
EXTENDS StateStore, TLAPS

-------------------------------------------------------------------------------
(* Content *)

\* A mutation and its receipt keep the shape of a generation's content.
LEMMA ContentClosed ==
  ASSUME NEW c \in Content, NEW r \in Requests
  PROVE  Perform(c, r) \in Content /\ Receipt(c, r) \in Content
<1>1. Perform(c, r) \in Content
  BY DEF Content, Perform
<1>2. Receipt(c, r) \in Content
  <2>1. r.id # NoId => r \in Operations
    BY DEF Requests, Operations
  <2>2. QED BY <2>1 DEF Receipt, Content
<1>3. QED BY <1>1, <1>2

\* What a pointer makes visible is a content.
LEMMA ContentsTyped ==
  ASSUME TypeOK, NEW c \in Gens \cup {NoGen}, NEW l
  PROVE  Contents(c, l) \in Content
BY DEF Contents, TypeOK, Content, EmptyContent, LegacyContent

-------------------------------------------------------------------------------
(* Type correctness *)

\* A running writer has a request.
Requested == \A w \in Writers : pc[w] # "idle" => req[w] \in Requests
TypeInv == TypeOK /\ Requested

USE DEF Goto, Leave

\* The initial layouts have the right types.
LEMMA TypeInit == Init => TypeInv
BY StoreAssumption DEF Init, TypeInv, TypeOK, Requested, Condition, Steps, Content,
   EmptyContent, NoRequest, InTry

\* Steps that leave the writers alone
LEMMA TypeSync ==
  ASSUME TypeInv, SyncGenerations \/ SyncState
  PROVE  /\ genD' \in [Gens -> Condition]
         /\ currentD' \in Gens \cup {NoGen}
         /\ legacyD' \in {"present", "torn", "absent"}
BY DEF TypeInv, TypeOK, SyncGenerations, SyncState, SyncAll

\* Writing back changes no type.
LEMMA TypeWriteback == TypeInv /\ Writeback => TypeInv'
<1> SUFFICES ASSUME TypeInv, Writeback PROVE TypeInv'
  OBVIOUS
<1>1. /\ genD' \in [Gens -> Condition]
      /\ currentD' \in Gens \cup {NoGen}
      /\ legacyD' \in {"present", "torn", "absent"}
  BY DEF TypeInv, TypeOK, Writeback, SyncAll
<1>2. UNCHANGED <<gen, data, current, legacy, pc, req, mine, view, acked, hadLegacy, faults>>
  BY DEF Writeback, disk, writer, history
<1>3. QED BY <1>1, <1>2 DEF TypeInv, TypeOK, Requested

\* Readers keep the types.
LEMMA TypeReader ==
  ASSUME TypeInv, NEW r \in Readers, Bind(r) \/ Unbind(r)
  PROVE  TypeInv'
BY DEF TypeInv, TypeOK, Requested, Bind, Unbind, disk, durable, writer, history

\* A step of a writer, one action after the other
LEMMA TypeAdvance ==
  ASSUME TypeInv, NEW w \in Writers, Advance(w)
  PROVE  TypeInv'
<1> USE DEF TypeInv, TypeOK, Requested, disk, durable, writer, history
<1>1. CASE CleanIncomplete(w)
  BY <1>1, StoreAssumption DEF CleanIncomplete, MayLeave, Condition, Steps
<1>2. CASE Reject(w)
  BY <1>2 DEF Reject, Rollback, Condition, Steps
<1>3. CASE RemoveBegin(w)
  BY <1>3 DEF RemoveBegin, Condition
<1>4. CASE CleanUnreferenced(w)
  BY <1>4, StoreAssumption DEF CleanUnreferenced, RemoveUnreferenced, MayLeave, Condition, Steps
<1>5. CASE Replay(w)
  BY <1>5 DEF Replay, Steps
<1>6. CASE Refuse(w)
  BY <1>6 DEF Refuse, Steps
<1>7. CASE CopyActive(w)
  <2>1. Visible \in Content
    BY ContentsTyped DEF Visible
  <2>2. QED BY <1>7, <2>1 DEF CopyActive, Condition, Steps, InTry
<1>8. CASE Mutate(w)
  <2>1. \A g \in Gens : Perform(data[g], req[w]) \in Content
    BY <1>8, ContentClosed DEF Mutate
  <2>2. QED BY <1>8, <2>1 DEF Mutate, Steps, InTry
<1>9. CASE Discard(w)
  BY <1>9 DEF Discard, Condition, Steps
<1>10. CASE WriteOperation(w)
  <2>1. \A g \in Gens : Receipt(data[g], req[w]) \in Content
    BY <1>10, ContentClosed DEF WriteOperation
  <2>2. QED BY <1>10, <2>1 DEF WriteOperation, Steps, InTry
<1>11. CASE PublishStage(w)
  BY <1>11 DEF PublishStage, Condition, Steps, InTry
<1>12. CASE PublishRename(w)
  BY <1>12 DEF PublishRename, Condition, Steps, InTry
<1>13. CASE PublishSync(w)
  BY <1>13, TypeSync DEF PublishSync, Steps, InTry
<1>14. CASE PublishLink(w)
  BY <1>14, TypeSync DEF PublishLink, Steps, InTry
<1>15. CASE PublishSwap(w)
  BY <1>15 DEF PublishSwap, Steps, InTry
<1>16. CASE PublishDone(w)
  BY <1>16, TypeSync DEF PublishDone, Steps, InTry
<1>17. CASE Verify(w)
  BY <1>17 DEF Verify, Steps
<1>18. CASE CleanOldGenerations(w)
  BY <1>18, StoreAssumption DEF CleanOldGenerations, RemoveUnreferenced, MayLeave, Condition, Steps
<1>19. CASE LegacyBegin(w)
  BY <1>19 DEF LegacyBegin
<1>20. CASE CleanLegacyState(w)
  BY <1>20 DEF CleanLegacyState, Steps
<1>21. CASE Return(w)
  <2>1. acked' \subseteq Operations
    BY <1>21 DEF Return, Requests, Operations
  <2>2. QED BY <1>21, <2>1, TypeSync DEF Return, Steps
<1>22. QED
  BY <1>1, <1>2, <1>3, <1>4, <1>5, <1>6, <1>7, <1>8, <1>9, <1>10, <1>11, <1>12, <1>13,
     <1>14, <1>15, <1>16, <1>17, <1>18, <1>19, <1>20, <1>21 DEF Advance

\* A new command keeps the types.
LEMMA TypeBegin ==
  ASSUME TypeInv, NEW w \in Writers, NEW r \in Requests, Begin(w, r)
  PROVE  TypeInv'
BY DEF TypeInv, TypeOK, Requested, Begin, Steps, disk, durable, history

\* Kills and power losses keep the types.
LEMMA TypeFaults ==
  ASSUME TypeInv, PowerLoss \/ \E w \in Writers : Fail(w) \/ Kill(w)
  PROVE  TypeInv'
<1> USE StoreAssumption DEF TypeInv, TypeOK, Requested, Fault, disk, durable, history, Steps
<1>1. CASE PowerLoss
  BY <1>1 DEF PowerLoss
<1>2. ASSUME NEW w \in Writers, Fail(w) PROVE TypeInv'
  BY <1>2 DEF Fail, Rollback, Condition
<1>3. ASSUME NEW w \in Writers, Kill(w) PROVE TypeInv'
  BY <1>3 DEF Kill
<1>4. QED BY <1>1, <1>2, <1>3

\* Every step keeps the types.
LEMMA TypeNext == TypeInv /\ [Next]_vars => TypeInv'
<1> SUFFICES ASSUME TypeInv, [Next]_vars PROVE TypeInv'
  OBVIOUS
<1>1. CASE UNCHANGED vars
  BY <1>1 DEF TypeInv, TypeOK, Requested, vars, disk, durable, writer, history
<1>2. CASE Next
  BY <1>2, TypeWriteback, TypeReader, TypeAdvance, TypeBegin, TypeFaults DEF Next
<1>3. QED BY <1>1, <1>2

\* In every reachable state the variables of the store have the shape that
\* mutate_state and locked_state_view give them, on any filesystem and under
\* any faults.
THEOREM TypeCorrect == Spec => []TypeOK
<1>1. Init => TypeInv
  BY TypeInit
<1>2. TypeInv /\ [Next]_vars => TypeInv'
  BY TypeNext
<1>3. TypeInv => TypeOK
  BY DEF TypeInv
<1>4. QED BY <1>1, <1>2, <1>3, PTL DEF Spec

-------------------------------------------------------------------------------
(* The inductive invariant *)

\* flock: one writer at a time, and none beside a reader
Mutex ==
  /\ \A v, w \in Writers : pc[v] # "idle" /\ pc[w] # "idle" => v = w
  /\ \A w \in Writers, r \in Readers : pc[w] # "idle" => view[r] = Unbound

Building == {"copied", "mutated", "receipted", "staged", "renamed", "synced", "linked"}
Complete == {"receipted", "staged", "renamed", "synced", "linked"}
Committed == {"swapped", "published", "verified", "cleanlegacy", "acking"}

\* What a writer has achieved at each step: until the swap its generation is
\* nobody else's and holds the visible content with the mutation, after it the
\* request has its receipt.
Progress(w) ==
  /\ pc[w] \in Building =>
       mine[w] \in Gens \ {current, currentD} /\ ~HasReceipt(Visible, req[w].id)
  /\ pc[w] = "copied" => data[mine[w]] = Visible
  /\ pc[w] = "mutated" => data[mine[w]] = Perform(Visible, req[w])
  /\ pc[w] \in Complete =>
       data[mine[w]] = Receipt(Perform(Visible, req[w]), req[w])
  /\ pc[w] \in {"renamed", "synced", "linked"} => gen[mine[w]] = "final"
  /\ pc[w] \in {"swapped", "published"} => current = mine[w]
  /\ pc[w] \in Committed =>
       current # NoGen /\ (req[w].id # NoId => req[w] \in Visible.receipts)

Struct ==
  /\ TypeInv /\ Mutex /\ CurrentResolves /\ ReaderViewStable
  /\ \A w \in Writers : Progress(w)

\* What the callers rely on
Promise == ReceiptsMatchEffects /\ AckedSurvive /\ LegacyPreserved

-------------------------------------------------------------------------------
(* What the outside sees of a step *)

Unseen == /\ Visible' = Visible /\ DurableVisible' = DurableVisible
          /\ acked' = acked /\ hadLegacy' = hadLegacy
Stabilised == /\ Visible' = Visible /\ DurableVisible' = Visible
              /\ acked' = acked /\ hadLegacy' = hadLegacy

\* What is visible, now and after a power loss, is a content.
LEMMA VisibleTyped ==
  ASSUME TypeOK
  PROVE  Visible \in Content /\ DurableVisible \in Content
BY ContentsTyped DEF Visible, DurableVisible, TypeOK

\* Content that nobody points at can change freely.
LEMMA VisibleFrame ==
  ASSUME current' = current, current # NoGen => data'[current] = data[current],
         current = NoGen => legacy' = legacy
  PROVE  Visible' = Visible
BY DEF Visible, Contents

\* A power loss shows what the durable pointer points at.
LEMMA DurableFrame ==
  ASSUME UNCHANGED <<currentD, legacyD>>, currentD # NoGen => data'[currentD] = data[currentD]
  PROVE  DurableVisible' = DurableVisible
BY DEF DurableVisible, Contents

\* After a full sync a power loss shows what is visible.
LEMMA SyncFrame ==
  ASSUME SyncAll, UNCHANGED disk, UNCHANGED <<acked, hadLegacy>>, CurrentResolves
  PROVE  Stabilised /\ CurrentResolves'
BY DEF SyncAll, disk, Stabilised, Visible, DurableVisible, Contents, CurrentResolves, Resolves

-------------------------------------------------------------------------------
(* The inductive invariant is preserved *)

\* A step of the lock holder disturbs neither the idle writers nor the readers,
\* of which there are none.
LEMMA Owner ==
  ASSUME Struct, NEW w \in Writers, pc[w] # "idle",
         \A v \in Writers \ {w} : pc'[v] = pc[v], view' = view
  PROVE  /\ Mutex' /\ ReaderViewStable'
         /\ \A v \in Writers \ {w} : Progress(v)'
<1>1. \A v \in Writers \ {w} : pc'[v] = "idle"
  BY DEF Struct, Mutex
<1>2. \A r \in Readers : view'[r] = Unbound
  BY DEF Struct, Mutex
<1>3. Mutex'
  BY <1>1, <1>2 DEF Mutex
<1>4. ReaderViewStable'
  BY <1>2 DEF ReaderViewStable
<1>5. \A v \in Writers \ {w} : Progress(v)'
  BY <1>1 DEF Progress, Building, Complete, Committed
<1>6. QED BY <1>3, <1>4, <1>5

\* An idle writer has nothing under way.
LEMMA IdleProgress ==
  ASSUME NEW w \in Writers, pc'[w] = "idle"
  PROVE  Progress(w)'
BY DEF Progress, Building, Complete, Committed

\* Removing what is not the active generation
LEMMA RemoveFrame ==
  ASSUME Struct, UNCHANGED <<data, current, legacy, durable, acked, hadLegacy>>,
         gen' \in [Gens -> Condition], \A g \in Gens : g = current => gen'[g] = gen[g]
  PROVE  CurrentResolves' /\ Unseen
<1>1. Unseen
  BY VisibleFrame, DurableFrame DEF Unseen, durable
<1>2. CurrentResolves'
  BY DEF Struct, TypeInv, TypeOK, CurrentResolves, Resolves, durable
<1>3. QED BY <1>1, <1>2

\* A rollback does not touch the active generation.
LEMMA RollbackFrame ==
  ASSUME Struct, NEW w \in Writers, pc[w] # "idle", Rollback(w)
  PROVE  gen' \in [Gens -> Condition] /\ \A g \in Gens : g = current => gen'[g] = gen[g]
<1> USE DEF Struct, TypeInv, TypeOK, CurrentResolves, Resolves
<1>1. gen' \in [Gens -> Condition]
  BY DEF Rollback, Condition
<1>2. ASSUME current \in Gens PROVE gen'[current] = gen[current]
  <2>1. gen[current] = "final"
    BY <1>2, StoreAssumption
  <2>2. current \notin Incomplete
    BY <2>1 DEF Incomplete
  <2>3. ~(pc[w] = "published" /\ (current = NoGen \/ ~Resolves(current, gen)))
    BY <2>1, <1>2, StoreAssumption
  <2>4. CASE pc[w] \in InTry /\ mine[w] \in Incomplete
    BY <2>4, <2>2, <1>2 DEF Rollback
  <2>5. CASE ~(pc[w] \in InTry /\ mine[w] \in Incomplete)
    BY <2>5, <2>3 DEF Rollback
  <2>6. QED BY <2>4, <2>5
<1>3. QED BY <1>1, <1>2

\* What each step of a writer leaves true of that writer and of the pointer,
\* and how much of it the outside sees.
Kept(w) ==
  /\ pc[w] # "idle" /\ view' = view
  /\ \A v \in Writers \ {w} : pc'[v] = pc[v]
  /\ CurrentResolves' /\ Progress(w)'

\* The steps before the writer has a generation of its own
LEMMA EarlySteps ==
  ASSUME Struct, NEW w \in Writers,
         \/ CleanIncomplete(w) \/ Reject(w) \/ RemoveBegin(w) \/ CleanUnreferenced(w)
         \/ Replay(w) \/ Refuse(w) \/ CopyActive(w)
  PROVE  Kept(w) /\ Unseen
<1> USE DEF Struct, TypeInv, TypeOK
<1> DEFINE Same == \A g \in Gens : g = current => gen'[g] = gen[g]
<1>0. current \in Gens => gen[current] = "final"
  BY StoreAssumption DEF CurrentResolves, Resolves
<1>1. CASE CleanIncomplete(w)
  <2>1. gen' \in [Gens -> Condition] /\ Same
    BY <1>1, <1>0 DEF CleanIncomplete, Incomplete, Condition
  <2>2. CurrentResolves' /\ Unseen
    BY <1>1, <2>1, RemoveFrame DEF CleanIncomplete, history
  <2>3. Progress(w)'
    BY <1>1 DEF CleanIncomplete, Progress, Building, Complete, Committed
  <2>4. QED BY <1>1, <2>2, <2>3 DEF Kept, CleanIncomplete
<1>2. CASE Reject(w)
  <2>1. pc[w] # "idle"
    BY <1>2 DEF Reject, Raises
  <2>2. CurrentResolves' /\ Unseen
    BY <1>2, <2>1, RollbackFrame, RemoveFrame DEF Reject, history
  <2>3. Progress(w)'
    BY <1>2, IdleProgress DEF Reject
  <2>4. QED BY <1>2, <2>1, <2>2, <2>3 DEF Kept, Reject
<1>3. CASE RemoveBegin(w)
  <2>1. gen' \in [Gens -> Condition] /\ Same
    BY <1>3 DEF RemoveBegin, Unreferenced, Condition
  <2>2. CurrentResolves' /\ Unseen
    BY <1>3, <2>1, RemoveFrame DEF RemoveBegin, history
  <2>3. Progress(w)'
    BY <1>3, <2>2 DEF RemoveBegin, Progress, Building, Complete, Committed, Unseen, writer
  <2>4. QED BY <1>3, <2>2, <2>3 DEF Kept, RemoveBegin, writer
<1>4. CASE CleanUnreferenced(w)
  <2>1. gen' \in [Gens -> Condition] /\ Same
    BY <1>4 DEF CleanUnreferenced, RemoveUnreferenced, Unreferenced, Condition
  <2>2. CurrentResolves' /\ Unseen
    BY <1>4, <2>1, RemoveFrame DEF CleanUnreferenced, history
  <2>3. Progress(w)'
    BY <1>4 DEF CleanUnreferenced, Progress, Building, Complete, Committed
  <2>4. QED BY <1>4, <2>2, <2>3 DEF Kept, CleanUnreferenced
<1>5. CASE Replay(w)
  <2>1. CurrentResolves' /\ Unseen
    BY <1>5, RemoveFrame DEF Replay, history, disk
  <2>2. current # NoGen
    BY <1>5 DEF Replay, Visible, Contents, LegacyContent, EmptyContent
  <2>3. Progress(w)'
    BY <1>5, <2>1, <2>2
    DEF Replay, Progress, Building, Complete, Committed, Unseen, disk
  <2>4. QED BY <1>5, <2>1, <2>3 DEF Kept, Replay
<1>6. CASE Refuse(w)
  <2>1. CurrentResolves' /\ Unseen
    BY <1>6, RemoveFrame DEF Refuse, history, disk
  <2>2. Progress(w)'
    BY <1>6, IdleProgress DEF Refuse
  <2>3. QED BY <1>6, <2>1, <2>2 DEF Kept, Refuse
<1>7. CASE CopyActive(w)
  <2>1. PICK g \in Gens : /\ Fresh(g)
                          /\ gen' = [gen EXCEPT ![g] = "staging"]
                          /\ data' = [data EXCEPT ![g] = Visible]
                          /\ mine' = [mine EXCEPT ![w] = g]
    BY <1>7 DEF CopyActive
  <2>2. g # current /\ g # currentD
    BY <2>1 DEF Fresh
  <2>3. Unseen
    BY <1>7, <2>1, <2>2, VisibleFrame, DurableFrame DEF CopyActive, Unseen, durable, history
  <2>4. CurrentResolves'
    BY <1>7, <2>1, <2>2 DEF CopyActive, CurrentResolves, Resolves, durable
  <2>5. Progress(w)'
    BY <1>7, <2>1, <2>2, <2>3
    DEF CopyActive, Progress, Building, Complete, Committed, Unseen, durable
  <2>6. QED BY <1>7, <2>3, <2>4, <2>5 DEF Kept, CopyActive
<1>8. QED BY <1>1, <1>2, <1>3, <1>4, <1>5, <1>6, <1>7

\* Building and publishing its generation
LEMMA BuildSteps ==
  ASSUME Struct, NEW w \in Writers,
         \/ Mutate(w) \/ Discard(w) \/ WriteOperation(w) \/ PublishStage(w)
         \/ PublishRename(w)
  PROVE  Kept(w) /\ Unseen
<1> USE DEF Struct, TypeInv, TypeOK
<1>1. mine[w] \in Gens /\ mine[w] # current /\ mine[w] # currentD
  BY DEF Mutate, Discard, WriteOperation, PublishStage, PublishRename, Progress, Building
<1>2. /\ current' = current /\ legacy' = legacy
      /\ UNCHANGED <<currentD, legacyD, genD, acked, hadLegacy, view>>
      /\ pc[w] # "idle" /\ \A v \in Writers \ {w} : pc'[v] = pc[v]
  BY DEF Mutate, Discard, WriteOperation, PublishStage, PublishRename, durable, history
<1>3. \A g \in Gens \ {mine[w]} : gen'[g] = gen[g] /\ data'[g] = data[g]
  BY DEF Mutate, Discard, WriteOperation, PublishStage, PublishRename
<1>4. Unseen
  BY <1>1, <1>2, <1>3, VisibleFrame, DurableFrame DEF Unseen
<1>5. CurrentResolves'
  BY <1>1, <1>2, <1>3 DEF CurrentResolves, Resolves
<1>6. Progress(w)'
  <2> USE <1>1, <1>2, <1>4 DEF Unseen, Building, Complete, Committed
  <2>1. CASE Mutate(w)
    BY <2>1 DEF Mutate, Progress
  <2>2. CASE Discard(w)
    BY <2>2, IdleProgress DEF Discard
  <2>3. CASE WriteOperation(w)
    BY <2>3 DEF WriteOperation, Progress
  <2>4. CASE PublishStage(w)
    BY <2>4 DEF PublishStage, Progress
  <2>5. CASE PublishRename(w)
    BY <2>5 DEF PublishRename, Progress
  <2>6. QED BY <2>1, <2>2, <2>3, <2>4, <2>5
<1>7. QED BY <1>2, <1>4, <1>5, <1>6 DEF Kept

\* The fsyncs of _publish, on a filesystem that orders its metadata
LEMMA SyncSteps ==
  ASSUME Ordered, Struct, NEW w \in Writers,
         PublishSync(w) \/ PublishLink(w) \/ PublishDone(w)
  PROVE  Kept(w) /\ Stabilised
<1> USE DEF Struct, TypeInv, TypeOK
<1>1. SyncAll /\ UNCHANGED <<disk, req, mine, view, acked, hadLegacy>>
  BY DEF PublishSync, PublishLink, PublishDone, SyncGenerations, SyncState, history
<1>2. Stabilised /\ CurrentResolves'
  BY <1>1, SyncFrame
<1>3. pc[w] # "idle" /\ \A v \in Writers \ {w} : pc'[v] = pc[v]
  BY DEF PublishSync, PublishLink, PublishDone
<1>4. Progress(w)'
  <2> USE <1>1, <1>2 DEF Stabilised, SyncAll, disk, Building, Complete, Committed
  <2>1. CASE PublishSync(w)
    BY <2>1 DEF PublishSync, Progress
  <2>2. CASE PublishLink(w)
    BY <2>2 DEF PublishLink, Progress
  <2>3. CASE PublishDone(w)
    BY <2>3 DEF PublishDone, Progress
  <2>4. QED BY <2>1, <2>2, <2>3
<1>5. QED BY <1>1, <1>2, <1>3, <1>4 DEF Kept

\* The commit point
LEMMA SwapStep ==
  ASSUME Struct, NEW w \in Writers, PublishSwap(w)
  PROVE  /\ Kept(w)
         /\ req[w] \in Requests /\ ~HasReceipt(Visible, req[w].id)
         /\ Visible' = Receipt(Perform(Visible, req[w]), req[w])
         /\ DurableVisible' = DurableVisible /\ acked' = acked /\ hadLegacy' = hadLegacy
<1> USE DEF Struct, TypeInv, TypeOK
<1>1. /\ mine[w] \in Gens /\ gen[mine[w]] = "final" /\ mine[w] # NoGen
      /\ ~HasReceipt(Visible, req[w].id)
      /\ data[mine[w]] = Receipt(Perform(Visible, req[w]), req[w])
  BY StoreAssumption DEF PublishSwap, Progress, Building, Complete
<1>2. Visible' = data[mine[w]]
  BY <1>1 DEF PublishSwap, Visible, Contents
<1>3. req[w] \in Requests
  BY DEF PublishSwap, Requested
<1>4. DurableVisible' = DurableVisible
  BY DurableFrame DEF PublishSwap, durable
<1>5. CurrentResolves'
  BY <1>1 DEF PublishSwap, CurrentResolves, Resolves, durable
<1>6. req[w].id # NoId => req[w] \in Visible'.receipts
  BY <1>1, <1>2 DEF Receipt
<1>7. Progress(w)'
  BY <1>1, <1>6 DEF PublishSwap, Progress, Building, Complete, Committed
<1>8. QED BY <1>1, <1>2, <1>3, <1>4, <1>5, <1>7 DEF Kept, PublishSwap, history

\* What follows the commit
LEMMA LateSteps ==
  ASSUME Struct, NEW w \in Writers,
         Verify(w) \/ CleanOldGenerations(w) \/ LegacyBegin(w) \/ CleanLegacyState(w)
  PROVE  Kept(w) /\ Unseen
<1> USE DEF Struct, TypeInv, TypeOK
<1>1. current # NoGen /\ pc[w] \in Committed
  BY DEF Verify, CleanOldGenerations, LegacyBegin, CleanLegacyState, Progress, Committed
<1>2. /\ UNCHANGED <<data, current, genD, currentD, legacyD, acked, hadLegacy, view, mine, req>>
      /\ pc[w] # "idle" /\ \A v \in Writers \ {w} : pc'[v] = pc[v]
      /\ pc'[w] \in {"verified", "cleanlegacy", "acking"}
  BY DEF Verify, CleanOldGenerations, LegacyBegin, CleanLegacyState, durable, history, disk,
         writer
<1>3. \A g \in Gens : g = current => gen'[g] = gen[g]
  BY DEF Verify, CleanOldGenerations, RemoveUnreferenced, Unreferenced, LegacyBegin,
         CleanLegacyState, disk
<1>4. Unseen
  BY <1>1, <1>2, VisibleFrame, DurableFrame DEF Unseen
<1>5. CurrentResolves'
  BY <1>1, <1>2, <1>3 DEF CurrentResolves, Resolves
<1>6. Progress(w)'
  BY <1>1, <1>2, <1>4 DEF Unseen, Progress, Building, Complete, Committed
<1>7. QED BY <1>2, <1>4, <1>5, <1>6 DEF Kept

\* The answer to the caller
LEMMA ReturnStep ==
  ASSUME Ordered, Struct, NEW w \in Writers, Return(w)
  PROVE  /\ Kept(w)
         /\ Visible' = Visible /\ DurableVisible' = Visible /\ hadLegacy' = hadLegacy
         /\ \/ acked' = acked
            \/ \E o \in Operations : o \in Visible.receipts /\ acked' = acked \cup {o}
<1> USE DEF Struct, TypeInv, TypeOK
<1>1. SyncAll /\ UNCHANGED <<disk, view, hadLegacy>>
  BY DEF Return, SyncState
<1>2. Visible' = Visible /\ DurableVisible' = Visible /\ CurrentResolves'
  BY <1>1 DEF SyncAll, disk, Visible, DurableVisible, Contents, CurrentResolves, Resolves
<1>3. req[w].id # NoId => req[w] \in Operations /\ req[w] \in Visible.receipts
  BY DEF Return, Requested, Requests, Operations, Progress, Committed
<1>4. Kept(w)
  BY <1>1, <1>2, IdleProgress DEF Return, Kept
<1>5. acked' = acked \/ \E o \in Operations : o \in Visible.receipts /\ acked' = acked \cup {o}
  BY <1>3 DEF Return
<1>6. QED BY <1>1, <1>2, <1>4, <1>5

\* A failure or a SIGKILL of the writer
LEMMA StopSteps ==
  ASSUME Struct, NEW w \in Writers, Fail(w) \/ Kill(w)
  PROVE  Kept(w) /\ Unseen
<1> USE DEF Struct, TypeInv, TypeOK
<1>1. pc[w] # "idle" /\ gen' \in [Gens -> Condition] /\ \A g \in Gens : g = current => gen'[g] = gen[g]
  BY RollbackFrame DEF Fail, Kill, disk
<1>2. CurrentResolves' /\ Unseen
  BY <1>1, RemoveFrame DEF Fail, Kill, history, disk
<1>3. Progress(w)'
  BY IdleProgress DEF Fail, Kill
<1>4. QED BY <1>1, <1>2, <1>3 DEF Kept, Fail, Kill

\* A new command shows nothing new.
LEMMA BeginStep ==
  ASSUME Struct, NEW w \in Writers, NEW r \in Requests, Begin(w, r)
  PROVE  /\ Mutex' /\ CurrentResolves' /\ ReaderViewStable'
         /\ \A v \in Writers : Progress(v)'
         /\ Unseen
<1> USE DEF Struct, TypeInv, TypeOK
<1>1. /\ \A v \in Writers \ {w} : pc'[v] = "idle"
      /\ \A x \in Readers : view'[x] = Unbound
      /\ pc'[w] = "locked"
  BY DEF Begin, LockFree, Unlocked
<1>2. CurrentResolves' /\ Unseen
  BY RemoveFrame DEF Begin, history, disk
<1>3. Mutex' /\ ReaderViewStable'
  BY <1>1 DEF Mutex, ReaderViewStable
<1>4. \A v \in Writers : Progress(v)'
  BY <1>1 DEF Progress, Building, Complete, Committed
<1>5. QED BY <1>2, <1>3, <1>4

\* A reader that binds or unbinds shows nothing new.
LEMMA ReaderSteps ==
  ASSUME Struct, NEW r \in Readers, Bind(r) \/ Unbind(r)
  PROVE  /\ Mutex' /\ CurrentResolves' /\ ReaderViewStable'
         /\ \A v \in Writers : Progress(v)'
         /\ Unseen
<1> USE DEF Struct, TypeInv, TypeOK
<1>1. UNCHANGED <<disk, durable, writer, history>>
  BY DEF Bind, Unbind
<1>2. CurrentResolves' /\ Unseen
  BY <1>1, RemoveFrame DEF history, disk
<1>3. Mutex' /\ ReaderViewStable'
  BY <1>1 DEF Bind, Unbind, Unlocked, Mutex, ReaderViewStable, disk, writer
<1>4. \A v \in Writers : Progress(v)'
  BY <1>1, <1>2 DEF Progress, Unseen, disk, durable, writer
<1>5. QED BY <1>2, <1>3, <1>4

\* Writing back brings the disk to what is visible.
LEMMA WritebackStep ==
  ASSUME Ordered, Struct, Writeback
  PROVE  /\ Mutex' /\ CurrentResolves' /\ ReaderViewStable'
         /\ \A v \in Writers : Progress(v)'
         /\ Stabilised
<1> USE DEF Struct, TypeInv, TypeOK
<1>1. SyncAll /\ UNCHANGED <<disk, writer, view, history>>
  BY DEF Writeback
<1>2. CurrentResolves' /\ Stabilised
  BY <1>1, SyncFrame DEF history
<1>3. Mutex' /\ ReaderViewStable'
  BY <1>1 DEF Mutex, ReaderViewStable, Resolves, disk, writer
<1>4. \A v \in Writers : Progress(v)'
  BY <1>1, <1>2 DEF Progress, Stabilised, SyncAll, disk, writer
<1>5. QED BY <1>2, <1>3, <1>4

\* A power loss brings what is visible back to the disk.
LEMMA PowerStep ==
  ASSUME Struct, PowerLoss
  PROVE  /\ Mutex' /\ CurrentResolves' /\ ReaderViewStable'
         /\ \A v \in Writers : Progress(v)'
         /\ Visible' = DurableVisible /\ DurableVisible' = DurableVisible
         /\ acked' = acked /\ hadLegacy' = hadLegacy
<1> USE DEF Struct, TypeInv, TypeOK, PowerLoss
<1>1. Visible' = DurableVisible /\ DurableVisible' = DurableVisible
  BY DEF Visible, DurableVisible, Contents, durable
<1>2. CurrentResolves'
  BY DEF CurrentResolves, Resolves, durable
<1>3. Mutex' /\ ReaderViewStable'
  BY DEF Mutex, ReaderViewStable
<1>4. \A v \in Writers : Progress(v)'
  BY IdleProgress
<1>5. QED BY <1>1, <1>2, <1>3, <1>4 DEF history

-------------------------------------------------------------------------------
(* Implementation of the atomic store *)

\* The steps of AtomicStore in terms of what the outside sees
LEMMA AbstractSteps ==
  /\ Unseen => UNCHANGED Store!vars
  /\ Stabilised => Store!Stabilise
  /\ \A r \in Requests :
       ~HasReceipt(Visible, r.id) /\ Visible' = Receipt(Perform(Visible, r), r)
       /\ DurableVisible' = DurableVisible /\ acked' = acked => Store!Commit(r)
  /\ \A o \in Operations :
       o \in Visible.receipts /\ Visible' = Visible /\ DurableVisible' = Visible
       /\ acked' = acked \cup {o} => Store!Acknowledge(o)
  /\ Visible' = DurableVisible /\ DurableVisible' = DurableVisible /\ acked' = acked
       => Store!PowerLoss
BY DEF Unseen, Stabilised, Store!vars, Store!Stabilise, Store!Commit, Store!Acknowledge,
   Store!PowerLoss, HasReceipt, Store!HasReceipt, Receipt, Store!Receipt, Perform,
   Store!Perform

\* A writer step that keeps the parts keeps the structure.
LEMMA KeptIsStruct ==
  ASSUME Struct, TypeInv', NEW w \in Writers, Kept(w)
  PROVE  Struct'
<1>1. Mutex' /\ ReaderViewStable' /\ \A v \in Writers \ {w} : Progress(v)'
  BY Owner DEF Kept
<1>2. QED BY <1>1 DEF Kept, Struct

\* On a filesystem that orders its metadata, every step of the store keeps the
\* inductive invariant and is a step of the atomic store or none.
LEMMA StructStep ==
  ASSUME Ordered, Struct, [Next]_vars
  PROVE  Struct' /\ hadLegacy' = hadLegacy /\ [Store!Next]_(Store!vars)
<1>0. TypeInv'
  BY TypeNext DEF Struct
<1> DEFINE Goal == Struct' /\ hadLegacy' = hadLegacy /\ [Store!Next]_(Store!vars)
<1>a. ASSUME Unseen \/ Stabilised PROVE hadLegacy' = hadLegacy /\ [Store!Next]_(Store!vars)
  BY <1>a, AbstractSteps DEF Unseen, Stabilised, Store!Next
<1>b. ASSUME Mutex', CurrentResolves', ReaderViewStable', \A v \in Writers : Progress(v)'
      PROVE  Struct'
  BY <1>b, <1>0 DEF Struct
<1>1. CASE UNCHANGED vars
  <2>1. UNCHANGED <<gen, data, current, legacy, genD, currentD, legacyD, pc, req, mine,
                    view, acked, hadLegacy>>
    BY <1>1 DEF vars, disk, durable, writer, history
  <2>2. Visible' = Visible /\ DurableVisible' = DurableVisible
    BY <2>1 DEF Visible, DurableVisible, Contents
  <2>3. Mutex' /\ CurrentResolves' /\ ReaderViewStable' /\ \A v \in Writers : Progress(v)'
    BY <2>1, <2>2 DEF Struct, Mutex, CurrentResolves, Resolves, ReaderViewStable, Progress
  <2>4. QED BY <2>1, <2>2, <2>3, <1>a, <1>b DEF Unseen
<1>2. ASSUME NEW w \in Writers, NEW r \in Requests, Begin(w, r) PROVE Goal
  BY <1>2, <1>a, <1>b, BeginStep
<1>3. ASSUME NEW w \in Writers, Advance(w) \/ Fail(w) \/ Kill(w) PROVE Goal
  <2>1. CASE \/ CleanIncomplete(w) \/ Reject(w) \/ RemoveBegin(w) \/ CleanUnreferenced(w)
             \/ Replay(w) \/ Refuse(w) \/ CopyActive(w)
    BY <2>1, <1>0, <1>a, EarlySteps, KeptIsStruct
  <2>2. CASE \/ Mutate(w) \/ Discard(w) \/ WriteOperation(w) \/ PublishStage(w)
             \/ PublishRename(w)
    BY <2>2, <1>0, <1>a, BuildSteps, KeptIsStruct
  <2>3. CASE PublishSync(w) \/ PublishLink(w) \/ PublishDone(w)
    BY <2>3, <1>0, <1>a, SyncSteps, KeptIsStruct
  <2>4. CASE PublishSwap(w)
    <3>1. Struct'
      BY <2>4, <1>0, SwapStep, KeptIsStruct
    <3>2. hadLegacy' = hadLegacy /\ Store!Commit(req[w]) /\ req[w] \in Requests
      BY <2>4, SwapStep, AbstractSteps
    <3>3. QED BY <3>1, <3>2 DEF Store!Next, Requests, Store!Requests
  <2>5. CASE Verify(w) \/ CleanOldGenerations(w) \/ LegacyBegin(w) \/ CleanLegacyState(w)
    BY <2>5, <1>0, <1>a, LateSteps, KeptIsStruct
  <2>6. CASE Return(w)
    <3>1. Struct' /\ hadLegacy' = hadLegacy
      BY <2>6, <1>0, ReturnStep, KeptIsStruct
    <3>2. CASE acked' = acked
      BY <2>6, <3>1, <3>2, <1>a, ReturnStep DEF Stabilised
    <3>3. CASE \E o \in Operations : o \in Visible.receipts /\ acked' = acked \cup {o}
      <4>1. \E o \in Operations : Store!Acknowledge(o)
        BY <2>6, <3>3, ReturnStep, AbstractSteps
      <4>2. QED BY <3>1, <4>1 DEF Store!Next, Operations, Store!Operations
    <3>4. QED BY <2>6, <3>2, <3>3, ReturnStep
  <2>7. CASE Fail(w) \/ Kill(w)
    BY <2>7, <1>0, <1>a, StopSteps, KeptIsStruct
  <2>8. QED BY <1>3, <2>1, <2>2, <2>3, <2>4, <2>5, <2>6, <2>7 DEF Advance
<1>4. ASSUME NEW r \in Readers, Bind(r) \/ Unbind(r) PROVE Goal
  BY <1>4, <1>a, <1>b, ReaderSteps
<1>5. CASE Writeback
  BY <1>5, <1>a, <1>b, WritebackStep
<1>6. CASE PowerLoss
  <2>1. Struct' /\ hadLegacy' = hadLegacy
    BY <1>6, <1>b, PowerStep
  <2>2. Store!PowerLoss
    BY <1>6, PowerStep, AbstractSteps
  <2>3. QED BY <2>1, <2>2 DEF Store!Next
<1>7. QED BY <1>1, <1>2, <1>3, <1>4, <1>5, <1>6 DEF Next

\* The initial layouts are in order.
LEMMA StructInit == Init => Struct /\ Store!Init
<1> SUFFICES ASSUME Init PROVE Struct /\ Store!Init
  OBVIOUS
<1>1. TypeInv
  BY TypeInit
<1>2. Mutex /\ CurrentResolves /\ ReaderViewStable
  BY DEF Init, Mutex, CurrentResolves, Resolves, ReaderViewStable
<1>3. \A w \in Writers : Progress(w)
  BY DEF Init, Progress, Building, Complete, Committed
<1>4. Store!Init
  BY DEF Init, Store!Init, Visible, DurableVisible, Contents, EmptyContent, LegacyContent,
         Store!EmptyContent, Store!LegacyContent
<1>5. QED BY <1>1, <1>2, <1>3, <1>4 DEF Struct

-------------------------------------------------------------------------------
(* What the callers rely on *)

\* A mutation whose ID has no receipt keeps receipts and effects in step.
LEMMA CommitExactlyOnce ==
  ASSUME NEW c \in Content, NEW r \in Requests, ExactlyOnce(c), ~HasReceipt(c, r.id)
  PROVE  ExactlyOnce(Receipt(Perform(c, r), r))
<1> DEFINE n == Receipt(Perform(c, r), r)
<1>1. /\ n.done = c.done \cup {r}
      /\ n.receipts = IF r.id = NoId THEN c.receipts ELSE c.receipts \cup {r}
      /\ n.repeated = (c.repeated \/ (r.id # NoId /\ r \in c.done))
  BY DEF Receipt, Perform
<1>2. n.receipts = {q \in n.done : q.id # NoId}
  BY <1>1 DEF ExactlyOnce
<1>3. r.id # NoId => r \notin c.done
  BY DEF ExactlyOnce, HasReceipt
<1>4. ~n.repeated
  BY <1>1, <1>3 DEF ExactlyOnce
<1>5. \A o, p \in n.receipts : o.id = p.id => o = p
  BY <1>1 DEF ExactlyOnce, HasReceipt
<1>6. QED BY <1>2, <1>4, <1>5 DEF ExactlyOnce

\* At first nothing is promised.
LEMMA PromiseInit == Init => Promise
<1> SUFFICES ASSUME Init PROVE Promise
  OBVIOUS
<1>1. Visible = DurableVisible /\ Visible \in {EmptyContent, LegacyContent}
  BY DEF Init, Visible, DurableVisible, Contents
<1>2. hadLegacy => Visible.legacy
  BY DEF Init, Visible, Contents, LegacyContent
<1>3. ExactlyOnce(Visible)
  BY <1>1 DEF ExactlyOnce, EmptyContent, LegacyContent
<1>4. QED BY <1>1, <1>2, <1>3
  DEF Promise, ReceiptsMatchEffects, AckedSurvive, LegacyPreserved, Init

\* Whatever the store does inside, the step the outside sees keeps the promises.
LEMMA PromiseStep ==
  ASSUME TypeOK, Promise, hadLegacy' = hadLegacy, [Store!Next]_(Store!vars)
  PROVE  Promise'
<1> USE DEF Promise, ReceiptsMatchEffects, AckedSurvive, LegacyPreserved
<1>1. CASE UNCHANGED Store!vars
  BY <1>1 DEF Store!vars
<1>2. ASSUME NEW r \in Requests, Store!Commit(r) PROVE Promise'
  <2>1. /\ ~HasReceipt(Visible, r.id)
        /\ Visible' = Receipt(Perform(Visible, r), r)
        /\ DurableVisible' = DurableVisible /\ acked' = acked
    BY <1>2 DEF Store!Commit, HasReceipt, Store!HasReceipt, Receipt, Store!Receipt, Perform,
                Store!Perform
  <2>2. ExactlyOnce(Visible')
    BY <2>1, VisibleTyped, CommitExactlyOnce
  <2>3. Visible'.legacy = Visible.legacy /\ Visible.receipts \subseteq Visible'.receipts
    BY <2>1 DEF Receipt, Perform
  <2>4. QED BY <2>1, <2>2, <2>3
<1>3. CASE Store!Stabilise
  BY <1>3 DEF Store!Stabilise
<1>4. ASSUME NEW o \in Operations, Store!Acknowledge(o) PROVE Promise'
  BY <1>4 DEF Store!Acknowledge
<1>5. CASE Store!PowerLoss
  BY <1>5 DEF Store!PowerLoss
<1>6. QED BY <1>1, <1>2, <1>3, <1>4, <1>5
  DEF Store!Next, Store!Requests, Requests, Store!Operations, Operations

\* Structure and promise hold in every reachable state.
LEMMA Safety ==
  ASSUME Ordered
  PROVE  Spec => [](Struct /\ Promise)
<1>1. Init => Struct /\ Promise
  BY StructInit, PromiseInit
<1>2. Struct /\ Promise /\ [Next]_vars => Struct' /\ Promise'
  BY StructStep, PromiseStep DEF Struct, TypeInv
<1>3. QED BY <1>1, <1>2, PTL DEF Spec

\* Where metadata reaches the disk in order, state/current leads to a complete
\* generation at every instant and after any power loss, however many writers,
\* retries and faults there are.
THEOREM PointerSafe ==
  ASSUME Ordered
  PROVE  Spec => []CurrentResolves
<1>1. Struct /\ Promise => CurrentResolves
  BY DEF Struct
<1>2. QED BY <1>1, Safety, PTL

\* No writer publishes over, or cleans up, the generation of a reader that is
\* inside locked_state_view.
THEOREM ReadersUndisturbed ==
  ASSUME Ordered
  PROVE  Spec => []ReaderViewStable
<1>1. Struct /\ Promise => ReaderViewStable
  BY DEF Struct
<1>2. QED BY <1>1, Safety, PTL

\* An operation ID takes effect at most once, with its receipt, however often
\* mutate_state is retried after failures and power losses.
THEOREM ExactlyOnceEffects ==
  ASSUME Ordered
  PROVE  Spec => []ReceiptsMatchEffects
<1>1. Struct /\ Promise => ReceiptsMatchEffects
  BY DEF Promise
<1>2. QED BY <1>1, Safety, PTL

\* What mutate_state reported as done survives every later fault.
THEOREM AcknowledgedSurvives ==
  ASSUME Ordered
  PROVE  Spec => []AckedSurvive
<1>1. Struct /\ Promise => AckedSurvive
  BY DEF Promise
<1>2. QED BY <1>1, Safety, PTL

\* The migration from the legacy layout never loses the legacy keys.
THEOREM MigrationSafe ==
  ASSUME Ordered
  PROVE  Spec => []LegacyPreserved
<1>1. Struct /\ Promise => LegacyPreserved
  BY DEF Promise
<1>2. QED BY <1>1, Safety, PTL

\* mutate_state and locked_state_view implement one atomic, durable value.
THEOREM Refinement ==
  ASSUME Ordered
  PROVE  Spec => ImplementsAtomicStore
<1>1. Init => Struct /\ Store!Init
  BY StructInit
<1>2. Struct /\ [Next]_vars => Struct' /\ [Store!Next]_(Store!vars)
  BY StructStep
<1>3. QED BY <1>1, <1>2, PTL DEF Spec, ImplementsAtomicStore, Store!Spec
===============================================================================
