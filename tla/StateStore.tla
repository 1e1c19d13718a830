------------------------------ MODULE StateStore ------------------------------
(***************************************************************************)
(* The persistent state of shuttle-gate (state.py).  state/generations     *)
(* holds complete copies of the state, state/current is a symlink to the   *)
(* active one, and state/server, state/peers are the layout of an earlier  *)
(* release ("legacy").  mutate_state copies the active generation into a   *)
(* staging directory, changes the copy, adds a receipt for the operation   *)
(* ID, renames the copy into place, swaps the pointer and then removes     *)
(* what is no longer referenced.                                           *)
(*                                                                         *)
(* Every effect is a step, so that a failure, a SIGKILL or a power loss    *)
(* can fall between any two of them.  The disk has a volatile and a        *)
(* durable image; fsync and writeback copy one to the other.               *)
(***************************************************************************)
EXTENDS StateContent, Naturals

CONSTANTS Writers,    \* processes that call mutate_state
          Readers,    \* processes that call locked_state_view
          Gens,       \* generation names (uuid4 in the code)
          NoGen,      \* state/current does not exist
          Unbound,    \* a reader outside its critical section
          Ordered,    \* metadata reaches the disk in the order it was changed
          Faults,     \* which of "fail", "kill", "power" may happen
          MaxFaults   \* bound: how many of them

ASSUME StoreAssumption ==
  /\ NoId \notin Ids
  /\ NoGen \notin Gens
  /\ Unbound \notin Gens \cup {NoGen}
  /\ Ordered \in BOOLEAN
  /\ Faults \subseteq {"fail", "kill", "power"}
  /\ MaxFaults \in Nat

VARIABLES
  gen, data,                  \* state/generations: condition, content
  current, legacy,            \* state/current, state/{server,peers}
  genD, currentD, legacyD,    \* what the disk holds of those three
  pc, req, mine,              \* per writer: step, request, its generation
  view,                       \* per reader: the generation it is using
  acked,                      \* operations reported to their callers as done
  faults,
  hadLegacy                   \* history: the instance started with legacy state

disk == <<gen, data, current, legacy>>
durable == <<genD, currentD, legacyD>>
writer == <<pc, req, mine>>
history == <<acked, hadLegacy>>
vars == <<disk, durable, writer, view, history, faults>>

-------------------------------------------------------------------------------
(* State *)

\* "staging": .staging-<uuid> being filled; "staged": complete with manifest and
\* fsynced; "final": renamed to gen-<uuid>; "torn": gen-<uuid> partly removed.
Condition == {"absent", "staging", "staged", "final", "torn"}
Incomplete == {g \in Gens : gen[g] \in {"staging", "staged"}}
Unreferenced == {g \in Gens \ {current} : gen[g] \in {"final", "torn"}}

\* _active_generation: the pointer is absent, or leads to a manifest.
Resolves(c, conditions) == IF c = NoGen THEN TRUE ELSE conditions[c] = "final"

\* Without a pointer the state is the legacy layout, if there is one.
Contents(c, l) ==
  IF c # NoGen THEN data[c]
  ELSE IF l = "present" THEN LegacyContent ELSE EmptyContent
Visible == Contents(current, legacy)
DurableVisible == Contents(currentD, legacyD)

\* Steps of mutate_state: inside the try block, and all of them.
InTry == {"copied", "mutated", "receipted", "staged", "renamed", "synced",
          "linked", "swapped", "published"}
Steps == {"idle", "locked", "swept", "ready", "verified", "cleanlegacy", "acking"}
         \cup InTry

\* state_lock: a writer between entry and return holds it exclusively, a bound
\* reader shares it.
Unlocked == \A w \in Writers : pc[w] = "idle"
LockFree == Unlocked /\ \A r \in Readers : view[r] = Unbound

NoRequest == [id |-> NoId, kind |-> NoId]

Init ==
  /\ gen = [g \in Gens |-> "absent"]
  /\ data = [g \in Gens |-> EmptyContent]
  /\ current = NoGen
  /\ legacy \in {"present", "absent"}
  /\ genD = gen /\ currentD = current /\ legacyD = legacy
  /\ pc = [w \in Writers |-> "idle"]
  /\ req = [w \in Writers |-> NoRequest]
  /\ mine = [w \in Writers |-> NoGen]
  /\ view = [r \in Readers |-> Unbound]
  /\ acked = {}
  /\ faults = 0
  /\ hadLegacy = (legacy = "present")

-------------------------------------------------------------------------------
(* Disk *)

\* Everything at once: what an fsync does where metadata is journaled in order.
SyncAll == genD' = gen /\ currentD' = current /\ legacyD' = legacy

\* fsync_directory(state/generations)
SyncGenerations ==
  IF Ordered THEN SyncAll ELSE genD' = gen /\ UNCHANGED <<currentD, legacyD>>

\* Mutant: fsync of the directory is forgotten.
SyncStateForgotten == UNCHANGED durable

\* fsync_directory(state)
SyncState ==
  IF Ordered THEN SyncAll
  ELSE currentD' = current /\ legacyD' = legacy /\ UNCHANGED genD

\* The kernel writes back on its own.
Writeback ==
  /\ \/ Ordered /\ SyncAll
     \/ /\ ~Ordered
        /\ \E g \in Gens : genD' = [genD EXCEPT ![g] = gen[g]]
        /\ UNCHANGED <<currentD, legacyD>>
     \/ ~Ordered /\ currentD' = current /\ UNCHANGED <<genD, legacyD>>
     \/ ~Ordered /\ legacyD' = legacy /\ UNCHANGED <<genD, currentD>>
  /\ UNCHANGED <<disk, writer, view, history, faults>>

-------------------------------------------------------------------------------
(* mutate_state *)

Goto(w, from, to) == pc[w] = from /\ pc' = [pc EXCEPT ![w] = to]
Leave(w) == /\ pc' = [pc EXCEPT ![w] = "idle"]
            /\ mine' = [mine EXCEPT ![w] = NoGen]
            /\ req' = [req EXCEPT ![w] = NoRequest]

\* A removal that fails is suppressed and leaves the object behind.
MayLeave(kept) ==
  \/ kept = {} /\ UNCHANGED faults
  \/ /\ kept # {} /\ "fail" \in Faults /\ faults < MaxFaults
     /\ faults' = faults + 1

\* Mutant: the handler removes the generation without looking at the pointer.
RollbackAlways(w) ==
  IF pc[w] \in InTry THEN gen' = [gen EXCEPT ![mine[w]] = "absent"] ELSE gen' = gen

\* The except BaseException handler of mutate_state; outside the try block the
\* exception only drops the lock.
Rollback(w) ==
  LET g == mine[w] IN
  IF pc[w] \in InTry /\ g \in Incomplete
    THEN gen' \in {gen, [gen EXCEPT ![g] = "absent"]}
  ELSE IF pc[w] = "published" /\ (current = NoGen \/ ~Resolves(current, gen))
    THEN gen' \in {gen, [gen EXCEPT ![g] = "absent"]}
  ELSE gen' = gen

\* Mutant: the lock is exclusive among writers only.
BeginBesideReaders(w, r) ==
  /\ Unlocked
  /\ pc' = [pc EXCEPT ![w] = "locked"]
  /\ req' = [req EXCEPT ![w] = r]
  /\ UNCHANGED <<disk, durable, mine, view, history, faults>>

\* LOCK_EX | LOCK_NB: a writer that does not get the lock gives up, which
\* changes nothing.
Begin(w, r) ==
  /\ LockFree
  /\ pc' = [pc EXCEPT ![w] = "locked"]
  /\ req' = [req EXCEPT ![w] = r]
  /\ UNCHANGED <<disk, durable, mine, view, history, faults>>

\* Mutant: what an interrupted writer left is not cleaned.
CleanIncompleteNothing(w) ==
  /\ Goto(w, "locked", "swept")
  /\ UNCHANGED <<disk, durable, req, mine, view, history, faults>>

CleanIncomplete(w) ==
  /\ Goto(w, "locked", "swept")
  /\ \E kept \in SUBSET Incomplete :
       /\ MayLeave(kept)
       /\ gen' = [g \in Gens |-> IF g \in Incomplete \ kept THEN "absent" ELSE gen[g]]
  /\ UNCHANGED <<data, current, legacy, durable, req, mine, view, history>>

\* _active_generation or _clean_unreferenced_generations raises, or the
\* pointer does not lead to this writer's generation after publication.
Verified(w) == current = mine[w] /\ Resolves(current, gen)
Raises(w) == \/ pc[w] = "swept" /\ (~Resolves(current, gen) \/ Incomplete # {})
             \/ pc[w] = "published" /\ ~Verified(w)

Reject(w) ==
  /\ Raises(w)
  /\ Rollback(w)
  /\ Leave(w)
  /\ UNCHANGED <<data, current, legacy, durable, view, history, faults>>

\* shutil.rmtree is not atomic.
RemoveBegin(w) ==
  /\ pc[w] \in {"swept", "verified"} /\ Resolves(current, gen)
  /\ \E g \in Unreferenced :
       gen[g] = "final" /\ gen' = [gen EXCEPT ![g] = "torn"]
  /\ UNCHANGED <<data, current, legacy, durable, writer, view, history, faults>>

\* The trailing fsync of both cleanups is suppressed too, so nothing may count
\* on it; Writeback covers the case that it works.
RemoveUnreferenced ==
  \E kept \in SUBSET Unreferenced :
    /\ MayLeave(kept)
    /\ gen' = [g \in Gens |-> IF g \in Unreferenced \ kept THEN "absent" ELSE gen[g]]

CleanUnreferenced(w) ==
  /\ Resolves(current, gen) /\ Incomplete = {}
  /\ Goto(w, "swept", "ready")
  /\ RemoveUnreferenced
  /\ UNCHANGED <<data, current, legacy, durable, req, mine, view, history>>

\* _read_operation finds the receipt of this very request.
Replay(w) ==
  /\ req[w] \in Visible.receipts
  /\ Goto(w, "ready", "cleanlegacy")
  /\ UNCHANGED <<disk, durable, req, mine, view, history, faults>>

\* _read_operation finds the ID under another kind.
Refuse(w) ==
  /\ pc[w] = "ready"
  /\ HasReceipt(Visible, req[w].id) /\ req[w] \notin Visible.receipts
  /\ Leave(w)
  /\ UNCHANGED <<disk, durable, view, history, faults>>

Fresh(g) == /\ gen[g] = "absent" /\ genD[g] = "absent"
            /\ g \notin {current, currentD}

\* Mutant: the receipt of an earlier attempt is not looked for.
CopyActiveUnchecked(w) ==
  /\ Goto(w, "ready", "copied")
  /\ \E g \in Gens :
       /\ Fresh(g)
       /\ gen' = [gen EXCEPT ![g] = "staging"]
       /\ data' = [data EXCEPT ![g] = Visible]
       /\ mine' = [mine EXCEPT ![w] = g]
  /\ UNCHANGED <<current, legacy, durable, req, view, history, faults>>

\* Mutant: the legacy layout is not copied.
CopyActiveOnly(w) ==
  /\ ~HasReceipt(Visible, req[w].id)
  /\ Goto(w, "ready", "copied")
  /\ \E g \in Gens :
       /\ Fresh(g)
       /\ gen' = [gen EXCEPT ![g] = "staging"]
       /\ data' = [data EXCEPT ![g] = IF current = NoGen THEN EmptyContent ELSE Visible]
       /\ mine' = [mine EXCEPT ![w] = g]
  /\ UNCHANGED <<current, legacy, durable, req, view, history, faults>>

\* _copy_active, or _copy_legacy_state where there is no generation yet.
CopyActive(w) ==
  /\ ~HasReceipt(Visible, req[w].id)
  /\ Goto(w, "ready", "copied")
  /\ \E g \in Gens :
       /\ Fresh(g)
       /\ gen' = [gen EXCEPT ![g] = "staging"]
       /\ data' = [data EXCEPT ![g] = Visible]
       /\ mine' = [mine EXCEPT ![w] = g]
  /\ UNCHANGED <<current, legacy, durable, req, view, history, faults>>

Mutate(w) ==
  /\ Goto(w, "copied", "mutated")
  /\ data' = [data EXCEPT ![mine[w]] = Perform(@, req[w])]
  /\ UNCHANGED <<gen, current, legacy, durable, req, mine, view, history, faults>>

\* publish_if declines (keys prune without an orphan, which has no ID).
Discard(w) ==
  /\ pc[w] = "mutated" /\ req[w].id = NoId
  /\ gen' = [gen EXCEPT ![mine[w]] = "absent"]
  /\ Leave(w)
  /\ UNCHANGED <<data, current, legacy, durable, view, history, faults>>

WriteOperation(w) ==
  /\ Goto(w, "mutated", "receipted")
  /\ data' = [data EXCEPT ![mine[w]] = Receipt(@, req[w])]
  /\ UNCHANGED <<gen, current, legacy, durable, req, mine, view, history, faults>>

\* _publish: manifest and _fsync_tree
PublishStage(w) ==
  /\ Goto(w, "receipted", "staged")
  /\ gen' = [gen EXCEPT ![mine[w]] = "staged"]
  /\ UNCHANGED <<data, current, legacy, durable, req, mine, view, history, faults>>

\* os.replace(staging, final)
PublishRename(w) ==
  /\ Goto(w, "staged", "renamed")
  /\ gen' = [gen EXCEPT ![mine[w]] = "final"]
  /\ UNCHANGED <<data, current, legacy, durable, req, mine, view, history, faults>>

\* Mutant: the renamed generation is not synced before the pointer is swapped.
PublishUnsynced(w) ==
  /\ Goto(w, "renamed", "synced")
  /\ UNCHANGED <<disk, durable, req, mine, view, history, faults>>

PublishSync(w) ==
  /\ Goto(w, "renamed", "synced")
  /\ SyncGenerations
  /\ UNCHANGED <<disk, req, mine, view, history, faults>>

\* The temporary link is invisible until it is renamed.
PublishLink(w) ==
  /\ Goto(w, "synced", "linked")
  /\ SyncState
  /\ UNCHANGED <<disk, req, mine, view, history, faults>>

\* os.replace(temporary_link, current): the commit point
PublishSwap(w) ==
  /\ Goto(w, "linked", "swapped")
  /\ current' = mine[w]
  /\ UNCHANGED <<gen, data, legacy, durable, req, mine, view, history, faults>>

PublishDone(w) ==
  /\ Goto(w, "swapped", "published")
  /\ SyncState
  /\ UNCHANGED <<disk, req, mine, view, history, faults>>

Verify(w) ==
  /\ Verified(w)
  /\ Goto(w, "published", "verified")
  /\ UNCHANGED <<disk, durable, req, mine, view, history, faults>>

CleanOldGenerations(w) ==
  /\ Goto(w, "verified", "cleanlegacy")
  /\ RemoveUnreferenced
  /\ UNCHANGED <<data, current, legacy, durable, req, mine, view, history>>

\* Mutant: the legacy layout is moved instead of copied.
LegacyBeginEarly(w) ==
  /\ pc[w] \in {"copied", "cleanlegacy"} /\ legacy = "present"
  /\ legacy' = "torn"
  /\ UNCHANGED <<gen, data, current, durable, writer, view, history, faults>>

\* _clean_legacy_state
LegacyBegin(w) ==
  /\ pc[w] = "cleanlegacy" /\ legacy = "present"
  /\ legacy' = "torn"
  /\ UNCHANGED <<gen, data, current, durable, writer, view, history, faults>>

CleanLegacyState(w) ==
  /\ Goto(w, "cleanlegacy", "acking")
  /\ legacy' = "absent"
  /\ UNCHANGED <<gen, data, current, durable, req, mine, view, history, faults>>

\* Mutant: success is reported before the last fsync.
ReturnUnsynced(w) ==
  /\ pc[w] = "acking"
  /\ acked' = IF req[w].id = NoId THEN acked ELSE acked \cup {req[w]}
  /\ Leave(w)
  /\ UNCHANGED <<disk, durable, view, hadLegacy, faults>>

\* Mutant: a mutation without an operation ID is reported as an operation.
ReturnAny(w) ==
  /\ pc[w] = "acking"
  /\ SyncState
  /\ acked' = acked \cup {req[w]}
  /\ Leave(w)
  /\ UNCHANGED <<disk, view, hadLegacy, faults>>

\* Its fsync, then the return to the caller.
Return(w) ==
  /\ pc[w] = "acking"
  /\ SyncState
  /\ acked' = IF req[w].id = NoId THEN acked ELSE acked \cup {req[w]}
  /\ Leave(w)
  /\ UNCHANGED <<disk, view, hadLegacy, faults>>

-------------------------------------------------------------------------------
(* locked_state_view *)

\* With a legacy layout and no generation it refuses.
Bind(r) ==
  /\ Unlocked
  /\ view[r] = Unbound
  /\ Resolves(current, gen) /\ (current = NoGen => legacy = "absent")
  /\ view' = [view EXCEPT ![r] = current]
  /\ UNCHANGED <<disk, durable, writer, history, faults>>

\* Normal exit or death of the reader: the kernel drops the lock either way.
Unbind(r) ==
  /\ view[r] # Unbound
  /\ view' = [view EXCEPT ![r] = Unbound]
  /\ UNCHANGED <<disk, durable, writer, history, faults>>

-------------------------------------------------------------------------------
(* Faults *)

Fault(kind) == kind \in Faults /\ faults < MaxFaults /\ faults' = faults + 1

\* An OSError, a failing command or validator, SIGINT.
Fail(w) ==
  /\ Fault("fail")
  /\ pc[w] # "idle"
  /\ Rollback(w)
  /\ Leave(w)
  /\ UNCHANGED <<data, current, legacy, durable, view, history>>

\* SIGKILL: no handler runs, the lock is released.
Kill(w) ==
  /\ Fault("kill")
  /\ pc[w] # "idle"
  /\ Leave(w)
  /\ UNCHANGED <<disk, durable, view, history>>

PowerLoss ==
  /\ Fault("power")
  /\ gen' = genD /\ current' = currentD /\ legacy' = legacyD
  /\ pc' = [w \in Writers |-> "idle"]
  /\ req' = [w \in Writers |-> NoRequest]
  /\ mine' = [w \in Writers |-> NoGen]
  /\ view' = [r \in Readers |-> Unbound]
  /\ UNCHANGED <<data, durable, history>>

-------------------------------------------------------------------------------
(* Specification *)

\* One step of a mutate_state call that meets no fault.
Advance(w) ==
  \/ CleanIncomplete(w) \/ Reject(w) \/ RemoveBegin(w) \/ CleanUnreferenced(w)
  \/ Replay(w) \/ Refuse(w) \/ CopyActive(w) \/ Mutate(w) \/ Discard(w)
  \/ WriteOperation(w) \/ PublishStage(w) \/ PublishRename(w) \/ PublishSync(w)
  \/ PublishLink(w) \/ PublishSwap(w) \/ PublishDone(w) \/ Verify(w)
  \/ CleanOldGenerations(w) \/ LegacyBegin(w) \/ CleanLegacyState(w) \/ Return(w)

Next ==
  \/ \E w \in Writers : \/ \E r \in Requests : Begin(w, r)
                        \/ Advance(w) \/ Fail(w) \/ Kill(w)
  \/ \E r \in Readers : Bind(r) \/ Unbind(r)
  \/ Writeback \/ PowerLoss

Spec == Init /\ [][Next]_vars

\* mutate_state never waits once it holds the lock, the kernel writes back in
\* the end, readers let go of the lock, and a caller repeats a request until it
\* is answered.
FairSpec ==
  /\ Spec
  /\ WF_vars(Writeback)
  /\ \A r \in Readers : WF_vars(Unbind(r))
  /\ \A w \in Writers : WF_vars(Advance(w))
  /\ \A w \in Writers : \A o \in Operations : SF_vars(Begin(w, o))
-------------------------------------------------------------------------------
(* Properties *)

\* The variables hold what the code can put there.
TypeOK ==
  /\ gen \in [Gens -> Condition] /\ genD \in [Gens -> Condition]
  /\ data \in [Gens -> Content]
  /\ current \in Gens \cup {NoGen} /\ currentD \in Gens \cup {NoGen}
  /\ legacy \in {"present", "torn", "absent"}
  /\ legacyD \in {"present", "torn", "absent"}
  /\ pc \in [Writers -> Steps]
  /\ req \in [Writers -> Requests \cup {NoRequest}]
  /\ mine \in [Writers -> Gens \cup {NoGen}]
  /\ view \in [Readers -> Gens \cup {NoGen, Unbound}]
  /\ acked \subseteq Operations
  /\ faults \in 0..MaxFaults
  /\ hadLegacy \in BOOLEAN

\* Whatever stops mutate_state, and wherever, state/current never leads to a
\* missing, incomplete or half-removed generation - neither now nor after a
\* power loss at this instant.
CurrentResolves == Resolves(current, gen) /\ Resolves(currentD, genD)

\* The part of it that a user meets: whatever happened before, the next command
\* finds a usable state.
PointerUsable == Resolves(current, gen)

\* An operation ID takes effect at most once and never without its receipt,
\* however often the request is repeated after a failure (_read_operation,
\* _write_operation): receipts and effects agree in every published generation.
ExactlyOnce(c) ==
  /\ c.receipts = {r \in c.done : r.id # NoId}
  /\ ~c.repeated
  /\ \A o, p \in c.receipts : o.id = p.id => o = p
ReceiptsMatchEffects == ExactlyOnce(Visible) /\ ExactlyOnce(DurableVisible)

\* A caller that was told its operation succeeded finds it again after any
\* later failure or power loss: the fsyncs of _publish and
\* _clean_legacy_state precede the return of mutate_state.
AckedSurvive == acked \subseteq Visible.receipts \cap DurableVisible.receipts

\* Migration never loses the legacy keys: the directories are removed only
\* when a generation that holds their content is durable.
LegacyPreserved == hadLegacy => Visible.legacy /\ DurableVisible.legacy

\* While a reader is inside locked_state_view its generation stays the active,
\* complete one: no writer publishes over it or cleans it up.
ReaderViewStable ==
  \A r \in Readers : view[r] # Unbound =>
    view[r] = current /\ Resolves(current, gen)

\* The store behaves as one atomic, durable value.
Store == INSTANCE AtomicStore WITH value <- Visible, stable <- DurableVisible
ImplementsAtomicStore == Store!Spec

\* A request that is repeated is answered in the end, whatever the failures
\* before left on the disk: every operation ID is acknowledged under some kind.
RetryConverges ==
  \A i \in Ids : <>(\E o \in acked : o.id = i)
===============================================================================
