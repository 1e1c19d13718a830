-------------------------- MODULE SshKeyTransaction --------------------------
(***************************************************************************)
(* Replacement of the SSH identity (keys.py, generate_ssh_key and          *)
(* recover_ssh_key_transaction).  The two key files cannot be replaced by  *)
(* one rename, so the new pair is staged, a journal is written, the old    *)
(* files are moved to backups and the new ones into place, a receipt for   *)
(* the operation ID is recorded, and only then everything temporary is     *)
(* removed, the journal last.  Every command that needs the key first      *)
(* finishes a transaction whose journal it finds.                          *)
(*                                                                         *)
(* The key files and the journal are entries of one directory, receipts of *)
(* another, state/operations, which the first receipt makes and which is   *)
(* itself an entry of state/.  The entries of one directory reach the disk *)
(* together; the filesystem says whether the three directories do.  The    *)
(* directory of the key files and state/ are on the disk from before.      *)
(* state.py's exclusive lock makes the running command the only one.       *)
(***************************************************************************)
EXTENDS Naturals, Sequences

CONSTANTS Keys,       \* key pairs that ssh-keygen can produce
          Original,   \* the key pair from before
          None,       \* no such file
          Ids,        \* operation IDs
          Filesystems,  \* ordered: a sync of one directory also flushes the
                        \* others; faults: which of "stop", "power" may happen;
                        \* operations: an earlier command made state/operations
                        \* and it has reached the disk since
          MaxFaults   \* bound: how many of them

ASSUME SshAssumption ==
  /\ Original \notin Keys
  /\ None \notin Keys \cup {Original} \cup Ids
  /\ Filesystems \subseteq [ordered : BOOLEAN, faults : SUBSET {"stop", "power"},
                              operations : BOOLEAN]
  /\ MaxFaults \in Nat

VARIABLES
  fs,                 \* the filesystem below, always the same
  file,               \* the six key files: which key pair each belongs to
  journal,            \* the transaction journal, or NoJournal
  receipt,            \* per operation ID: what it was used for, or NoReceipt
  fileD, journalD, receiptD,  \* what the disk holds of those three
  listed,             \* the disk's state/ has an entry for state/operations
  pc, request,        \* the running command
  side,               \* the key file being installed
  recovering,         \* it is finishing a transaction that it found
  used,               \* history: keys generated so far
  served,             \* history: [id, key] found in place by a command, in order
  acked,              \* history: operations reported as done
  faults

vars == <<fs, file, journal, receipt, fileD, journalD, receiptD, listed, pc, request,
          side, recovering, used, served, acked, faults>>

-------------------------------------------------------------------------------
(* State *)

Sides == {"private", "public"}
Files == Sides \X {"key", "stage", "backup"}
Key(s) == <<s, "key">>
Stage(s) == <<s, "stage">>
Backup(s) == <<s, "backup">>
Temporary == Sides \X {"stage", "backup"}

Requests == [id : Ids, force : BOOLEAN]
Recover == [id |-> None, force |-> FALSE]   \* config validate, launch, ssh instructions
NoJournal == [id |-> None]
NoReceipt == [key |-> None]

Steps == {"idle", "read", "install", "backedup", "place", "placed", "verify",
          "record", "recorded", "remove", "clean", "check", "keygen", "keygenpub",
          "staged", "stagedsync", "journaled"}

\* The pair in force: with a journal the transaction can no longer be undone.
Pair(f, j) ==
  IF j = NoJournal THEN [s \in Sides |-> f[Key(s)]] ELSE [s \in Sides |-> j.new]
InForce == Pair(file, journal)
DurablyInForce == Pair(fileD, journalD)

disk == <<file, journal, receipt>>
durable == <<fileD, journalD, receiptD, listed>>
history == <<used, served, acked>>

\* A user may have brought both files, one of them, or none.
Init ==
  /\ fs \in Filesystems
  /\ file \in {f \in [Files -> {Original, None}] : \A t \in Temporary : f[t] = None}
  /\ journal = NoJournal
  /\ receipt = [i \in Ids |-> NoReceipt]
  /\ fileD = file /\ journalD = journal /\ receiptD = receipt /\ listed = fs.operations
  /\ pc = "idle" /\ request = Recover /\ side = "public" /\ recovering = FALSE
  /\ used = {} /\ served = <<>> /\ acked = {}
  /\ faults = 0

-------------------------------------------------------------------------------
(* Disk *)

NoReceipts == [i \in Ids |-> NoReceipt]

\* state/operations is there: from before, or since the first receipt.
Listing == listed \/ receipt # NoReceipts

SyncAll == fileD' = file /\ journalD' = journal /\ receiptD' = receipt /\ listed' = Listing

\* Mutant: the key directory is not synced.
SyncKeysForgotten == UNCHANGED durable

\* fsync_directory(identity.parent)
SyncKeys ==
  IF fs.ordered THEN SyncAll
  ELSE fileD' = file /\ journalD' = journal /\ UNCHANGED <<receiptD, listed>>

\* fsync_directory(state/operations): not of the entry that it has in state/
SyncReceipts ==
  IF fs.ordered THEN SyncAll
  ELSE receiptD' = receipt /\ UNCHANGED <<fileD, journalD, listed>>

\* state/ reaches the disk: no command here asks for it.
FlushState ==
  IF fs.ordered THEN SyncAll
  ELSE listed' = Listing /\ UNCHANGED <<fileD, journalD, receiptD>>

Writeback ==
  /\ SyncKeys \/ SyncReceipts \/ FlushState
  /\ UNCHANGED <<disk, pc, request, side, recovering, history, faults>>

\* What a power loss leaves of the receipts: without an entry for their directory, none.
Survivors == IF listed THEN receiptD ELSE NoReceipts

-------------------------------------------------------------------------------
(* Commands *)

Goto(from, to) == pc = from /\ pc' = to
Leave == /\ pc' = "idle" /\ request' = Recover /\ side' = "public"
         /\ recovering' = FALSE
Rename(from, to) == file' = [file EXCEPT ![from] = None, ![to] = file[from]]

Start(r) ==
  /\ Goto("idle", "read")
  /\ request' = r
  /\ UNCHANGED <<disk, durable, side, recovering, history, faults>>

\* Mutant: the journal is not looked for.
ReadTransactionBlind ==
  /\ Goto("read", "clean")
  /\ UNCHANGED <<disk, durable, request, side, recovering, history, faults>>

\* recover_ssh_key_transaction: finish what the journal says, if there is one.
ReadTransaction ==
  /\ Goto("read", IF journal = NoJournal THEN "clean" ELSE "install")
  /\ recovering' = (journal # NoJournal)
  /\ UNCHANGED <<disk, durable, request, side, history, faults>>

-------------------------------------------------------------------------------
(* _finish_ssh_key_transaction, the public key first *)

Installed(s) == file[Key(s)] = journal.new
AfterInstall(s) == IF s = "public" THEN "install" ELSE "verify"

\* Mutant: an earlier attempt that got as far as the backup is not expected.
CanInstallFirstTime(s) ==
  \/ Installed(s)
  \/ file[Stage(s)] = journal.new /\ file[Key(s)] = journal.old[s]

\* What _install_transaction_file requires before it moves anything.
CanInstall(s) ==
  \/ Installed(s)
  \/ /\ file[Stage(s)] = journal.new
     /\ IF journal.old[s] = None THEN file[Key(s)] = None
        ELSE IF file[Backup(s)] = None THEN file[Key(s)] = journal.old[s]
        ELSE file[Backup(s)] = journal.old[s]

InstallSkip ==
  /\ Goto("install", AfterInstall(side))
  /\ Installed(side)
  /\ side' = "private"
  /\ UNCHANGED <<disk, durable, request, recovering, history, faults>>

\* _replace_and_sync(destination, backup), up to its sync
InstallBackup ==
  /\ Goto("install", "backedup")
  /\ ~Installed(side) /\ CanInstall(side)
  /\ journal.old[side] # None /\ file[Backup(side)] = None
  /\ Rename(Key(side), Backup(side))
  /\ UNCHANGED <<journal, receipt, durable, request, side, recovering, history, faults>>

InstallBackupSync ==
  /\ Goto("backedup", "place")
  /\ SyncKeys
  /\ UNCHANGED <<disk, request, side, recovering, history, faults>>

\* Nothing to back up, or an earlier attempt did.
InstallResume ==
  /\ Goto("install", "place")
  /\ ~Installed(side) /\ CanInstall(side)
  /\ journal.old[side] = None \/ file[Backup(side)] # None
  /\ UNCHANGED <<disk, durable, request, side, recovering, history, faults>>

InstallPlace ==
  /\ Goto("place", "placed")
  /\ Rename(Stage(side), Key(side))
  /\ UNCHANGED <<journal, receipt, durable, request, side, recovering, history, faults>>

InstallPlaceSync ==
  /\ Goto("placed", AfterInstall(side))
  /\ SyncKeys
  /\ side' = "private"
  /\ UNCHANGED <<disk, request, recovering, history, faults>>

Verify ==
  /\ Goto("verify", "record")
  /\ \A s \in Sides : Installed(s)
  /\ UNCHANGED <<disk, durable, request, side, recovering, history, faults>>

-------------------------------------------------------------------------------
(* Receipts *)

\* _ssh_operation_completed raises: another kind, or the key was replaced since.
Conflicts(id, force) ==
  /\ receipt[id] # NoReceipt
  /\ receipt[id].force # force \/ \E s \in Sides : file[Key(s)] # receipt[id].key
Completed(id, force) == receipt[id] # NoReceipt /\ ~Conflicts(id, force)

\* _record_ssh_operation: a receipt that is there is enough.
RecordSkip ==
  /\ Goto("record", "remove")
  /\ Completed(journal.id, journal.force)
  /\ UNCHANGED <<disk, durable, request, side, recovering, history, faults>>

Record ==
  /\ Goto("record", "recorded")
  /\ receipt[journal.id] = NoReceipt
  /\ receipt' = [receipt EXCEPT ![journal.id] =
                   [force |-> journal.force, key |-> journal.new]]
  /\ UNCHANGED <<file, journal, durable, request, side, recovering, history, faults>>

RecordSync ==
  /\ Goto("recorded", "remove")
  /\ SyncReceipts
  /\ UNCHANGED <<disk, request, side, recovering, history, faults>>

-------------------------------------------------------------------------------
(* _remove_ssh_transaction, in its order, and the orphans *)

\* The command has synced the key directory and found no journal in it: it
\* takes the pair and its receipt for settled.
Settle ==
  LET k == file[Key("private")]
      settled == {[id |-> i, key |-> k] : i \in {j \in Ids : receipt[j].key = k}}
  IN  served' = IF k \in Keys /\ settled # {} /\ ~\E n \in DOMAIN served : served[n] \in settled
                THEN Append(served, CHOOSE e \in settled : TRUE) ELSE served

RemovalOrder == <<Stage("private"), Stage("public"), Backup("private"), Backup("public")>>

\* unlink(missing_ok=True) of the next file that is there
RemoveFile ==
  /\ pc = "remove"
  /\ \E n \in 1..Len(RemovalOrder) :
       /\ file[RemovalOrder[n]] # None
       /\ \A m \in 1..(n - 1) : file[RemovalOrder[m]] = None
       /\ file' = [file EXCEPT ![RemovalOrder[n]] = None]
  /\ UNCHANGED <<journal, receipt, durable, pc, request, side, recovering, history, faults>>

\* Mutant: the journal goes while a key is still on its way.
RemoveJournalEarly ==
  /\ pc \in {"place", "remove"} /\ journal # NoJournal
  /\ pc' = "remove" /\ journal' = NoJournal
  /\ UNCHANGED <<file, receipt, durable, request, side, recovering, history, faults>>

RemoveJournal ==
  /\ pc = "remove" /\ journal # NoJournal
  /\ \A t \in Temporary : file[t] = None
  /\ journal' = NoJournal
  /\ UNCHANGED <<file, receipt, durable, pc, request, side, recovering, history, faults>>

\* The closing fsync; generate_ssh_key returns, a recovery goes on.
RemoveSyncRecovered ==
  /\ Goto("remove", "clean")
  /\ recovering /\ journal = NoJournal
  /\ SyncKeys
  /\ side' = "public" /\ recovering' = FALSE
  /\ UNCHANGED <<disk, request, history, faults>>

RemoveSyncReturn ==
  /\ ~recovering /\ journal = NoJournal
  /\ pc = "remove"
  /\ SyncKeys
  /\ Settle
  /\ acked' = acked \cup {request}
  /\ Leave
  /\ UNCHANGED <<disk, used, faults>>

\* _clean_orphaned_ssh_transaction_files, in directory order (any)
CleanOrphan ==
  /\ pc = "clean"
  /\ \E t \in Temporary : file[t] # None /\ file' = [file EXCEPT ![t] = None]
  /\ UNCHANGED <<journal, receipt, durable, pc, request, side, recovering, history, faults>>

CleanOrphansSync ==
  /\ Goto("clean", "check")
  /\ \A t \in Temporary : file[t] = None
  /\ request # Recover
  /\ SyncKeys
  /\ Settle
  /\ UNCHANGED <<disk, request, side, recovering, used, acked, faults>>

RecoverReturn ==
  /\ \A t \in Temporary : file[t] = None
  /\ request = Recover
  /\ pc = "clean"
  /\ SyncKeys
  /\ Settle
  /\ Leave
  /\ UNCHANGED <<disk, used, acked, faults>>

-------------------------------------------------------------------------------
(* The rest of generate_ssh_key *)

\* Mutant: a receipt of another kind counts.
ReplayAnyKind ==
  /\ pc = "check" /\ receipt[request.id] # NoReceipt
  /\ acked' = acked \cup {request}
  /\ Leave
  /\ UNCHANGED <<disk, durable, used, served, faults>>

Replay ==
  /\ pc = "check" /\ Completed(request.id, request.force)
  /\ acked' = acked \cup {request}
  /\ Leave
  /\ UNCHANGED <<disk, durable, used, served, faults>>

\* The ID was used otherwise or superseded, or there is a key and no --force.
KeyExists == \E s \in Sides : file[Key(s)] # None
Refuse ==
  /\ pc = "check"
  /\ IF receipt[request.id] # NoReceipt THEN Conflicts(request.id, request.force)
     ELSE KeyExists /\ ~request.force
  /\ Leave
  /\ UNCHANGED <<disk, durable, history, faults>>

Proceed ==
  /\ Goto("check", "keygen")
  /\ receipt[request.id] = NoReceipt /\ (KeyExists => request.force)
  /\ UNCHANGED <<disk, durable, request, side, recovering, history, faults>>

\* Mutant: ssh-keygen writes to the identity itself.
KeygenInPlace ==
  /\ Goto("keygen", "keygenpub")
  /\ \E k \in Keys \ used :
       /\ file' = [file EXCEPT ![Stage("private")] = k, ![Key("private")] = k]
       /\ used' = used \cup {k}
  /\ UNCHANGED <<journal, receipt, durable, request, side, recovering, served, acked, faults>>

\* ssh-keygen writes the private half first; a fresh key every time.
Keygen ==
  /\ Goto("keygen", "keygenpub")
  /\ \E k \in Keys \ used :
       /\ file' = [file EXCEPT ![Stage("private")] = k]
       /\ used' = used \cup {k}
  /\ UNCHANGED <<journal, receipt, durable, request, side, recovering, served, acked, faults>>

KeygenPublic ==
  /\ Goto("keygenpub", "staged")
  /\ file' = [file EXCEPT ![Stage("public")] = file[Stage("private")]]
  /\ UNCHANGED <<journal, receipt, durable, request, side, recovering, history, faults>>

StageSync ==
  /\ Goto("staged", "stagedsync")
  /\ SyncKeys
  /\ UNCHANGED <<disk, request, side, recovering, history, faults>>

\* Mutant: the journal names the key that is being replaced.
WriteJournalOfOld ==
  /\ Goto("stagedsync", "journaled")
  /\ journal' = [id |-> request.id, force |-> request.force,
                 new |-> file[Key("private")],
                 old |-> [s \in Sides |-> file[Key(s)]]]
  /\ UNCHANGED <<file, receipt, durable, request, side, recovering, history, faults>>

\* atomic_write_json of the journal: the rename, then the fsync
WriteJournal ==
  /\ Goto("stagedsync", "journaled")
  /\ journal' = [id |-> request.id, force |-> request.force,
                 new |-> file[Stage("private")],
                 old |-> [s \in Sides |-> file[Key(s)]]]
  /\ UNCHANGED <<file, receipt, durable, request, side, recovering, history, faults>>

JournalSync ==
  /\ Goto("journaled", "install")
  /\ SyncKeys
  /\ UNCHANGED <<disk, request, side, recovering, history, faults>>

-------------------------------------------------------------------------------
(* Faults *)

Fault(kind) == kind \in fs.faults /\ faults < MaxFaults /\ faults' = faults + 1

\* SIGKILL or an exception: no handler undoes anything.
Stop ==
  /\ Fault("stop")
  /\ pc # "idle"
  /\ Leave
  /\ UNCHANGED <<disk, durable, history>>

PowerLoss ==
  /\ Fault("power")
  /\ file' = fileD /\ journal' = journalD /\ receipt' = Survivors
  /\ receiptD' = Survivors
  /\ Leave
  /\ UNCHANGED <<fileD, journalD, listed, history>>

-------------------------------------------------------------------------------
(* Specification *)

\* Where a running transaction raises StateError: it must stay resumable.
Stuck ==
  \/ pc = "install" /\ ~CanInstall(side)
  \/ pc = "verify" /\ \E s \in Sides : ~Installed(s)
  \/ pc = "record" /\ Conflicts(journal.id, journal.force)

\* The running command goes on.
Running ==
  \/ ReadTransaction
  \/ InstallSkip \/ InstallBackup \/ InstallBackupSync \/ InstallResume
  \/ InstallPlace \/ InstallPlaceSync \/ Verify
  \/ RecordSkip \/ Record \/ RecordSync
  \/ RemoveFile \/ RemoveJournal \/ RemoveSyncRecovered \/ RemoveSyncReturn
  \/ CleanOrphan \/ CleanOrphansSync \/ RecoverReturn
  \/ Replay \/ Refuse \/ Proceed \/ Keygen \/ KeygenPublic \/ StageSync
  \/ WriteJournal \/ JournalSync

Next ==
  /\ UNCHANGED fs
  /\ \/ \E r \in Requests \cup {Recover} : Start(r)
     \/ Running
     \/ Writeback \/ Stop \/ PowerLoss

Spec == Init /\ [][Next]_vars

\* A command that holds the lock runs on, and the key is needed again.
FairSpec ==
  /\ Spec
  /\ WF_vars(Running /\ UNCHANGED fs)
  /\ WF_vars(Start(Recover) /\ UNCHANGED fs)

-------------------------------------------------------------------------------
(* Properties *)

\* The variables hold what the code can put there.
TypeOK ==
  /\ fs \in Filesystems
  /\ file \in [Files -> Keys \cup {Original, None}]
  /\ fileD \in [Files -> Keys \cup {Original, None}]
  /\ \A j \in {journal, journalD} :
       j = NoJournal \/ /\ j.id \in Ids /\ j.force \in BOOLEAN /\ j.new \in Keys
                        /\ j.old \in [Sides -> Keys \cup {Original, None}]
  /\ \A i \in Ids : \A r \in {receipt[i], receiptD[i]} :
       r = NoReceipt \/ r \in [force : BOOLEAN, key : Keys]
  /\ pc \in Steps /\ side \in Sides /\ recovering \in BOOLEAN
  /\ request \in Requests \cup {Recover}
  /\ used \subseteq Keys /\ served \in Seq([id : Ids, key : Keys]) /\ acked \subseteq Requests
  /\ listed \in BOOLEAN /\ faults \in 0..MaxFaults

\* However an earlier attempt ended, none of the "cannot resume", "could not be
\* verified" or "superseded" errors stops the transaction: from every journal
\* that can be found the pair is completed.
NeverStuck == ~Stuck

\* An operation ID yields at most one key, however often it is retried after an
\* interruption.
AtMostOneKey ==
  \A m, n \in DOMAIN served : served[m].id = served[n].id => m = n

\* Success is reported only for what a power loss leaves: the receipt names the
\* key that the operation put in place.
AckedSurvive ==
  \A o \in acked : \E n \in DOMAIN served :
    /\ served[n].id = o.id
    /\ Survivors[o.id] = [force |-> o.force, key |-> served[n].key]

\* Once a command found a new pair in place, no crash brings an older one back
\* and none of its halves goes missing.
Older == {None, Original} \cup {served[n].key : n \in 1..(Len(served) - 1)}
NoRollback ==
  served # <<>> =>
    \A p \in {InForce, DurablyInForce} : \A s \in Sides : p[s] \notin Older

\* Recovery finishes: a journal does not stay for ever, whatever interrupts it.
JournalResolved == (journal # NoJournal) ~> (journal = NoJournal)

\* The two files change as one.
KeyPair == INSTANCE AtomicKeyPair WITH pair <- InForce, stable <- DurablyInForce
ImplementsAtomicKeyPair == KeyPair!Spec
===============================================================================
