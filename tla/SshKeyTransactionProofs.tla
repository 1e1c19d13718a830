----------------------- MODULE SshKeyTransactionProofs -----------------------
(***************************************************************************)
(* Proofs about SshKeyTransaction for any keys, operation IDs, filesystems *)
(* and number of faults.                                                   *)
(***************************************************************************)
EXTENDS SshKeyTransaction, SequenceTheorems, TLAPS

-------------------------------------------------------------------------------
(* The inductive invariant *)

Content == Keys \cup {Original, None}
Journals == [id : Ids, force : BOOLEAN, new : Keys, old : [Sides -> Content]]
Receipts == [force : BOOLEAN, key : Keys]
Entries == [id : Ids, key : Keys]

Typed ==
  /\ fs \in Filesystems
  /\ file \in [Files -> Content] /\ fileD \in [Files -> Content]
  /\ journal \in Journals \cup {NoJournal} /\ journalD \in Journals \cup {NoJournal}
  /\ receipt \in [Ids -> Receipts \cup {NoReceipt}]
  /\ receiptD \in [Ids -> Receipts \cup {NoReceipt}]
  /\ pc \in Steps /\ side \in Sides /\ recovering \in BOOLEAN
  /\ request \in Requests \cup {Recover}
  /\ used \subseteq Keys /\ served \in Seq(Entries) /\ acked \subseteq Requests
  /\ faults \in 0..MaxFaults

\* From here the code goes on to the new pair, whatever happens.
Installing == {"install", "backedup", "place", "placed"}
Finishing == Installing \cup {"journaled", "verify", "record", "recorded"}
\* Between the check of the receipt and the journal
Making == {"check", "keygen", "keygenpub", "staged", "stagedsync"}

ControlAt ==
  /\ pc \in Finishing => journal # NoJournal
  /\ pc \in Making \cup {"clean"} => journal = NoJournal
  /\ pc \in Making => journalD = NoJournal
  /\ pc \in Making \cup {"idle", "read", "clean", "journaled"} =>
       side = "public" /\ recovering = FALSE
  /\ pc \in Making => request \in Requests
  /\ pc \in Finishing /\ recovering = FALSE =>
       request \in Requests /\ request.id = journal.id /\ request.force = journal.force

\* _install_transaction_file can go on with this side.
SideOK(f, j, s) ==
  \/ f[Key(s)] = j.new
  \/ /\ f[Stage(s)] = j.new
     /\ IF j.old[s] = None THEN f[Key(s)] = None
        ELSE IF f[Backup(s)] = None THEN f[Key(s)] = j.old[s] ELSE f[Backup(s)] = j.old[s]

\* A journal can be resumed; without one, a generated key has both halves.
Resumable(f, j) ==
  /\ j # NoJournal => \A s \in Sides : SideOK(f, j, s)
  /\ j = NoJournal /\ f[Key("private")] \in Keys => f[Key("public")] = f[Key("private")]

NoTemporary(f) == \A s \in Sides : f[Stage(s)] = None /\ f[Backup(s)] = None

ReceiptOf(j) == [force |-> j.force, key |-> j.new]

FilesAt ==
  /\ pc \in {"check", "keygen"} => NoTemporary(file)
  /\ pc \in {"keygenpub", "staged", "stagedsync"} =>
       file[Stage("private")] \in used /\ \A s \in Sides : file[Backup(s)] = None
  /\ pc \in {"staged", "stagedsync"} => file[Stage("public")] = file[Stage("private")]
  /\ pc \in {"backedup", "place"} => file[Stage(side)] = journal.new
  /\ pc = "placed" => Installed(side)
  /\ pc \in Installing /\ side = "private" => Installed("public")
  /\ pc \in {"verify", "record", "recorded"} => \A s \in Sides : Installed(s)
  /\ pc = "remove" /\ journal # NoJournal => \A s \in Sides : Installed(s)

ReceiptsAt ==
  /\ \A i \in Ids : receiptD[i] = NoReceipt \/ receiptD[i] = receipt[i]
  /\ \A j \in {journal, journalD} : j # NoJournal => receipt[j.id] \in {NoReceipt, ReceiptOf(j)}
  /\ journal # NoJournal => journalD \in {NoJournal, journal}
  /\ pc \in Making \ {"check"} => receipt[request.id] = NoReceipt
  /\ pc = "recorded" => receipt[journal.id] = ReceiptOf(journal)
  /\ pc = "remove" /\ journal # NoJournal => receipt[journal.id] = ReceiptOf(journal)
  /\ pc = "remove" /\ recovering = FALSE =>
       /\ request \in Requests /\ file[Key("private")] \in Keys
       /\ receipt[request.id] = [force |-> request.force, key |-> file[Key("private")]]

\* A key is known to be made for an operation.
MadeFor(i, k) ==
  \/ receipt[i].key = k
  \/ \E n \in DOMAIN served : served[n].id = i /\ served[n].key = k
  \/ \E j \in {journal, journalD} : j # NoJournal /\ j.id = i /\ j.new = k

OneOwner ==
  /\ \A i \in Ids : \A k \in Keys : MadeFor(i, k) =>
       /\ k \in used
       /\ \A h \in Ids : MadeFor(h, k) => h = i
  /\ pc \in {"keygenpub", "staged", "stagedsync"} =>
       \A i \in Ids : ~MadeFor(i, file[Stage("private")])

\* The pair is newer than all keys that were superseded.
Newest(p) ==
  served # <<>> =>
    /\ p["private"] \in Keys /\ p["public"] = p["private"]
    /\ \A n \in 1..(Len(served) - 1) : served[n].key # p["private"]

SshInv ==
  /\ Typed /\ ControlAt /\ FilesAt /\ ReceiptsAt /\ OneOwner
  /\ Resumable(file, journal) /\ Resumable(fileD, journalD)
  /\ Newest(InForce) /\ Newest(DurablyInForce)
  /\ listed \in BOOLEAN

-------------------------------------------------------------------------------
(* Receipts that survive: on a filesystem that keeps the order of the          *)
(* directories, or, once state/operations itself is on the disk, where         *)
(* commands are not killed and power may still fail.                           *)

KeepsReceipts(f) == f.ordered \/ ("stop" \notin f.faults /\ f.operations)

Settled == \A i \in Ids : receipt[i].key = file[Key("private")] /\ receipt[i].key \in Keys =>
             \E n \in DOMAIN served : served[n].id = i /\ served[n].key = receipt[i].key

AckedOnDisk ==
  \A o \in acked : \E n \in DOMAIN served :
    /\ served[n].id = o.id
    /\ receiptD[o.id] = [force |-> o.force, key |-> served[n].key]

SurviveInv ==
  /\ ~fs.ordered /\ pc # "recorded" => receiptD = receipt
  /\ ~fs.ordered => listed
  /\ \A i \in Ids : receiptD[i] # NoReceipt => listed
  /\ \A n \in DOMAIN served : receiptD[served[n].id].key = served[n].key
  /\ pc = "check" => Settled
  /\ AtMostOneKey /\ AckedOnDisk
-------------------------------------------------------------------------------
(* Files and syncs *)

\* The six files are different files.
LEMMA FilesApart ==
  /\ \A s \in Sides : Key(s) \in Files /\ Stage(s) \in Files /\ Backup(s) \in Files
  /\ \A s, t \in Sides : Key(s) # Stage(t) /\ Key(s) # Backup(t) /\ Stage(s) # Backup(t)
  /\ \A s, t \in Sides : s # t => Key(s) # Key(t) /\ Stage(s) # Stage(t) /\ Backup(s) # Backup(t)
<1> QED BY DEF Sides, Files, Key, Stage, Backup

\* Stages and backups are the temporary files.
LEMMA TemporaryAre ==
  /\ \A t \in Temporary : t \in Files /\ \E s \in Sides : t = Stage(s) \/ t = Backup(s)
  /\ \A s \in Sides : Stage(s) \in Temporary /\ Backup(s) \in Temporary
  /\ \A t \in Temporary : \A s \in Sides : t # Key(s)
<1> QED BY DEF Sides, Files, Key, Stage, Backup, Temporary

\* _remove_ssh_transaction unlinks nothing else.
LEMMA RemovalOrderIs == \A n \in 1..Len(RemovalOrder) : RemovalOrder[n] \in Temporary
<1>1. Len(RemovalOrder) = 4
  BY DEF RemovalOrder
<1>2. /\ RemovalOrder[1] = Stage("private") /\ RemovalOrder[2] = Stage("public")
      /\ RemovalOrder[3] = Backup("private") /\ RemovalOrder[4] = Backup("public")
  BY DEF RemovalOrder
<1> QED BY <1>1, <1>2, TemporaryAre DEF Sides

\* A sync of the key directory takes files and journal together.
LEMMA SyncKeysIs ==
  ASSUME SyncKeys
  PROVE  /\ fileD' = file /\ journalD' = journal
         /\ receiptD' = receipt \/ receiptD' = receiptD
         /\ fs.ordered => receiptD' = receipt
<1> QED BY DEF SyncKeys, SyncAll

\* state/ reaching the disk may take everything else along.
LEMMA FlushStateIs ==
  ASSUME FlushState
  PROVE  /\ (fileD' = file /\ journalD' = journal) \/ (fileD' = fileD /\ journalD' = journalD)
         /\ receiptD' = receipt \/ receiptD' = receiptD
<1> QED BY DEF FlushState, SyncAll

\* A power loss keeps receipts or loses them; it makes none.
LEMMA SurvivorsAre ==
  ASSUME Typed
  PROVE  /\ Survivors \in [Ids -> Receipts \cup {NoReceipt}]
         /\ \A i \in Ids : Survivors[i] = receiptD[i] \/ Survivors[i] = NoReceipt
         /\ listed => Survivors = receiptD
<1> QED BY DEF Typed, Survivors, NoReceipts

\* A sync of the receipts may take the key directory along.
LEMMA SyncReceiptsIs ==
  ASSUME SyncReceipts
  PROVE  /\ receiptD' = receipt
         /\ (fileD' = file /\ journalD' = journal) \/ (fileD' = fileD /\ journalD' = journalD)
<1> QED BY DEF SyncReceipts, SyncAll

\* The constants' names are not confused.
LEMMA Names ==
  /\ None \notin Keys /\ None \notin Ids /\ Original \notin Keys /\ MaxFaults \in Nat
  /\ NoJournal \notin Journals /\ NoReceipt \notin Receipts /\ NoReceipt.key = None
  /\ Recover \notin Requests
<1>1. None \notin Keys /\ None \notin Ids /\ Original \notin Keys /\ MaxFaults \in Nat
  BY SshAssumption
<1> QED BY <1>1 DEF NoJournal, Journals, NoReceipt, Receipts, Recover, Requests

\* What Settle may do to the history
LEMMA SettleIs ==
  ASSUME Typed, Settle
  PROVE  \/ served' = served
         \/ \E i \in Ids : /\ file[Key("private")] \in Keys
                           /\ receipt[i].key = file[Key("private")]
                           /\ served' = Append(served, [id |-> i, key |-> file[Key("private")]])
                           /\ \A n \in DOMAIN served :
                                ~ /\ served[n].key = file[Key("private")]
                                  /\ receipt[served[n].id].key = file[Key("private")]
<1> DEFINE k == file[Key("private")]
           S == {[id |-> i, key |-> k] : i \in {j \in Ids : receipt[j].key = k}}
<1> HIDE DEF k
<1>1. served' = IF k \in Keys /\ S # {} /\ ~\E n \in DOMAIN served : served[n] \in S
                THEN Append(served, CHOOSE e \in S : TRUE) ELSE served
  BY DEF Settle, k
<1>2. ASSUME k \in Keys, S # {}, ~\E n \in DOMAIN served : served[n] \in S
      PROVE  \E i \in Ids : /\ receipt[i].key = k
                            /\ served' = Append(served, [id |-> i, key |-> k])
                            /\ \A n \in DOMAIN served :
                                 ~ (served[n].key = k /\ receipt[served[n].id].key = k)
  <2>1. (CHOOSE e \in S : TRUE) \in S
    BY <1>2
  <2>2. PICK i \in Ids : receipt[i].key = k /\ (CHOOSE e \in S : TRUE) = [id |-> i, key |-> k]
    BY <2>1
  <2>3. served' = Append(served, [id |-> i, key |-> k])
    BY <1>1, <1>2, <2>2
  <2>4. ASSUME NEW n \in DOMAIN served, served[n].key = k, receipt[served[n].id].key = k
        PROVE  FALSE
    <3>1. served[n] \in Entries
      BY ElementOfSeq DEF Typed
    <3>2. served[n] = [id |-> served[n].id, key |-> k] /\ served[n].id \in Ids
      BY <2>4, <3>1 DEF Entries
    <3> QED BY <1>2, <2>4, <3>2
  <2> QED BY <2>2, <2>3, <2>4
<1> QED BY <1>1, <1>2 DEF k
-------------------------------------------------------------------------------
(* Types *)

\* Every step keeps the types.
LEMMA TypedNext == ASSUME Typed, ControlAt, FilesAt, ReceiptsAt, Next PROVE Typed'
<1> USE DEF Typed
<1>0. fs' \in Filesystems
  BY DEF Next
<1>1. "idle" \in Steps /\ "public" \in Sides /\ "private" \in Sides /\ FALSE \in BOOLEAN
      /\ TRUE \in BOOLEAN
  BY DEF Steps, Sides
<1>2. ASSUME NEW r \in Requests \cup {Recover}, Start(r) PROVE Typed'
  BY <1>0, <1>2 DEF Start, Goto, Steps, disk, durable, history
<1>3. CASE ReadTransaction
  <2>1. recovering' \in BOOLEAN
    BY <1>3, Zenon DEF ReadTransaction
  <2>2. pc' \in Steps
    BY <1>3 DEF ReadTransaction, Goto, Steps
  <2> QED BY <1>0, <1>3, <2>1, <2>2 DEF ReadTransaction, disk, durable, history
<1>4. CASE InstallSkip \/ InstallResume \/ Verify \/ RecordSkip \/ Proceed
  BY <1>0, <1>1, <1>4 DEF InstallSkip, InstallResume, Verify, RecordSkip, Proceed, Goto,
     AfterInstall, Steps, disk, durable, history
<1>5. CASE InstallBackup \/ InstallPlace
  <2>1. pc' \in Steps
    BY <1>5 DEF InstallBackup, InstallPlace, Goto, Steps
  <2>2. file' \in [Files -> Content]
    BY <1>5, FilesApart DEF InstallBackup, InstallPlace, Rename, Content
  <2> QED BY <1>0, <1>5, <2>1, <2>2 DEF InstallBackup, InstallPlace, durable, history
<1>6. CASE InstallBackupSync \/ InstallPlaceSync \/ StageSync \/ JournalSync
  <2>1. SyncKeys /\ pc' \in Steps /\ side' \in Sides
    BY <1>1, <1>6 DEF InstallBackupSync, InstallPlaceSync, StageSync, JournalSync, Goto,
       AfterInstall, Steps
  <2>2. UNCHANGED <<file, journal, receipt, request, recovering, used, served, acked, faults>>
    BY <1>6 DEF InstallBackupSync, InstallPlaceSync, StageSync, JournalSync, disk, history
  <2> QED BY <1>0, <2>1, <2>2, SyncKeysIs
<1>7. CASE Record
  <2>1. journal \in Journals
    BY <1>7 DEF Record, Goto, ControlAt, Finishing
  <2>2. ReceiptOf(journal) \in Receipts /\ journal.id \in Ids
    BY <2>1 DEF Journals, Receipts, ReceiptOf
  <2>3. receipt' = [receipt EXCEPT ![journal.id] = ReceiptOf(journal)]
    BY <1>7 DEF Record, ReceiptOf
  <2>4. receipt' \in [Ids -> Receipts \cup {NoReceipt}]
    BY <2>2, <2>3
  <2>5. pc' \in Steps
    BY <1>7 DEF Record, Goto, Steps
  <2> QED BY <1>0, <1>7, <2>4, <2>5 DEF Record, durable, history
<1>8. CASE RecordSync
  <2>1. SyncReceipts /\ pc' \in Steps
    BY <1>8 DEF RecordSync, Goto, Steps
  <2>2. UNCHANGED <<file, journal, receipt, request, side, recovering, used, served, acked, faults>>
    BY <1>8 DEF RecordSync, disk, history
  <2> QED BY <1>0, <2>1, <2>2, SyncReceiptsIs
<1>9. CASE RemoveFile \/ CleanOrphan
  <2>1. \E t \in Temporary : file' = [file EXCEPT ![t] = None]
    BY <1>9, RemovalOrderIs DEF RemoveFile, CleanOrphan
  <2>2. file' \in [Files -> Content]
    BY <2>1, TemporaryAre DEF Content
  <2> QED BY <1>0, <1>9, <2>2 DEF RemoveFile, CleanOrphan, durable, history
<1>10. CASE RemoveJournal
  BY <1>0, <1>10 DEF RemoveJournal, durable, history
<1>11. CASE RemoveSyncRecovered
  <2>1. SyncKeys /\ pc' = "clean" /\ side' = "public" /\ recovering' = FALSE
        /\ UNCHANGED <<file, journal, receipt, request, used, served, acked, faults>>
    BY <1>11, Zenon DEF RemoveSyncRecovered, Goto, disk, history
  <2> QED BY <1>0, <1>1, <2>1, SyncKeysIs DEF Steps
<1>12. ASSUME Settle PROVE served' \in Seq(Entries)
  <2>1. CASE served' = served
    BY <2>1
  <2>2. ASSUME NEW i \in Ids, file[Key("private")] \in Keys,
               served' = Append(served, [id |-> i, key |-> file[Key("private")]])
        PROVE  served' \in Seq(Entries)
    BY <2>2, AppendProperties DEF Entries
  <2> QED BY <1>12, <2>1, <2>2, SettleIs
<1>13. CASE RemoveSyncReturn
  <2>1. /\ SyncKeys /\ Settle /\ pc' = "idle" /\ side' = "public" /\ recovering' = FALSE
        /\ request' = Recover /\ acked' = acked \cup {request} /\ pc = "remove"
        /\ UNCHANGED <<file, journal, receipt, used, faults>>
    BY <1>13, Zenon DEF RemoveSyncReturn, Leave, disk
  <2>2. recovering = FALSE
    BY <1>13, Zenon DEF RemoveSyncReturn
  <2>3. request \in Requests
    BY <2>1, <2>2 DEF ReceiptsAt
  <2> QED BY <1>0, <1>1, <1>12, <2>1, <2>3, SyncKeysIs DEF Steps
<1>14. CASE CleanOrphansSync \/ RecoverReturn
  <2>1. /\ SyncKeys /\ Settle /\ pc' \in {"idle", "check"}
        /\ UNCHANGED <<file, journal, receipt, used, acked, faults>>
    BY <1>14 DEF CleanOrphansSync, RecoverReturn, Goto, Leave, disk
  <2>2. side' \in Sides /\ recovering' \in BOOLEAN /\ request' \in Requests \cup {Recover}
    BY <1>1, <1>14, Zenon DEF CleanOrphansSync, RecoverReturn, Leave
  <2> QED BY <1>0, <1>12, <2>1, <2>2, SyncKeysIs DEF Steps
<1>15. CASE Replay \/ Refuse
  <2>1. pc = "check" /\ request' = Recover /\ side' = "public" /\ pc' = "idle"
        /\ recovering' = FALSE
    BY <1>15, Zenon DEF Replay, Refuse, Leave
  <2>2. acked' \subseteq Requests
    BY <1>15, <2>1 DEF Replay, Refuse, ControlAt, Making, history
  <2>3. UNCHANGED <<file, journal, receipt, fileD, journalD, receiptD, used, served, faults>>
    BY <1>15 DEF Replay, Refuse, disk, durable, history
  <2> QED BY <1>0, <1>1, <2>1, <2>2, <2>3
<1>16. CASE Keygen \/ KeygenPublic
  <2>1. pc' \in Steps
    BY <1>16 DEF Keygen, KeygenPublic, Goto, Steps
  <2>2. file' \in [Files -> Content] /\ used' \subseteq Keys
    BY <1>16, FilesApart DEF Keygen, KeygenPublic, Content, Sides, history
  <2> QED BY <1>0, <1>16, <2>1, <2>2 DEF Keygen, KeygenPublic, durable, history
<1>17. CASE WriteJournal
  <2>1. pc = "stagedsync" /\ pc' \in Steps
    BY <1>17 DEF WriteJournal, Goto, Steps
  <2>2. file[Stage("private")] \in Keys /\ request \in Requests
    BY <2>1 DEF FilesAt, ControlAt, Making
  <2>3. journal' \in Journals
    <3>1. [s \in Sides |-> file[Key(s)]] \in [Sides -> Content]
      BY FilesApart
    <3>2. request.id \in Ids /\ request.force \in BOOLEAN
      BY <2>2 DEF Requests
    <3> QED BY <1>17, <2>2, <3>1, <3>2 DEF WriteJournal, Journals
  <2> QED BY <1>0, <1>17, <2>1, <2>3 DEF WriteJournal, durable, history
<1>18. CASE Writeback
  <2>1. SyncKeys \/ SyncReceipts \/ FlushState
    BY <1>18 DEF Writeback
  <2>2. /\ fileD' \in {file, fileD} /\ journalD' \in {journal, journalD}
        /\ receiptD' \in {receipt, receiptD}
    BY <2>1, SyncKeysIs, SyncReceiptsIs, FlushStateIs
  <2> QED BY <1>0, <1>18, <2>2 DEF Writeback, disk, history
<1>19. CASE Stop \/ PowerLoss
  <2>1. faults' \in 0..MaxFaults
    BY <1>19, Names DEF Stop, PowerLoss, Fault
  <2>2. request' = Recover /\ side' = "public" /\ pc' = "idle" /\ recovering' = FALSE
    BY <1>19, Zenon DEF Stop, PowerLoss, Leave
  <2>3. /\ file' \in {file, fileD} /\ journal' \in {journal, journalD}
        /\ receipt' \in {receipt, Survivors} /\ receiptD' \in {receiptD, Survivors}
        /\ UNCHANGED <<fileD, journalD, used, served, acked>>
    BY <1>19 DEF Stop, PowerLoss, disk, durable, history
  <2> QED BY <1>0, <1>1, <2>1, <2>2, <2>3, SurvivorsAre
<1> QED BY <1>2, <1>3, <1>4, <1>5, <1>6, <1>7, <1>8, <1>9, <1>10, <1>11, <1>13, <1>14, <1>15, <1>16,
           <1>17, <1>18, <1>19 DEF Next, Running
-------------------------------------------------------------------------------
(* Control *)

\* A command that goes on knows whether there is a journal and which.
LEMMA ControlNext ==
  ASSUME Typed, ControlAt, FilesAt, ReceiptsAt, Next PROVE ControlAt'
<1> USE DEF ControlAt, Making, Finishing, Installing
<1>0. /\ side = "public" \/ side = "private"
      /\ recovering = TRUE \/ recovering = FALSE
  BY DEF Typed, Sides
<1>1. ASSUME NEW r \in Requests \cup {Recover}, Start(r) PROVE ControlAt'
  BY <1>1 DEF Start, Goto, disk, durable
<1>2. CASE ReadTransaction
  <2>1. journal # NoJournal => recovering' = TRUE
    BY <1>2, Zenon DEF ReadTransaction
  <2>2. journal = NoJournal => recovering' = FALSE
    BY <1>2, Zenon DEF ReadTransaction
  <2> QED BY <1>2, <2>1, <2>2 DEF ReadTransaction, Goto, disk, durable
<1>3. CASE InstallSkip \/ InstallResume \/ Verify \/ RecordSkip \/ Proceed
  BY <1>0, <1>3 DEF InstallSkip, InstallResume, Verify, RecordSkip, Proceed, Goto,
     AfterInstall, disk, durable
<1>4. CASE InstallBackup \/ InstallPlace \/ Record
  BY <1>0, <1>4 DEF InstallBackup, InstallPlace, Record, Goto, durable
<1>5. CASE InstallBackupSync \/ InstallPlaceSync \/ StageSync \/ JournalSync
  <2>1. SyncKeys /\ UNCHANGED <<journal, request, recovering>>
    BY <1>5 DEF InstallBackupSync, InstallPlaceSync, StageSync, JournalSync, disk
  <2> QED BY <1>0, <1>5, <2>1, SyncKeysIs DEF InstallBackupSync, InstallPlaceSync, StageSync,
     JournalSync, Goto, AfterInstall
<1>6. CASE RecordSync
  BY <1>0, <1>6 DEF RecordSync, Goto, disk
<1>7. CASE RemoveFile \/ CleanOrphan \/ RemoveJournal
  BY <1>0, <1>7 DEF RemoveFile, CleanOrphan, RemoveJournal, durable
<1>8. CASE RemoveSyncRecovered
  <2>1. /\ pc' = "clean" /\ side' = "public" /\ recovering' = FALSE
        /\ journal' = NoJournal
    BY <1>8, Zenon DEF RemoveSyncRecovered, Goto, disk
  <2> QED BY <2>1
<1>9. CASE RemoveSyncReturn \/ RecoverReturn \/ Replay \/ Refuse \/ Stop \/ PowerLoss
  <2>1. pc' = "idle" /\ side' = "public" /\ recovering' = FALSE
    BY <1>9, Zenon DEF RemoveSyncReturn, RecoverReturn, Replay, Refuse, Stop, PowerLoss, Leave
  <2> QED BY <2>1
<1>10. CASE CleanOrphansSync
  <2>1. SyncKeys /\ UNCHANGED <<journal, request, side, recovering>>
        /\ request # Recover /\ pc = "clean" /\ pc' = "check"
    BY <1>10 DEF CleanOrphansSync, Goto, disk
  <2> QED BY <1>0, <2>1, SyncKeysIs DEF Typed
<1>11. CASE Keygen \/ KeygenPublic
  BY <1>0, <1>11 DEF Keygen, KeygenPublic, Goto, durable
<1>12. CASE WriteJournal
  <2>1. pc = "stagedsync" /\ pc' = "journaled"
        /\ UNCHANGED <<journalD, request, side, recovering>>
    BY <1>12 DEF WriteJournal, Goto, durable
  <2>2. journal' = [id |-> request.id, force |-> request.force, new |-> file[Stage("private")],
                    old |-> [s \in Sides |-> file[Key(s)]]]
    BY <1>12 DEF WriteJournal
  <2>3. journal' # NoJournal /\ journal'.id = request.id /\ journal'.force = request.force
    BY <2>1, <2>2, Names DEF NoJournal, Requests
  <2> QED BY <1>0, <2>1, <2>3
<1>13. CASE Writeback
  <2>1. journalD' \in {journal, journalD}
    BY <1>13, SyncKeysIs, SyncReceiptsIs, FlushStateIs DEF Writeback
  <2> QED BY <1>0, <1>13, <2>1 DEF Writeback, disk
<1> QED BY <1>1, <1>2, <1>3, <1>4, <1>5, <1>6, <1>7, <1>8, <1>9, <1>10, <1>11, <1>12, <1>13
        DEF Next, Running

\* What is where while a transaction is prepared, installed and removed
LEMMA FilesNext ==
  ASSUME Typed, ControlAt, FilesAt, Resumable(file, journal), Next PROVE FilesAt'
<1> USE DEF FilesAt, Making, Finishing, Installing
<1>0. (side = "public" \/ side = "private") /\ Sides = {"private", "public"}
  BY DEF Typed, Sides
<1>1. ASSUME NEW r \in Requests \cup {Recover}, Start(r) PROVE FilesAt'
  BY <1>1 DEF Start, Goto
<1>2. CASE ReadTransaction
  BY <1>2 DEF ReadTransaction, Goto, ControlAt
<1>3. CASE InstallSkip \/ InstallResume \/ Verify \/ RecordSkip \/ Proceed
  BY <1>0, <1>3 DEF InstallSkip, InstallResume, Verify, RecordSkip, Proceed, Goto, AfterInstall,
     disk, durable, history, Installed, CanInstall, NoTemporary
<1>4. CASE InstallBackup
  <2>1. file' = [file EXCEPT ![Key(side)] = None, ![Backup(side)] = file[Key(side)]]
    BY <1>4 DEF InstallBackup, Rename
  <2>2. /\ \A s \in Sides : file'[Stage(s)] = file[Stage(s)]
        /\ \A s \in Sides : s # side => file'[Key(s)] = file[Key(s)]
    BY <2>1, FilesApart DEF Typed
  <2> QED BY <1>0, <1>4, <2>2 DEF InstallBackup, Goto, Installed, CanInstall
<1>5. CASE InstallPlace
  <2>1. file' = [file EXCEPT ![Stage(side)] = None, ![Key(side)] = file[Stage(side)]]
    BY <1>5 DEF InstallPlace, Rename
  <2>2. /\ file'[Key(side)] = file[Stage(side)]
        /\ \A s \in Sides : s # side => file'[Key(s)] = file[Key(s)]
    BY <2>1, FilesApart DEF Typed
  <2> QED BY <1>0, <1>5, <2>2 DEF InstallPlace, Goto, Installed
<1>6. CASE Record \/ RecordSync
  BY <1>0, <1>6 DEF Record, RecordSync, Goto, Installed, disk
<1>7. CASE InstallBackupSync \/ InstallPlaceSync \/ StageSync \/ JournalSync
  BY <1>0, <1>7 DEF InstallBackupSync, InstallPlaceSync, StageSync, JournalSync, Goto,
     AfterInstall, Installed, disk, history, ControlAt
<1>8. CASE RemoveFile \/ CleanOrphan
  <2>1. \E t \in Temporary : file' = [file EXCEPT ![t] = None]
    BY <1>8, RemovalOrderIs DEF RemoveFile, CleanOrphan
  <2>2. \A s \in Sides : file'[Key(s)] = file[Key(s)]
    BY <2>1, FilesApart, TemporaryAre DEF Typed
  <2> QED BY <1>0, <1>8, <2>2 DEF RemoveFile, CleanOrphan, Installed
<1>9. CASE RemoveJournal
  BY <1>9 DEF RemoveJournal
<1>10. CASE RemoveSyncRecovered
  BY <1>10 DEF RemoveSyncRecovered, Goto
<1>11. CASE RemoveSyncReturn \/ RecoverReturn \/ Replay \/ Refuse \/ Stop \/ PowerLoss
  <2>1. pc' = "idle"
    BY <1>11 DEF RemoveSyncReturn, RecoverReturn, Replay, Refuse, Stop, PowerLoss, Leave
  <2> QED BY <2>1
<1>12. CASE CleanOrphansSync
  BY <1>12, TemporaryAre DEF CleanOrphansSync, Goto, NoTemporary, disk
<1>13. CASE Keygen
  <2>1. PICK k \in Keys \ used : file' = [file EXCEPT ![Stage("private")] = k]
                                 /\ used' = used \cup {k}
    BY <1>13 DEF Keygen
  <2>2. file'[Stage("private")] = k /\ \A s \in Sides : file'[Backup(s)] = file[Backup(s)]
    BY <1>0, <2>1, FilesApart DEF Typed
  <2> QED BY <1>13, <2>1, <2>2 DEF Keygen, Goto, NoTemporary
<1>14. CASE KeygenPublic
  <2>1. file' = [file EXCEPT ![Stage("public")] = file[Stage("private")]]
    BY <1>14 DEF KeygenPublic
  <2>2. /\ file'[Stage("private")] = file[Stage("private")]
        /\ file'[Stage("public")] = file[Stage("private")]
        /\ \A s \in Sides : file'[Backup(s)] = file[Backup(s)]
    BY <1>0, <2>1, FilesApart DEF Typed
  <2> QED BY <1>14, <2>2 DEF KeygenPublic, Goto, history
<1>15. CASE WriteJournal
  BY <1>15 DEF WriteJournal, Goto
<1>16. CASE Writeback
  BY <1>0, <1>16 DEF Writeback, disk, history, Installed, NoTemporary
<1> QED BY <1>1, <1>2, <1>3, <1>4, <1>5, <1>6, <1>7, <1>8, <1>9, <1>10, <1>11, <1>12, <1>13,
           <1>14, <1>15, <1>16 DEF Next, Running
-------------------------------------------------------------------------------
(* The disk *)

\* Files and journal reach the disk together, and the disk changes only so.
LEMMA DurableSteps ==
  ASSUME Next
  PROVE  /\ \/ UNCHANGED <<fileD, journalD>>
            \/ fileD' = file /\ journalD' = journal /\ UNCHANGED <<file, journal>>
         /\ \/ UNCHANGED receiptD
            \/ receiptD' = receipt /\ UNCHANGED receipt
            \/ PowerLoss /\ receiptD' = Survivors
<1>1. CASE SyncKeys /\ UNCHANGED disk
  BY <1>1, SyncKeysIs DEF disk
<1>2. CASE SyncReceipts /\ UNCHANGED disk
  BY <1>2, SyncReceiptsIs DEF disk
<1>3. CASE FlushState /\ UNCHANGED disk
  BY <1>3, FlushStateIs DEF disk
<1>4. CASE PowerLoss
  BY <1>4 DEF PowerLoss
<1>5. ASSUME ~(SyncKeys /\ UNCHANGED disk), ~(SyncReceipts /\ UNCHANGED disk),
             ~(FlushState /\ UNCHANGED disk), ~PowerLoss
      PROVE  UNCHANGED durable
  BY <1>5 DEF Next, Running, Start, ReadTransaction, InstallSkip, InstallBackup, InstallBackupSync,
     InstallResume, InstallPlace, InstallPlaceSync, Verify, RecordSkip, Record, RecordSync,
     RemoveFile, RemoveJournal, RemoveSyncRecovered, RemoveSyncReturn, CleanOrphan,
     CleanOrphansSync, RecoverReturn, Replay, Refuse, Proceed, Keygen, KeygenPublic, StageSync,
     WriteJournal, JournalSync, Writeback, Stop
<1> QED BY <1>1, <1>2, <1>3, <1>4, <1>5 DEF durable

\* What can happen to the files and the journal, and when
LEMMA VolatileSteps ==
  ASSUME Typed, Next
  PROVE  \/ UNCHANGED <<file, journal>>
         \/ /\ pc \in {"remove", "clean", "keygen", "keygenpub"} /\ UNCHANGED journal
            /\ \A s \in Sides : file'[Key(s)] = file[Key(s)]
         \/ InstallBackup \/ InstallPlace \/ RemoveJournal \/ WriteJournal \/ PowerLoss
<1>1. CASE RemoveFile \/ CleanOrphan
  <2>1. \E t \in Temporary : file' = [file EXCEPT ![t] = None]
    BY <1>1, RemovalOrderIs DEF RemoveFile, CleanOrphan
  <2>2. \A s \in Sides : file'[Key(s)] = file[Key(s)]
    BY <2>1, FilesApart, TemporaryAre DEF Typed
  <2> QED BY <1>1, <2>2 DEF RemoveFile, CleanOrphan
<1>2. CASE Keygen \/ KeygenPublic
  <2>1. \E s \in Sides : \E k : file' = [file EXCEPT ![Stage(s)] = k]
    BY <1>2 DEF Keygen, KeygenPublic, Sides
  <2>2. \A s \in Sides : file'[Key(s)] = file[Key(s)]
    BY <2>1, FilesApart DEF Typed
  <2> QED BY <1>2, <2>2 DEF Keygen, KeygenPublic, Goto
<1>3. ASSUME ~(RemoveFile \/ CleanOrphan \/ Keygen \/ KeygenPublic),
             ~(InstallBackup \/ InstallPlace \/ RemoveJournal \/ WriteJournal \/ PowerLoss)
      PROVE  UNCHANGED <<file, journal>>
  BY <1>3 DEF Next, Running, Start, ReadTransaction, InstallSkip, InstallBackupSync,
     InstallResume, InstallPlaceSync, Verify, RecordSkip, Record, RecordSync,
     RemoveSyncRecovered, RemoveSyncReturn, CleanOrphansSync, RecoverReturn, Replay, Refuse,
     Proceed, StageSync, JournalSync, Writeback, Stop, disk
<1> QED BY <1>1, <1>2, <1>3

\* The journal that is written is the staged key's.
LEMMA WriteJournalIs ==
  ASSUME Typed, ControlAt, FilesAt, WriteJournal
  PROVE  /\ journal' \in Journals /\ journal' # NoJournal
         /\ journal'.new = file[Stage("private")] /\ journal'.new \in Keys
         /\ journal'.id = request.id /\ journal'.id \in Ids
         /\ \A s \in Sides : journal'.old[s] = file[Key(s)]
         /\ \A s \in Sides : file[Stage(s)] = journal'.new /\ file[Backup(s)] = None
         /\ journal = NoJournal /\ journalD = NoJournal
         /\ UNCHANGED <<file, receipt, fileD, journalD, receiptD, used, served, acked>>
<1>1. pc = "stagedsync"
  BY DEF WriteJournal, Goto
<1>2. request \in Requests /\ journal = NoJournal /\ journalD = NoJournal
  BY <1>1 DEF ControlAt, Making
<1>3. request.id \in Ids /\ request.force \in BOOLEAN
  BY <1>2 DEF Requests
<1>4. file[Stage("private")] \in Keys /\ [s \in Sides |-> file[Key(s)]] \in [Sides -> Content]
  BY <1>1, FilesApart DEF FilesAt, Typed
<1>5. journal' = [id |-> request.id, force |-> request.force, new |-> file[Stage("private")],
                  old |-> [s \in Sides |-> file[Key(s)]]]
  BY DEF WriteJournal
<1>6. journal' \in Journals
  BY <1>3, <1>4, <1>5 DEF Journals
<1>7. \A s \in Sides : file[Stage(s)] = file[Stage("private")] /\ file[Backup(s)] = None
  BY <1>1 DEF FilesAt, Sides
<1>8. \A s \in Sides : journal'.old[s] = file[Key(s)]
  BY <1>5
<1>9. UNCHANGED <<file, receipt, fileD, journalD, receiptD, used, served, acked>>
  BY DEF WriteJournal, durable, history
<1> QED BY <1>2, <1>3, <1>4, <1>5, <1>6, <1>7, <1>8, <1>9, Names

\* Whatever is found, now or after a power loss, can be brought to an end.
LEMMA ResumableNext ==
  ASSUME Typed, ControlAt, FilesAt, Resumable(file, journal), Resumable(fileD, journalD), Next
  PROVE  Resumable(file', journal') /\ Resumable(fileD', journalD')
<1>0. "private" \in Sides /\ "public" \in Sides /\ side \in Sides
  BY DEF Sides, Typed
<1>1. Resumable(file', journal')
  <2>1. CASE UNCHANGED <<file, journal>>
    BY <2>1
  <2>2. CASE /\ pc \in {"remove", "clean", "keygen", "keygenpub"} /\ UNCHANGED journal
             /\ \A s \in Sides : file'[Key(s)] = file[Key(s)]
    BY <1>0, <2>2 DEF Resumable, SideOK, ControlAt, FilesAt, Making, Installed
  <2>3. CASE InstallBackup
    <3>1. file' = [file EXCEPT ![Key(side)] = None, ![Backup(side)] = file[Key(side)]]
      BY <2>3 DEF InstallBackup, Rename
    <3>2. /\ file'[Key(side)] = None /\ file'[Backup(side)] = file[Key(side)]
          /\ \A s \in Sides : file'[Stage(s)] = file[Stage(s)]
          /\ \A s \in Sides : s # side => /\ file'[Key(s)] = file[Key(s)]
                                          /\ file'[Backup(s)] = file[Backup(s)]
      BY <1>0, <3>1, FilesApart DEF Typed
    <3>3. journal' = journal /\ journal # NoJournal
          /\ ~Installed(side) /\ CanInstall(side) /\ journal.old[side] # None
          /\ file[Backup(side)] = None
      BY <2>3 DEF InstallBackup, Goto, ControlAt, Finishing, Installing
    <3> QED BY <3>2, <3>3 DEF Resumable, SideOK, Installed, CanInstall
  <2>4. CASE InstallPlace
    <3>1. file' = [file EXCEPT ![Stage(side)] = None, ![Key(side)] = file[Stage(side)]]
      BY <2>4 DEF InstallPlace, Rename
    <3>2. /\ file'[Key(side)] = file[Stage(side)]
          /\ \A s \in Sides : s # side =>
               /\ file'[Key(s)] = file[Key(s)] /\ file'[Stage(s)] = file[Stage(s)]
               /\ file'[Backup(s)] = file[Backup(s)]
      BY <1>0, <3>1, FilesApart DEF Typed
    <3>3. journal' = journal /\ journal # NoJournal /\ file[Stage(side)] = journal.new
      BY <2>4 DEF InstallPlace, Goto, ControlAt, FilesAt, Finishing, Installing
    <3> QED BY <3>2, <3>3 DEF Resumable, SideOK
  <2>5. CASE RemoveJournal
    BY <1>0, <2>5 DEF RemoveJournal, FilesAt, Installed, Resumable
  <2>6. CASE WriteJournal
    BY <2>6, WriteJournalIs DEF Resumable, SideOK
  <2>7. CASE PowerLoss
    BY <2>7 DEF PowerLoss
  <2> QED BY <2>1, <2>2, <2>3, <2>4, <2>5, <2>6, <2>7, VolatileSteps
<1>2. Resumable(fileD', journalD')
  BY DurableSteps
<1> QED BY <1>1, <1>2

-------------------------------------------------------------------------------
(* Receipts *)

\* Receipts change when one is recorded, and when the power fails.
LEMMA ReceiptSteps == ASSUME Next PROVE UNCHANGED receipt \/ PowerLoss \/ Record
<1> QED
  BY DEF Next, Running, Start, ReadTransaction, InstallSkip, InstallBackup, InstallBackupSync,
       InstallResume, InstallPlace, InstallPlaceSync, Verify, RecordSkip, RecordSync,
       RemoveFile, RemoveJournal, RemoveSyncRecovered, RemoveSyncReturn, CleanOrphan,
       CleanOrphansSync, RecoverReturn, Replay, Refuse, Proceed, Keygen, KeygenPublic, StageSync,
       WriteJournal, JournalSync, Writeback, Stop, disk

\* A journal and a receipt for the same operation name the same key, now and
\* after a power loss.
LEMMA ReceiptsNext ==
  ASSUME Typed, ControlAt, FilesAt, ReceiptsAt, Next PROVE ReceiptsAt'
<1>0. /\ recovering = TRUE \/ recovering = FALSE
      /\ Making = {"check", "keygen", "keygenpub", "staged", "stagedsync"}
      /\ "private" \in Sides
  BY DEF Typed, Making, Sides
<1>1. \A i \in Ids : receiptD'[i] = NoReceipt \/ receiptD'[i] = receipt'[i]
  <2>1. CASE UNCHANGED receipt
    <3>1. CASE PowerLoss
      BY <3>1 DEF PowerLoss
    <3> QED BY <2>1, <3>1, DurableSteps DEF ReceiptsAt
  <2>2. CASE PowerLoss
    BY <2>2 DEF PowerLoss
  <2>3. CASE Record
    <3>1. \A i \in Ids : receipt'[i] = receipt[i] \/ receipt[i] = NoReceipt
      BY <2>3 DEF Record, Typed
    <3> QED BY <2>3, <3>1 DEF Record, durable, ReceiptsAt
  <2>4. UNCHANGED receipt \/ PowerLoss \/ Record
    BY ReceiptSteps
  <2> QED BY <2>1, <2>2, <2>3, <2>4
<1>2. ASSUME ~WriteJournal, ~PowerLoss, ~Record, UNCHANGED receipt,
             journal' = journal \/ journal' = NoJournal
      PROVE  /\ \A j \in {journal', journalD'} :
                  j # NoJournal => receipt'[j.id] \in {NoReceipt, ReceiptOf(j)}
             /\ journal' # NoJournal => journalD' \in {NoJournal, journal'}
  BY <1>2, DurableSteps DEF ReceiptsAt
<1>3. /\ \A j \in {journal', journalD'} :
           j # NoJournal => receipt'[j.id] \in {NoReceipt, ReceiptOf(j)}
      /\ journal' # NoJournal => journalD' \in {NoJournal, journal'}
  <2>1. CASE Record
    <3>1. journal \in Journals /\ journal # NoJournal /\ journal.id \in Ids
      BY <2>1 DEF Record, Goto, ControlAt, Finishing, Typed, Journals
    <3>2. /\ receipt' = [receipt EXCEPT ![journal.id] = ReceiptOf(journal)]
          /\ UNCHANGED <<journal, journalD>>
      BY <2>1 DEF Record, ReceiptOf, durable
    <3>3. journalD = NoJournal \/ journalD = journal
      BY <3>1 DEF ReceiptsAt
    <3>4. receipt'[journal.id] = ReceiptOf(journal)
      BY <3>1, <3>2 DEF Typed
    <3> QED BY <3>1, <3>2, <3>3, <3>4
  <2>2. CASE WriteJournal
    <3>1. receipt[request.id] = NoReceipt
      BY <1>0, <2>2 DEF WriteJournal, Goto, ReceiptsAt
    <3> QED BY <2>2, <3>1, WriteJournalIs
  <2>3. CASE PowerLoss
    <3>1. /\ journal' = journalD /\ journalD' = journalD /\ receipt' = Survivors
      BY <2>3 DEF PowerLoss
    <3>2. journalD # NoJournal => journalD.id \in Ids
      BY DEF Typed, Journals
    <3>3. journalD # NoJournal => Survivors[journalD.id] \in {NoReceipt, ReceiptOf(journalD)}
      BY <3>2, SurvivorsAre DEF ReceiptsAt
    <3> QED BY <3>1, <3>3
  <2>4. ASSUME ~Record, ~WriteJournal, ~PowerLoss
        PROVE  UNCHANGED receipt /\ (journal' = journal \/ journal' = NoJournal)
    <3>1. UNCHANGED receipt
      BY <2>4, ReceiptSteps
    <3>2. journal' = journal \/ journal' = NoJournal
      BY <2>4, VolatileSteps DEF InstallBackup, InstallPlace, RemoveJournal
    <3> QED BY <3>1, <3>2
  <2> QED BY <1>2, <2>1, <2>2, <2>3, <2>4
<1> DEFINE Late ==
      /\ pc \in Making \ {"check"} => receipt[request.id] = NoReceipt
      /\ pc = "recorded" => receipt[journal.id] = ReceiptOf(journal)
      /\ pc = "remove" /\ journal # NoJournal => receipt[journal.id] = ReceiptOf(journal)
      /\ pc = "remove" /\ recovering = FALSE =>
           /\ request \in Requests /\ file[Key("private")] \in Keys
           /\ receipt[request.id] = [force |-> request.force, key |-> file[Key("private")]]
<1>4. Late
  BY DEF ReceiptsAt
<1>5. Late'
  <2>1. ASSUME NEW r \in Requests \cup {Recover}, Start(r) PROVE Late'
    BY <1>0, <2>1 DEF Start, Goto
  <2>2. CASE ReadTransaction
    BY <1>0, <2>2 DEF ReadTransaction, Goto
  <2>3. CASE InstallSkip \/ InstallResume \/ InstallBackup \/ InstallPlace \/ InstallBackupSync
             \/ InstallPlaceSync \/ Verify \/ WriteJournal \/ JournalSync
    <3>1. pc' \in {"install", "place", "backedup", "placed", "verify", "record", "journaled"}
      BY <1>0, <2>3 DEF InstallSkip, InstallResume, InstallBackup, InstallPlace,
         InstallBackupSync, InstallPlaceSync, Verify, WriteJournal, JournalSync, Goto, AfterInstall
    <3> QED BY <1>0, <3>1
  <2>4. CASE RecordSkip
    <3>1. /\ pc = "record" /\ pc' = "remove" /\ journal \in Journals /\ journal # NoJournal
          /\ UNCHANGED <<file, journal, receipt, request, recovering>>
          /\ Completed(journal.id, journal.force)
      BY <2>4 DEF RecordSkip, Goto, ControlAt, Finishing, Typed, disk
    <3>2. receipt[journal.id] = ReceiptOf(journal)
      BY <3>1 DEF ReceiptsAt, Completed
    <3>3. file[Key("private")] = journal.new /\ journal.new \in Keys
      BY <1>0, <3>1 DEF FilesAt, Installed, Journals
    <3>4. recovering = FALSE =>
            request \in Requests /\ request.id = journal.id /\ request.force = journal.force
      BY <3>1 DEF ControlAt, Finishing
    <3> QED BY <1>0, <3>1, <3>2, <3>3, <3>4 DEF ReceiptOf
  <2>5. CASE Record
    <3>1. pc' = "recorded" /\ UNCHANGED journal /\ journal \in Journals
          /\ receipt' = [receipt EXCEPT ![journal.id] = ReceiptOf(journal)]
      BY <2>5 DEF Record, Goto, ControlAt, Finishing, Typed, ReceiptOf
    <3>2. receipt'[journal.id] = ReceiptOf(journal)
      BY <3>1 DEF Typed, Journals
    <3> QED BY <1>0, <3>1, <3>2
  <2>6. CASE RecordSync
    <3>1. /\ pc = "recorded" /\ pc' = "remove" /\ journal \in Journals /\ journal # NoJournal
          /\ UNCHANGED <<file, journal, receipt, request, recovering>>
      BY <2>6 DEF RecordSync, Goto, ControlAt, Finishing, Typed, disk
    <3>2. file[Key("private")] = journal.new /\ journal.new \in Keys
      BY <1>0, <3>1 DEF FilesAt, Installed, Journals
    <3>3. recovering = FALSE =>
            request \in Requests /\ request.id = journal.id /\ request.force = journal.force
      BY <3>1 DEF ControlAt, Finishing
    <3> QED BY <1>0, <1>4, <3>1, <3>2, <3>3 DEF ReceiptOf
  <2>7. CASE RemoveFile \/ CleanOrphan \/ RemoveJournal
    <3>1. pc \in {"remove", "clean"} /\ pc' = pc /\ UNCHANGED <<receipt, request, recovering>>
          /\ (journal' = journal \/ journal' = NoJournal)
      BY <2>7 DEF RemoveFile, CleanOrphan, RemoveJournal
    <3>2. file'[Key("private")] = file[Key("private")]
      <4>1. CASE RemoveJournal
        BY <4>1 DEF RemoveJournal
      <4>2. CASE RemoveFile \/ CleanOrphan
        <5>1. \E t \in Temporary : file' = [file EXCEPT ![t] = None]
          BY <4>2, RemovalOrderIs DEF RemoveFile, CleanOrphan
        <5> QED BY <1>0, <5>1, FilesApart, TemporaryAre DEF Typed
      <4> QED BY <2>7, <4>1, <4>2
    <3> QED BY <1>0, <1>4, <3>1, <3>2
  <2>8. CASE RemoveSyncRecovered \/ CleanOrphansSync
    BY <1>0, <2>8 DEF RemoveSyncRecovered, CleanOrphansSync, Goto
  <2>9. CASE RemoveSyncReturn \/ RecoverReturn \/ Replay \/ Refuse \/ Stop \/ PowerLoss
    <3>1. pc' = "idle"
      BY <2>9 DEF RemoveSyncReturn, RecoverReturn, Replay, Refuse, Stop, PowerLoss, Leave
    <3> QED BY <1>0, <3>1
  <2>10. CASE Proceed \/ Keygen \/ KeygenPublic \/ StageSync
    <3>1. pc' \in {"keygen", "keygenpub", "staged", "stagedsync"} /\ UNCHANGED <<receipt, request>>
          /\ (pc \in Making \ {"check"} \/ receipt[request.id] = NoReceipt)
      BY <1>0, <2>10 DEF Proceed, Keygen, KeygenPublic, StageSync, Goto, disk
    <3> QED BY <1>0, <1>4, <3>1
  <2>11. CASE Writeback
    BY <1>4, <2>11 DEF Writeback, disk
  <2> QED BY <2>1, <2>2, <2>3, <2>4, <2>5, <2>6, <2>7, <2>8, <2>9, <2>10, <2>11
          DEF Next, Running
<1> QED BY <1>1, <1>3, <1>5 DEF ReceiptsAt

-------------------------------------------------------------------------------
(* Whose key it is *)

\* A command settles a pair only after it has synced the key directory and
\* without a journal.
LEMMA ServedSteps ==
  ASSUME Typed, ControlAt, Next
  PROVE  \/ UNCHANGED served
         \/ /\ Settle /\ SyncKeys /\ journal = NoJournal /\ pc \in {"remove", "clean"}
            /\ UNCHANGED <<file, journal, receipt, used>> /\ pc' \in {"idle", "check"}
<1>1. CASE RemoveSyncReturn \/ CleanOrphansSync \/ RecoverReturn
  <2>1. pc = "clean" => journal = NoJournal
    BY DEF ControlAt
  <2> QED BY <1>1, <2>1 DEF RemoveSyncReturn, CleanOrphansSync, RecoverReturn, Goto, Leave, disk
<1>2. ASSUME ~(RemoveSyncReturn \/ CleanOrphansSync \/ RecoverReturn) PROVE UNCHANGED served
  BY <1>2 DEF Next, Running, Start, ReadTransaction, InstallSkip, InstallBackup,
     InstallBackupSync, InstallResume, InstallPlace, InstallPlaceSync, Verify, RecordSkip, Record,
     RecordSync, RemoveFile, RemoveJournal, RemoveSyncRecovered, CleanOrphan, Replay, Refuse,
     Proceed, Keygen, KeygenPublic, StageSync, WriteJournal, JournalSync, Writeback, Stop,
     PowerLoss, history
<1> QED BY <1>1, <1>2

\* Only ssh-keygen makes keys.
LEMMA UsedSteps == ASSUME Next PROVE UNCHANGED used \/ Keygen
<1> QED
  BY DEF Next, Running, Start, ReadTransaction, InstallSkip, InstallBackup,
     InstallBackupSync, InstallResume, InstallPlace, InstallPlaceSync, Verify, RecordSkip, Record,
     RecordSync, RemoveFile, RemoveJournal, RemoveSyncRecovered, RemoveSyncReturn, CleanOrphan,
     CleanOrphansSync, RecoverReturn, Replay, Refuse, Proceed, KeygenPublic, StageSync,
     WriteJournal, JournalSync, Writeback, Stop, PowerLoss, history

\* A key gets its operation with the journal, and at no other step.
LEMMA MadeForSteps ==
  ASSUME Typed, ControlAt, FilesAt, ReceiptsAt, Next, NEW i \in Ids, NEW k \in Keys, MadeFor(i, k)'
  PROVE  MadeFor(i, k) \/ (WriteJournal /\ i = request.id /\ k = file[Stage("private")])
<1>1. CASE receipt'[i].key = k
  <2>1. CASE UNCHANGED receipt
    BY <1>1, <2>1 DEF MadeFor
  <2>2. CASE PowerLoss
    <3>1. receiptD[i].key = k
      BY <1>1, <2>2, SurvivorsAre, Names DEF PowerLoss
    <3>2. receiptD[i] = receipt[i]
      BY <3>1, Names DEF ReceiptsAt
    <3> QED BY <3>1, <3>2 DEF MadeFor
  <2>3. CASE Record
    <3>1. journal \in Journals /\ journal # NoJournal
          /\ receipt' = [receipt EXCEPT ![journal.id] = ReceiptOf(journal)]
      BY <2>3 DEF Record, Goto, ControlAt, Finishing, Typed, ReceiptOf
    <3>2. CASE i = journal.id
      <4>1. receipt'[i] = ReceiptOf(journal)
        BY <3>1, <3>2 DEF Typed
      <4>2. journal.new = k
        BY <1>1, <4>1 DEF ReceiptOf
      <4> QED BY <3>1, <3>2, <4>2 DEF MadeFor
    <3>3. CASE i # journal.id
      <4>1. receipt'[i] = receipt[i]
        BY <3>1, <3>3 DEF Typed
      <4> QED BY <1>1, <4>1 DEF MadeFor
    <3> QED BY <3>2, <3>3
  <2> QED BY <2>1, <2>2, <2>3, ReceiptSteps
<1>2. CASE \E n \in DOMAIN served' : served'[n].id = i /\ served'[n].key = k
  <2>1. CASE UNCHANGED served
    BY <1>2, <2>1 DEF MadeFor
  <2>2. ASSUME NEW h \in Ids, file[Key("private")] \in Keys,
               receipt[h].key = file[Key("private")],
               served' = Append(served, [id |-> h, key |-> file[Key("private")]])
        PROVE  MadeFor(i, k)
    <3> DEFINE e == [id |-> h, key |-> file[Key("private")]]
    <3>1. e \in Entries
      BY <2>2 DEF Entries
    <3> HIDE DEF e
    <3>2. PICK n \in DOMAIN served' : served'[n].id = i /\ served'[n].key = k
      BY <1>2
    <3>3. (n \in DOMAIN served /\ served'[n] = served[n]) \/ served'[n] = e
      BY <2>2, <3>1, <3>2, AppendProperties DEF e, Typed
    <3>4. e.id = h /\ e.key = file[Key("private")]
      BY DEF e
    <3> QED BY <2>2, <3>2, <3>3, <3>4 DEF MadeFor
  <2> QED BY <2>1, <2>2, ServedSteps, SettleIs
<1>3. CASE \E j \in {journal', journalD'} : j # NoJournal /\ j.id = i /\ j.new = k
  <2>1. CASE WriteJournal
    BY <1>3, <2>1, WriteJournalIs
  <2>2. CASE ~WriteJournal
    <3>1. journal' \in {journal, journalD, NoJournal}
      BY <2>2, VolatileSteps DEF InstallBackup, InstallPlace, RemoveJournal, PowerLoss
    <3>2. journalD' \in {journal, journalD}
      BY DurableSteps
    <3> QED BY <1>3, <3>1, <3>2 DEF MadeFor
  <2> QED BY <2>1, <2>2
<1> QED BY <1>1, <1>2, <1>3 DEF MadeFor

\* No two operations ever share a key.
LEMMA OwnerNext ==
  ASSUME Typed, ControlAt, FilesAt, ReceiptsAt, OneOwner, Next PROVE OneOwner'
<1>0. used \subseteq used'
  BY UsedSteps DEF Keygen
<1>1. ASSUME NEW i \in Ids, NEW k \in Keys, MadeFor(i, k)'
      PROVE  k \in used' /\ \A h \in Ids : MadeFor(h, k)' => h = i
  <2>1. CASE WriteJournal /\ k = file[Stage("private")]
    <3>1. pc = "stagedsync"
      BY <2>1 DEF WriteJournal, Goto
    <3>2. k \in used /\ \A h \in Ids : ~MadeFor(h, k)
      BY <2>1, <3>1 DEF FilesAt, OneOwner
    <3>3. \A h \in Ids : MadeFor(h, k)' => h = request.id
      BY <3>2, MadeForSteps
    <3> QED BY <1>0, <1>1, <3>2, <3>3
  <2>2. CASE ~(WriteJournal /\ k = file[Stage("private")])
    <3>1. \A h \in Ids : MadeFor(h, k)' => MadeFor(h, k)
      BY <2>2, MadeForSteps
    <3> QED BY <1>0, <1>1, <3>1 DEF OneOwner
  <2> QED BY <2>1, <2>2
<1>2. ASSUME pc' \in {"keygenpub", "staged", "stagedsync"}, NEW i \in Ids,
             MadeFor(i, file[Stage("private")])'
      PROVE  FALSE
  <2>1. CASE Keygen
    <3>1. PICK k \in Keys \ used : file' = [file EXCEPT ![Stage("private")] = k]
      BY <2>1 DEF Keygen
    <3>2. file'[Stage("private")] = k
      BY <3>1, FilesApart DEF Typed, Sides
    <3>3. ~WriteJournal
      BY <2>1 DEF Keygen, WriteJournal, Goto
    <3>4. MadeFor(i, k)'
      BY <1>2, <3>2 DEF MadeFor
    <3>5. MadeFor(i, k)
      BY <3>3, <3>4, MadeForSteps
    <3> QED BY <3>5 DEF OneOwner
  <2>2. CASE KeygenPublic \/ StageSync \/ Writeback
    <3>1. pc \in {"keygenpub", "staged", "stagedsync"}
      BY <1>2, <2>2 DEF KeygenPublic, StageSync, Writeback, Goto
    <3>2. ~WriteJournal
      BY <1>2 DEF WriteJournal, Goto
    <3>3. file'[Stage("private")] = file[Stage("private")]
      <4>1. Stage("private") # Stage("public") /\ Stage("private") \in Files
        BY FilesApart DEF Sides
      <4> QED BY <2>2, <4>1 DEF KeygenPublic, StageSync, Writeback, disk, Typed
    <3>4. file[Stage("private")] \in Keys
      BY <3>1 DEF FilesAt, Typed
    <3>5. MadeFor(i, file[Stage("private")])
      <4>1. PICK k \in Keys : k = file[Stage("private")]
        BY <3>4
      <4>2. MadeFor(i, k)'
        BY <1>2, <3>3, <4>1 DEF MadeFor
      <4> QED BY <3>2, <4>1, <4>2, MadeForSteps
    <3> QED BY <3>1, <3>5 DEF OneOwner
  <2>3. Keygen \/ KeygenPublic \/ StageSync \/ Writeback
    BY <1>2 DEF Next, Running, Start, ReadTransaction, InstallSkip, InstallBackup,
       InstallBackupSync, InstallResume, InstallPlace, InstallPlaceSync, Verify, RecordSkip,
       Record, RecordSync, RemoveFile, RemoveJournal, RemoveSyncRecovered, RemoveSyncReturn,
       CleanOrphan, CleanOrphansSync, RecoverReturn, Replay, Refuse, Proceed, WriteJournal,
       JournalSync, Stop, PowerLoss, Goto, Leave, AfterInstall
  <2> QED BY <2>1, <2>2, <2>3
<1> QED BY <1>1, <1>2 DEF OneOwner

-------------------------------------------------------------------------------
(* The pair in force *)

\* The two files change as one: when the journal is written, or when the power
\* fails, and then to what was last synced.
LEMMA PairSteps ==
  ASSUME Typed, ControlAt, FilesAt, Next
  PROVE  /\ \/ InForce' = InForce
            \/ PowerLoss /\ InForce' = DurablyInForce /\ DurablyInForce' = DurablyInForce
            \/ /\ WriteJournal /\ InForce' = [s \in Sides |-> file[Stage("private")]]
               /\ file[Stage("private")] \in Keys /\ DurablyInForce' = DurablyInForce
         /\ DurablyInForce' = DurablyInForce \/ (DurablyInForce' = InForce /\ InForce' = InForce)
<1>1. CASE UNCHANGED <<file, journal>>
  <2>1. InForce' = InForce
    BY <1>1 DEF InForce, Pair
  <2>2. DurablyInForce' = DurablyInForce \/ DurablyInForce' = InForce
    BY DurableSteps DEF InForce, DurablyInForce, Pair
  <2> QED BY <2>1, <2>2
<1>2. ASSUME ~UNCHANGED <<file, journal>> PROVE DurablyInForce' = DurablyInForce
  BY <1>2, DurableSteps DEF DurablyInForce, Pair
<1>3. CASE /\ pc \in {"remove", "clean", "keygen", "keygenpub"} /\ UNCHANGED journal
           /\ \A s \in Sides : file'[Key(s)] = file[Key(s)]
  <2>1. InForce' = InForce
    BY <1>3 DEF InForce, Pair
  <2> QED BY <1>1, <1>2, <2>1
<1>4. CASE InstallBackup \/ InstallPlace
  <2>1. journal' = journal /\ journal # NoJournal
    BY <1>4 DEF InstallBackup, InstallPlace, Goto, ControlAt, Finishing, Installing
  <2>2. InForce' = InForce
    BY <2>1 DEF InForce, Pair
  <2> QED BY <1>1, <1>2, <2>2
<1>5. CASE RemoveJournal
  <2>1. journal # NoJournal /\ journal' = NoJournal /\ file' = file
        /\ \A s \in Sides : file[Key(s)] = journal.new
    BY <1>5 DEF RemoveJournal, FilesAt, Installed
  <2>2. InForce' = InForce
    BY <2>1 DEF InForce, Pair
  <2> QED BY <1>1, <1>2, <2>2
<1>6. CASE WriteJournal
  <2>1. InForce' = [s \in Sides |-> journal'.new] /\ DurablyInForce' = DurablyInForce
    BY <1>6, WriteJournalIs DEF InForce, DurablyInForce, Pair
  <2> QED BY <1>6, <2>1, WriteJournalIs
<1>7. CASE PowerLoss
  BY <1>7 DEF PowerLoss, InForce, DurablyInForce, Pair, durable
<1> QED BY <1>1, <1>3, <1>4, <1>5, <1>6, <1>7, VolatileSteps

\* The entry of state/operations is there or not.
LEMMA ListedNext == ASSUME listed \in BOOLEAN, Next PROVE listed' \in BOOLEAN
<1>1. ASSUME SyncKeys \/ SyncReceipts \/ FlushState PROVE listed' \in BOOLEAN
  <2>1. listed' = listed \/ listed' = Listing
    BY <1>1, Zenon DEF SyncKeys, SyncReceipts, FlushState, SyncAll
  <2>2. Listing \in BOOLEAN
    BY Zenon DEF Listing
  <2> QED BY <2>1, <2>2, Zenon
<1>2. ASSUME ~SyncKeys, ~SyncReceipts, ~FlushState PROVE listed' = listed
  BY <1>2, Zenon DEF Next, Running, Start, ReadTransaction, InstallSkip, InstallBackup,
     InstallBackupSync, InstallResume, InstallPlace, InstallPlaceSync, Verify, RecordSkip, Record,
     RecordSync, RemoveFile, RemoveJournal, RemoveSyncRecovered, RemoveSyncReturn, CleanOrphan,
     CleanOrphansSync, RecoverReturn, Replay, Refuse, Proceed, Keygen, KeygenPublic, StageSync,
     WriteJournal, JournalSync, Writeback, Stop, PowerLoss, durable
<1> QED BY <1>1, <1>2, Zenon

\* A settled key supersedes only other keys.
LEMMA NewestNext ==
  ASSUME Typed, ControlAt, FilesAt, ReceiptsAt, OneOwner, Resumable(file, journal),
         Newest(InForce), Newest(DurablyInForce), Next
  PROVE  Newest(InForce)' /\ Newest(DurablyInForce)'
<1>0. "private" \in Sides /\ "public" \in Sides
  BY DEF Sides
<1>1. CASE UNCHANGED served
  <2>1. CASE WriteJournal
    <3>1. pc = "stagedsync"
      BY <2>1 DEF WriteJournal, Goto
    <3>2. \A n \in 1..(Len(served) - 1) : served[n].key # file[Stage("private")]
      <4> SUFFICES ASSUME NEW n \in 1..(Len(served) - 1), served[n].key = file[Stage("private")]
                   PROVE  FALSE
        OBVIOUS
      <4>1. n \in DOMAIN served /\ served[n] \in Entries
        BY LenProperties, ElementOfSeq DEF Typed
      <4>2. MadeFor(served[n].id, file[Stage("private")]) /\ served[n].id \in Ids
        BY <4>1 DEF MadeFor, Entries
      <4> QED BY <3>1, <4>2 DEF OneOwner
    <3>3. /\ InForce' = [s \in Sides |-> file[Stage("private")]]
          /\ file[Stage("private")] \in Keys /\ DurablyInForce' = DurablyInForce
      <4>1. InForce' = [s \in Sides |-> journal'.new] /\ DurablyInForce' = DurablyInForce
        BY <2>1, WriteJournalIs DEF InForce, DurablyInForce, Pair
      <4> QED BY <2>1, <4>1, WriteJournalIs
    <3> QED BY <1>0, <1>1, <3>2, <3>3 DEF Newest
  <2>2. CASE ~WriteJournal
    <3>1. InForce' \in {InForce, DurablyInForce} /\ DurablyInForce' \in {InForce, DurablyInForce}
      BY <2>2, PairSteps
    <3> QED BY <1>1, <3>1 DEF Newest
  <2> QED BY <2>1, <2>2
<1>2. ASSUME NEW i \in Ids, file[Key("private")] \in Keys,
             receipt[i].key = file[Key("private")],
             served' = Append(served, [id |-> i, key |-> file[Key("private")]]),
             \A n \in DOMAIN served : ~ /\ served[n].key = file[Key("private")]
                                        /\ receipt[served[n].id].key = file[Key("private")],
             SyncKeys, journal = NoJournal, UNCHANGED <<file, journal>>
      PROVE  Newest(InForce)' /\ Newest(DurablyInForce)'
  <2> DEFINE k == file[Key("private")]
             e == [id |-> i, key |-> k]
  <2>1. InForce' = [s \in Sides |-> file[Key(s)]] /\ DurablyInForce' = [s \in Sides |-> file[Key(s)]]
    BY <1>2, SyncKeysIs DEF InForce, DurablyInForce, Pair
  <2>2. file[Key("public")] = k
    BY <1>2 DEF Resumable
  <2>3. ASSUME NEW n \in DOMAIN served PROVE served[n].key # k
    <3> SUFFICES ASSUME served[n].key = k PROVE FALSE
      OBVIOUS
    <3>0. served[n] \in Entries
      BY ElementOfSeq, LenProperties DEF Typed
    <3>1. served[n].id \in Ids
      BY <3>0 DEF Entries
    <3>2. MadeFor(served[n].id, k) /\ MadeFor(i, k)
      BY <1>2 DEF MadeFor
    <3>3. served[n].id = i
      BY <1>2, <3>1, <3>2 DEF OneOwner
    <3> QED BY <1>2, <3>3
  <2>4. ASSUME NEW n \in 1..(Len(served') - 1) PROVE served'[n].key # k
    <3>1. e \in Entries
      BY <1>2 DEF Entries
    <3>2. n \in 1..Len(served) /\ served'[n] = served[n] /\ DOMAIN served = 1..Len(served)
      BY <1>2, <3>1, AppendProperties, LenProperties DEF Typed
    <3> QED BY <2>3, <3>2
  <2> QED BY <1>0, <1>2, <2>1, <2>2, <2>4 DEF Newest
<1> QED BY <1>1, <1>2, ServedSteps, SettleIs

-------------------------------------------------------------------------------
(* Results for every filesystem *)

\* Every step of a command, every writeback and every fault keeps the invariant.
THEOREM Inductive == Spec => []SshInv
<1>1. Init => SshInv
  <2> SUFFICES ASSUME Init PROVE SshInv
    OBVIOUS
  <2>1. Typed
    <3>1. file \in [Files -> Content]
      BY DEF Init, Content
    <3>2. served \in Seq(Entries) /\ 0 \in 0..MaxFaults
      BY EmptySeq, Names DEF Init
    <3>3. pc \in Steps /\ side \in Sides
      BY DEF Init, Steps, Sides
    <3>4. recovering \in BOOLEAN
      BY Zenon DEF Init
    <3> QED BY <3>1, <3>2, <3>3, <3>4 DEF Init, Typed
  <2>2. ControlAt
    <3>1. recovering = FALSE
      BY Zenon DEF Init
    <3> QED BY <3>1 DEF Init, ControlAt, Making, Finishing, Installing
  <2>3. FilesAt
    BY DEF Init, FilesAt, Installing
  <2>4. ReceiptsAt
    BY DEF Init, ReceiptsAt, Making
  <2>5. \A i \in Ids : \A k \in Keys : ~MadeFor(i, k)
    BY Names DEF Init, MadeFor
  <2>6. OneOwner
    BY <2>5 DEF Init, OneOwner
  <2>7. Resumable(file, journal) /\ Resumable(fileD, journalD)
    <3>1. Key("private") \in Files
      BY FilesApart DEF Sides
    <3> QED BY <3>1, Names DEF Init, Resumable
  <2>8. Newest(InForce) /\ Newest(DurablyInForce)
    BY DEF Init, Newest
  <2>9. listed \in BOOLEAN
    <3>1. fs.operations \in BOOLEAN
      BY SshAssumption DEF Init
    <3> QED BY <3>1 DEF Init
  <2> QED BY <2>1, <2>2, <2>3, <2>4, <2>6, <2>7, <2>8, <2>9 DEF SshInv
<1>2. SshInv /\ Next => SshInv'
  BY TypedNext, ControlNext, FilesNext, ReceiptsNext, OwnerNext, ResumableNext, NewestNext,
     ListedNext DEF SshInv
<1>3. SshInv /\ UNCHANGED vars => SshInv'
  BY DEF vars, SshInv, Typed, ControlAt, FilesAt, ReceiptsAt, OneOwner, MadeFor, Newest, InForce,
     DurablyInForce, Installed
<1> QED BY <1>1, <1>2, <1>3, PTL DEF Spec

\* The variables hold what the code can put there.
THEOREM TypeCorrect == Spec => []TypeOK
<1>1. SshInv => TypeOK
  <2> SUFFICES ASSUME Typed, listed \in BOOLEAN PROVE TypeOK
    BY DEF SshInv
  <2>1. \A j \in {journal, journalD} :
          j = NoJournal \/ /\ j.id \in Ids /\ j.force \in BOOLEAN /\ j.new \in Keys
                           /\ j.old \in [Sides -> Content]
    BY DEF Typed, Journals
  <2>2. \A i \in Ids : \A r \in {receipt[i], receiptD[i]} : r = NoReceipt \/ r \in Receipts
    BY DEF Typed
  <2> QED BY <2>1, <2>2 DEF Typed, TypeOK, Content, Receipts, Entries
<1> QED BY <1>1, Inductive, PTL

\* However an earlier attempt ended, on any filesystem, recovery meets none of
\* the states in which it would have to give up.
THEOREM AlwaysResumable == Spec => []NeverStuck
<1>1. SshInv => NeverStuck
  <2> SUFFICES ASSUME SshInv PROVE ~Stuck
    BY DEF NeverStuck
  <2>1. ~(pc = "install" /\ ~CanInstall(side))
    BY DEF SshInv, ControlAt, Finishing, Installing, Resumable, SideOK, CanInstall, Installed, Typed
  <2>2. ~(pc = "verify" /\ \E s \in Sides : ~Installed(s))
    BY DEF SshInv, FilesAt
  <2>3. ~(pc = "record" /\ Conflicts(journal.id, journal.force))
    <3> SUFFICES ASSUME pc = "record" PROVE ~Conflicts(journal.id, journal.force)
      OBVIOUS
    <3>1. journal # NoJournal /\ \A s \in Sides : file[Key(s)] = journal.new
      BY DEF SshInv, ControlAt, Finishing, FilesAt, Installed
    <3>2. receipt[journal.id] \in {NoReceipt, ReceiptOf(journal)}
      BY <3>1 DEF SshInv, ReceiptsAt
    <3> QED BY <3>1, <3>2 DEF Conflicts, ReceiptOf
  <2> QED BY <2>1, <2>2, <2>3 DEF Stuck
<1> QED BY <1>1, Inductive, PTL

\* No crash brings a superseded key back, or loses a half of the pair.
THEOREM KeysOnlyAdvance == Spec => []NoRollback
<1>1. SshInv => NoRollback
  <2> SUFFICES ASSUME SshInv, served # <<>>, NEW p \in {InForce, DurablyInForce}, NEW s \in Sides
               PROVE  p[s] \notin Older
    BY DEF NoRollback
  <2>1. Newest(p)
    BY DEF SshInv
  <2>2. p[s] \in Keys /\ \A n \in 1..(Len(served) - 1) : served[n].key # p[s]
    BY <2>1 DEF Newest, Sides
  <2> QED BY <2>2, Names DEF Older
<1> QED BY <1>1, Inductive, PTL

\* Replacing the SSH identity implements the atomic pair, on any filesystem and
\* through any fault.
THEOREM Refinement == Spec => ImplementsAtomicKeyPair
<1>1. Init => KeyPair!Init
  BY DEF Init, KeyPair!Init, InForce, DurablyInForce
<1>2. SshInv /\ [Next]_vars => [KeyPair!Next]_(KeyPair!vars)
  <2> SUFFICES ASSUME SshInv, [Next]_vars
               PROVE  KeyPair!Next \/ UNCHANGED KeyPair!vars
    OBVIOUS
  <2>1. CASE UNCHANGED vars
    BY <2>1 DEF vars, KeyPair!vars, InForce, DurablyInForce
  <2>2. CASE Next
    <3>1. /\ \/ InForce' = InForce
             \/ PowerLoss /\ InForce' = DurablyInForce /\ DurablyInForce' = DurablyInForce
             \/ /\ WriteJournal /\ InForce' = [s \in Sides |-> file[Stage("private")]]
                /\ file[Stage("private")] \in Keys /\ DurablyInForce' = DurablyInForce
          /\ DurablyInForce' = DurablyInForce \/ (DurablyInForce' = InForce /\ InForce' = InForce)
      BY <2>2, PairSteps DEF SshInv
    <3>2. CASE InForce' = InForce
      BY <3>1, <3>2 DEF KeyPair!Next, KeyPair!Stabilise, KeyPair!vars
    <3>3. CASE InForce' = DurablyInForce /\ DurablyInForce' = DurablyInForce
      BY <3>3 DEF KeyPair!Next, KeyPair!PowerLoss
    <3>4. CASE /\ InForce' = [s \in Sides |-> file[Stage("private")]]
               /\ file[Stage("private")] \in Keys /\ DurablyInForce' = DurablyInForce
      <4>1. \A k : [s \in Sides |-> k] = [private |-> k, public |-> k]
        BY DEF Sides
      <4>2. KeyPair!Replace
        BY <3>4, <4>1 DEF KeyPair!Replace
      <4> QED BY <4>2 DEF KeyPair!Next
    <3> QED BY <3>1, <3>2, <3>3, <3>4
  <2> QED BY <2>1, <2>2
<1> QED BY <1>1, <1>2, Inductive, PTL DEF Spec, ImplementsAtomicKeyPair, KeyPair!Spec

-------------------------------------------------------------------------------
(* Results where receipts survive *)

\* The history grows at its end.
LEMMA ServedGrows ==
  ASSUME Typed, ControlAt, Next
  PROVE  \A n \in DOMAIN served : n \in DOMAIN served' /\ served'[n] = served[n]
<1>1. CASE UNCHANGED served
  BY <1>1
<1>2. ASSUME NEW e \in Entries, served' = Append(served, e)
      PROVE  \A n \in DOMAIN served : n \in DOMAIN served' /\ served'[n] = served[n]
  <2>1. /\ DOMAIN served = 1..Len(served) /\ Len(served) \in Nat
        /\ served' \in Seq(Entries) /\ Len(served') = Len(served) + 1
        /\ \A n \in 1..Len(served) : served'[n] = served[n]
    BY <1>2, AppendProperties, LenProperties DEF Typed
  <2>2. DOMAIN served' = 1..Len(served')
    BY <2>1, LenProperties
  <2> QED BY <2>1, <2>2
<1>3. ASSUME NEW i \in Ids, file[Key("private")] \in Keys
      PROVE  [id |-> i, key |-> file[Key("private")]] \in Entries
  BY <1>3 DEF Entries
<1> QED BY <1>1, <1>2, <1>3, ServedSteps, SettleIs

\* An entry of the history
LEMMA EntryIs == ASSUME Typed, NEW n \in DOMAIN served
                 PROVE  served[n].id \in Ids /\ served[n].key \in Keys
<1>1. served[n] \in Entries
  BY ElementOfSeq, LenProperties DEF Typed
<1> QED BY <1>1 DEF Entries

\* After Settle the history has whoever the key in place was made for.
LEMMA SettleDoes ==
  ASSUME Typed, OneOwner, Settle, NEW i \in Ids, file[Key("private")] \in Keys,
         receipt[i].key = file[Key("private")]
  PROVE  \E n \in DOMAIN served' : served'[n].id = i /\ served'[n].key = file[Key("private")]
<1> DEFINE S == {[id |-> h, key |-> file[Key("private")]] :
                   h \in {j \in Ids : receipt[j].key = file[Key("private")]}}
<1>1. [id |-> i, key |-> file[Key("private")]] \in S
  OBVIOUS
<1>2. ASSUME NEW e \in S PROVE e.id = i /\ e.key = file[Key("private")]
  <2>1. PICK h \in Ids : receipt[h].key = file[Key("private")]
                         /\ e = [id |-> h, key |-> file[Key("private")]]
    OBVIOUS
  <2>2. e.id = h /\ e.key = file[Key("private")]
    BY <2>1
  <2>3. MadeFor(h, file[Key("private")]) /\ MadeFor(i, file[Key("private")])
    BY <2>1 DEF MadeFor
  <2>4. h = i
    BY <2>1, <2>3 DEF OneOwner
  <2> QED BY <2>2, <2>4
<1>3. served' = IF file[Key("private")] \in Keys /\ S # {}
                   /\ ~\E n \in DOMAIN served : served[n] \in S
                THEN Append(served, CHOOSE e \in S : TRUE) ELSE served
  BY DEF Settle
<1>4. S \subseteq Entries
  BY DEF Entries
<1> HIDE DEF S
<1>5. CASE \E n \in DOMAIN served : served[n] \in S
  BY <1>2, <1>3, <1>5
<1>6. CASE ~\E n \in DOMAIN served : served[n] \in S
  <2>1. PICK e \in S : served' = Append(served, e)
    BY <1>1, <1>3, <1>6
  <2>2. e \in Entries
    BY <1>4
  <2>3. Len(served) \in Nat /\ served' \in Seq(Entries) /\ Len(served') = Len(served) + 1
        /\ served'[Len(served) + 1] = e
    BY <2>1, <2>2, AppendProperties, LenProperties DEF Typed
  <2>4. Len(served) + 1 \in DOMAIN served'
    BY <2>3, LenProperties
  <2> QED BY <1>2, <2>3, <2>4
<1> QED BY <1>5, <1>6

\* An entry in state/ stays.
LEMMA ListedSteps ==
  ASSUME Next
  PROVE  \/ UNCHANGED listed /\ UNCHANGED receiptD
         \/ UNCHANGED listed /\ (~fs.ordered \/ PowerLoss)
         \/ listed' = Listing /\ (receiptD' = receipt \/ UNCHANGED receiptD)
<1>1. ASSUME SyncKeys \/ SyncReceipts \/ FlushState
      PROVE  \/ UNCHANGED listed /\ ~fs.ordered
             \/ listed' = Listing /\ (receiptD' = receipt \/ UNCHANGED receiptD)
  BY <1>1, Zenon DEF SyncKeys, SyncReceipts, FlushState, SyncAll
<1>2. CASE PowerLoss
  BY <1>2, Zenon DEF PowerLoss
<1>3. ASSUME ~SyncKeys, ~SyncReceipts, ~FlushState, ~PowerLoss PROVE UNCHANGED durable
  BY <1>3, Zenon DEF Next, Running, Start, ReadTransaction, InstallSkip, InstallBackup,
     InstallBackupSync, InstallResume, InstallPlace, InstallPlaceSync, Verify, RecordSkip, Record,
     RecordSync, RemoveFile, RemoveJournal, RemoveSyncRecovered, RemoveSyncReturn, CleanOrphan,
     CleanOrphansSync, RecoverReturn, Replay, Refuse, Proceed, Keygen, KeygenPublic, StageSync,
     WriteJournal, JournalSync, Writeback, Stop
<1> QED BY <1>1, <1>2, <1>3, Zenon DEF durable

\* Where receipts survive, the directory of those on the disk is listed there.
LEMMA ListedKept ==
  ASSUME Typed, SurviveInv, Next
  PROVE  /\ ~fs.ordered => listed'
         /\ \A i \in Ids : receiptD'[i] # NoReceipt => listed'
<1>1. ASSUME listed PROVE listed'
  BY <1>1, ListedSteps, Zenon DEF Listing
<1>2. ~fs.ordered => listed
  BY DEF SurviveInv
<1>3. ASSUME NEW i \in Ids, receiptD'[i] # NoReceipt PROVE listed'
  <2>1. receiptD[i] # NoReceipt => listed
    BY DEF SurviveInv
  <2>2. CASE receiptD' = receiptD
    BY <1>1, <1>3, <2>1, <2>2
  <2>3. CASE ~fs.ordered
    BY <1>1, <1>2, <2>3
  <2>4. CASE PowerLoss
    <3>1. receiptD[i] # NoReceipt
      BY <1>3, <2>4, SurvivorsAre DEF PowerLoss
    <3> QED BY <1>1, <2>1, <3>1
  <2>5. CASE listed' = Listing /\ receiptD' = receipt
    <3>1. receipt # NoReceipts
      BY <1>3, <2>5 DEF NoReceipts
    <3> QED BY <2>5, <3>1, Zenon DEF Listing
  <2> QED BY <2>2, <2>3, <2>4, <2>5, ListedSteps
<1> QED BY <1>1, <1>2, <1>3

\* Where receipts survive, a receipt that is not on the disk has just been written.
LEMMA ReceiptsDurable ==
  ASSUME SshInv, fs \in Filesystems, KeepsReceipts(fs), SurviveInv, Next
  PROVE  ~fs.ordered /\ pc' # "recorded" => receiptD' = receipt'
<1> SUFFICES ASSUME ~fs.ordered, pc' # "recorded" PROVE receiptD' = receipt'
  OBVIOUS
<1>1. ~Stop
  BY DEF KeepsReceipts, Stop, Fault
<1>2. CASE PowerLoss
  BY <1>2 DEF PowerLoss
<1>3. CASE Record
  BY <1>3 DEF Record, Goto
<1>4. CASE UNCHANGED receipt /\ pc # "recorded"
  BY <1>2, <1>4, DurableSteps DEF SurviveInv
<1>5. CASE UNCHANGED receipt /\ pc = "recorded"
  <2>1. RecordSync \/ PowerLoss
    BY <1>1, <1>5 DEF Next, Running, Start, ReadTransaction, InstallSkip, InstallBackup,
       InstallBackupSync, InstallResume, InstallPlace, InstallPlaceSync, Verify, RecordSkip,
       Record, RemoveFile, RemoveJournal, RemoveSyncRecovered, RemoveSyncReturn, CleanOrphan,
       CleanOrphansSync, RecoverReturn, Replay, Refuse, Proceed, Keygen, KeygenPublic, StageSync,
       WriteJournal, JournalSync, Writeback, Goto
  <2> QED BY <1>2, <1>5, <2>1, SyncReceiptsIs DEF RecordSync
<1> QED BY <1>2, <1>3, <1>4, <1>5, ReceiptSteps

\* What is on the disk stays.
LEMMA DurableReceiptsStay ==
  ASSUME Typed, ReceiptsAt, SurviveInv, Next, NEW i \in Ids, receiptD[i] # NoReceipt
  PROVE  receiptD'[i] = receiptD[i]
<1>1. Survivors = receiptD
  BY SurvivorsAre DEF SurviveInv
<1> QED BY <1>1, DurableSteps DEF ReceiptsAt

\* The other parts of SurviveInv are kept too.
LEMMA SurviveNext ==
  ASSUME SshInv, KeepsReceipts(fs), SurviveInv, Next
  PROVE  SurviveInv'
<1>0. Typed /\ ControlAt /\ FilesAt /\ ReceiptsAt /\ OneOwner /\ Resumable(file, journal)
  BY DEF SshInv
<1>1. fs' = fs /\ fs \in Filesystems
  BY <1>0 DEF Next, Typed
<1>2. ~fs'.ordered /\ pc' # "recorded" => receiptD' = receipt'
  BY <1>1, ReceiptsDurable
<1>3. ASSUME NEW n \in DOMAIN served
      PROVE  /\ receiptD'[served[n].id].key = served[n].key
             /\ receiptD[served[n].id] = receipt[served[n].id]
  <2>1. receiptD[served[n].id].key = served[n].key
    BY DEF SurviveInv
  <2>2. receiptD[served[n].id] # NoReceipt /\ served[n].id \in Ids
    BY <1>0, <2>1, EntryIs, Names
  <2> QED BY <1>0, <2>1, <2>2, DurableReceiptsStay DEF ReceiptsAt
<1>4. ASSUME SyncKeys, pc # "recorded", UNCHANGED receipt PROVE receiptD' = receipt
  <2>1. CASE fs.ordered
    BY <1>4, <2>1, SyncKeysIs
  <2>2. CASE ~fs.ordered
    BY <1>4, <2>2, SyncKeysIs DEF SurviveInv
  <2> QED BY <2>1, <2>2
<1>5. /\ \A n \in DOMAIN served' : receiptD'[served'[n].id].key = served'[n].key
      /\ AtMostOneKey'
  <2>1. CASE UNCHANGED served
    BY <1>3, <2>1 DEF SurviveInv, AtMostOneKey
  <2>2. ASSUME NEW i \in Ids, file[Key("private")] \in Keys,
               receipt[i].key = file[Key("private")],
               served' = Append(served, [id |-> i, key |-> file[Key("private")]]),
               \A n \in DOMAIN served : ~ /\ served[n].key = file[Key("private")]
                                          /\ receipt[served[n].id].key = file[Key("private")],
               SyncKeys, pc \in {"remove", "clean"}, UNCHANGED receipt
        PROVE  /\ \A n \in DOMAIN served' : receiptD'[served'[n].id].key = served'[n].key
               /\ AtMostOneKey'
    <3> DEFINE e == [id |-> i, key |-> file[Key("private")]]
               l == Len(served) + 1
    <3>1. e \in Entries /\ e.id = i /\ e.key = file[Key("private")]
      BY <2>2 DEF Entries
    <3>2. served' = Append(served, e)
      BY <2>2
    <3> HIDE DEF e
    <3>3. /\ Len(served) \in Nat /\ DOMAIN served = 1..Len(served)
          /\ served' \in Seq(Entries) /\ Len(served') = l /\ served'[l] = e
          /\ \A n \in 1..Len(served) : served'[n] = served[n]
      BY <1>0, <3>1, <3>2, AppendProperties, LenProperties DEF Typed
    <3>4. DOMAIN served' = 1..l
      BY <3>3, LenProperties
    <3>5. \A n \in DOMAIN served' : n \in DOMAIN served \/ n = l
      BY <3>3, <3>4
    <3>6. receiptD'[i].key = file[Key("private")]
      BY <1>4, <2>2
    <3>7. ASSUME NEW n \in DOMAIN served PROVE served[n].id # i
      <4> SUFFICES ASSUME served[n].id = i PROVE FALSE
        OBVIOUS
      <4>1. receipt[i].key = served[n].key
        BY <1>3 DEF SurviveInv
      <4> QED BY <2>2, <4>1
    <3>8. \A n \in DOMAIN served' : receiptD'[served'[n].id].key = served'[n].key
      BY <1>3, <3>1, <3>3, <3>5, <3>6
    <3>9. AtMostOneKey'
      <4> SUFFICES ASSUME NEW m \in DOMAIN served', NEW n \in DOMAIN served',
                          served'[m].id = served'[n].id
                   PROVE  m = n
        BY DEF AtMostOneKey
      <4>1. CASE m \in DOMAIN served /\ n \in DOMAIN served
        BY <3>3, <4>1 DEF SurviveInv, AtMostOneKey
      <4>2. CASE m \in DOMAIN served /\ n = l
        BY <3>1, <3>3, <3>7, <4>2
      <4>3. CASE n \in DOMAIN served /\ m = l
        BY <3>1, <3>3, <3>7, <4>3
      <4> QED BY <3>5, <4>1, <4>2, <4>3
    <3> QED BY <3>8, <3>9
  <2> QED BY <1>0, <2>1, <2>2, ServedSteps, SettleIs
<1>6. pc' = "check" => Settled'
  <2> SUFFICES ASSUME pc' = "check" PROVE Settled'
    OBVIOUS
  <2>1. CASE CleanOrphansSync
    <3>1. Settle /\ UNCHANGED <<file, receipt>>
      BY <2>1 DEF CleanOrphansSync, disk
    <3> QED BY <1>0, <3>1, SettleDoes DEF Settled
  <2>2. CASE Writeback
    BY <2>2 DEF Writeback, disk, history, SurviveInv, Settled
  <2>3. CleanOrphansSync \/ Writeback
    BY DEF Next, Running, Start, ReadTransaction, InstallSkip, InstallBackup,
       InstallBackupSync, InstallResume, InstallPlace, InstallPlaceSync, Verify, RecordSkip,
       Record, RecordSync, RemoveFile, RemoveJournal, RemoveSyncRecovered, RemoveSyncReturn,
       CleanOrphan, RecoverReturn, Replay, Refuse, Proceed, Keygen, KeygenPublic, StageSync,
       WriteJournal, JournalSync, Stop, PowerLoss, Goto, Leave, AfterInstall
  <2> QED BY <2>1, <2>2, <2>3
<1>7. AckedOnDisk'
  <2>1. ASSUME NEW o \in acked
        PROVE  \E n \in DOMAIN served' :
                 /\ served'[n].id = o.id
                 /\ receiptD'[o.id] = [force |-> o.force, key |-> served'[n].key]
    <3>1. PICK n \in DOMAIN served :
            /\ served[n].id = o.id
            /\ receiptD[o.id] = [force |-> o.force, key |-> served[n].key]
      BY DEF SurviveInv, AckedOnDisk
    <3>2. receiptD'[o.id] = receiptD[o.id]
      <4>1. receiptD[served[n].id].key = served[n].key /\ served[n].key \in Keys
            /\ served[n].id \in Ids
        BY <1>0, EntryIs DEF SurviveInv
      <4>2. receiptD[o.id] # NoReceipt /\ o.id \in Ids
        BY <3>1, <4>1, Names
      <4> QED BY <1>0, <4>2, DurableReceiptsStay
    <3> QED BY <1>0, <3>1, <3>2, ServedGrows
  <2>2. CASE RemoveSyncReturn
    <3>1. /\ Settle /\ SyncKeys /\ pc = "remove" /\ UNCHANGED receipt
          /\ acked' = acked \cup {request}
      BY <2>2 DEF RemoveSyncReturn, disk
    <3>2. recovering = FALSE
      BY <1>0, <2>2, Zenon DEF RemoveSyncReturn, Typed
    <3>3. /\ request \in Requests /\ file[Key("private")] \in Keys
          /\ receipt[request.id] = [force |-> request.force, key |-> file[Key("private")]]
      BY <1>0, <3>1, <3>2 DEF ReceiptsAt
    <3>4. request.id \in Ids /\ receipt[request.id].key = file[Key("private")]
      BY <3>3 DEF Requests
    <3>5. \E n \in DOMAIN served' : served'[n].id = request.id
                                    /\ served'[n].key = file[Key("private")]
      BY <1>0, <3>1, <3>3, <3>4, SettleDoes
    <3>6. receiptD'[request.id] = receipt[request.id]
      BY <1>4, <3>1
    <3> QED BY <2>1, <3>1, <3>3, <3>5, <3>6 DEF AckedOnDisk
  <2>3. CASE Replay
    <3>1. /\ pc = "check" /\ acked' = acked \cup {request} /\ UNCHANGED <<served, receiptD>>
          /\ Completed(request.id, request.force)
      BY <2>3 DEF Replay, durable
    <3>2. request \in Requests
      BY <1>0, <3>1 DEF ControlAt, Making
    <3>3. /\ receipt[request.id] # NoReceipt /\ receipt[request.id].force = request.force
          /\ file[Key("private")] = receipt[request.id].key /\ request.id \in Ids
      BY <3>1, <3>2 DEF Completed, Conflicts, Requests, Sides
    <3>4. receipt[request.id] \in Receipts
      BY <1>0, <3>3 DEF Typed
    <3>5. /\ receipt[request.id].key \in Keys
          /\ receipt[request.id] = [force |-> request.force, key |-> receipt[request.id].key]
      BY <3>3, <3>4 DEF Receipts
    <3>6. PICK n \in DOMAIN served : served[n].id = request.id
                                     /\ served[n].key = receipt[request.id].key
      BY <3>1, <3>3, <3>5 DEF SurviveInv, Settled
    <3>7. receiptD[request.id] = receipt[request.id]
      BY <1>3, <3>6
    <3>8. served'[n].id = request.id
          /\ receiptD'[request.id] = [force |-> request.force, key |-> served'[n].key]
      BY <3>1, <3>5, <3>6, <3>7
    <3> QED BY <2>1, <3>1, <3>8 DEF AckedOnDisk
  <2>4. CASE UNCHANGED acked
    BY <2>1, <2>4 DEF AckedOnDisk
  <2>5. RemoveSyncReturn \/ Replay \/ UNCHANGED acked
    BY DEF Next, Running, Start, ReadTransaction, InstallSkip, InstallBackup,
       InstallBackupSync, InstallResume, InstallPlace, InstallPlaceSync, Verify, RecordSkip,
       Record, RecordSync, RemoveFile, RemoveJournal, RemoveSyncRecovered, CleanOrphan,
       CleanOrphansSync, RecoverReturn, Refuse, Proceed, Keygen, KeygenPublic, StageSync,
       WriteJournal, JournalSync, Writeback, Stop, PowerLoss, history
  <2> QED BY <2>2, <2>3, <2>4, <2>5
<1>8. /\ ~fs'.ordered => listed'
      /\ \A i \in Ids : receiptD'[i] # NoReceipt => listed'
  BY <1>0, <1>1, ListedKept
<1> QED BY <1>2, <1>5, <1>6, <1>7, <1>8 DEF SurviveInv

\* On a filesystem that keeps the order of the directories, or without kills once
\* state/operations is on the disk, the receipts of settled keys are durable.
THEOREM Surviving ==
  ASSUME \A f \in Filesystems : KeepsReceipts(f)
  PROVE  Spec => []SurviveInv
<1>1. Init => SurviveInv
  BY DEF Init, KeepsReceipts, SurviveInv, AtMostOneKey, AckedOnDisk
<1>2. SshInv /\ SurviveInv /\ [Next]_vars => SurviveInv'
  <2> SUFFICES ASSUME SshInv, SurviveInv, [Next]_vars PROVE SurviveInv'
    OBVIOUS
  <2>1. CASE Next
    <3>1. KeepsReceipts(fs)
      BY DEF SshInv, Typed
    <3> QED BY <2>1, <3>1, SurviveNext
  <2>2. CASE UNCHANGED vars
    BY <2>2 DEF vars, SurviveInv, Settled, AtMostOneKey, AckedOnDisk
  <2> QED BY <2>1, <2>2
<1> QED BY <1>1, <1>2, Inductive, PTL DEF Spec

\* An operation ID yields at most one key, however often it is retried, on every
\* filesystem that keeps the order of the directories, and through power losses
\* on every other once state/operations has reached the disk.
THEOREM OneKeyPerOperation ==
  ASSUME \A f \in Filesystems : KeepsReceipts(f)
  PROVE  Spec => []AtMostOneKey
<1>1. SurviveInv => AtMostOneKey
  BY DEF SurviveInv
<1> QED BY <1>1, Surviving, PTL

\* Success is reported only for what no power loss takes back, under the same
\* conditions.
THEOREM AcknowledgedSurvive ==
  ASSUME \A f \in Filesystems : KeepsReceipts(f)
  PROVE  Spec => []AckedSurvive
<1>1. SshInv /\ SurviveInv => AckedSurvive
  <2> SUFFICES ASSUME SshInv, SurviveInv, NEW o \in acked
               PROVE  \E n \in DOMAIN served :
                        /\ served[n].id = o.id
                        /\ Survivors[o.id] = [force |-> o.force, key |-> served[n].key]
    BY DEF AckedSurvive
  <2>1. PICK n \in DOMAIN served :
          /\ served[n].id = o.id
          /\ receiptD[o.id] = [force |-> o.force, key |-> served[n].key]
    BY DEF SurviveInv, AckedOnDisk
  <2>2. Typed /\ served[n].id \in Ids /\ served[n].key \in Keys
    BY EntryIs DEF SshInv
  <2>3. receiptD[o.id] # NoReceipt
    BY <2>1, <2>2, Names
  <2>4. listed
    BY <2>1, <2>2, <2>3 DEF SurviveInv
  <2> QED BY <2>1, <2>2, <2>4, SurvivorsAre
<1> QED BY <1>1, Inductive, Surviving, PTL
===============================================================================
