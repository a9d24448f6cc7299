-------------------------- MODULE BackupSafetyProofs --------------------------
(***************************************************************************)
(* What is backed up stays restorable, for any number of files, backups,   *)
(* archives, failures and writes by the user during a backup: under        *)
(* SafeConfig, for any number of compactions, by IInv; under KeepsAll,     *)
(* whenever the index is lost and archives are moved, by HoardInv.         *)
(***************************************************************************)
EXTENDS BackupStoreProofs

-----------------------------------------------------------------------------
(* What the user has on other disks, as long as the main index is not lost. *)

\* Archives are made for a collection that is newer than what anyone has moved.
LEMMA AwayNext ==
    ASSUME KeepsIndex, TypeOK, CoreInv, AwayOnce, [Next]_vars
    PROVE  AwayOnce'
<1>0. db.coll \in Nat /\ txn.coll \in Nat
  BY DbFacts
<1>1. CASE UNCHANGED <<ready, away, removed>> /\ db'.coll = db.coll
  BY <1>1 DEF AwayOnce
<1>2. ASSUME DOMAIN ready' \subseteq DOMAIN ready, away' = away, db'.coll = db.coll,
             \A a \in removed' : a \in removed \/ a[1] <= db.coll
      PROVE  AwayOnce'
  BY <1>2 DEF AwayOnce
<1>3. CASE CleanReady
  BY <1>2, <1>3 DEF CleanReady, Drop, Restrict
<1>4. ASSUME NEW a \in DOMAIN staging, MoveTar(a) PROVE AwayOnce'
  <2>1. a[1] = txn.coll /\ txn.coll = db.coll + 1
    BY <1>4 DEF MoveTar, CoreInv, TxnTars, TxnKeeps, InTxn, BackupPhases
  <2>2. a \notin DOMAIN away
    BY <1>0, <2>1, ArcFacts DEF AwayOnce
  <2>3. DOMAIN ready' = DOMAIN ready \cup {a} /\ UNCHANGED <<away, removed, db>>
    BY <1>4, PutFacts DEF MoveTar
  <2> QED BY <2>2, <2>3 DEF AwayOnce
<1>5. CASE RecordAndCommit
  <2>1. db'.coll = txn.coll /\ txn.coll = db.coll + 1
    BY <1>5, CommitEffect DEF RecordAndCommit, CoreInv, TxnKeeps, InTxn, BackupPhases
  <2>2. UNCHANGED <<ready, away, removed>>
    BY <1>5 DEF RecordAndCommit, storeVars
  <2> QED BY <1>0, <2>1, <2>2, ArcFacts DEF AwayOnce
<1>6. CASE BackupStep /\ ~ CleanReady /\ ~ RecordAndCommit
             /\ ~ (\E a \in DOMAIN staging : MoveTar(a))
  BY <1>1, <1>6 DEF BackupStep, QueueFile, SkipFile, ProcessNoAccess,
     ProcessNotFound, ProcessOpen, HashFile, ArchiveFile, sv_backup_fromtextfile,
     ar_manager_begin, EndQueue, EndMove, CopyDb, storeVars
<1>7. CASE CompactStep
  <2>1. db'.coll = db.coll
    BY <1>7, CompactEffect
  <2>2. ASSUME NEW a \in DOMAIN plan.remove, RemoveTar(a) PROVE AwayOnce'
    <3>1. a[1] <= db.coll
      BY <2>2 DEF RemoveTar, CoreInv, PlanExpired, CompactPhases
    <3>2. /\ DOMAIN ready' \subseteq DOMAIN ready /\ away' = away
          /\ removed' \subseteq removed \cup {a}
      BY <2>2 DEF RemoveTar, Drop, Restrict
    <3> QED BY <1>2, <2>1, <3>1, <3>2
  <2>3. ASSUME NEW a, StripTar(a) PROVE AwayOnce'
    <3>1. DOMAIN ready' \subseteq DOMAIN ready /\ UNCHANGED <<away, removed>>
      BY <2>3 DEF StripTar, Put
    <3> QED BY <1>2, <2>1, <3>1
  <2>4. CASE RemoveRows \/ StripRows \/ EndCompact \/ \E a : StripChecksum(a)
    BY <1>1, <2>1, <2>4 DEF RemoveRows, StripRows, EndCompact, StripChecksum, storeVars
  <2> QED BY <1>7, <2>2, <2>3, <2>4 DEF CompactStep
<1>8. CASE UserStep
  <2>1. ASSUME NEW a \in DOMAIN ready, EvictTar(a) PROVE AwayOnce'
    BY <2>1 DEF EvictTar, AwayOnce, Put, Drop, Restrict
  <2>2. ASSUME NEW a \in DOMAIN away, FetchTar(a) PROVE AwayOnce'
    BY <2>2 DEF FetchTar, AwayOnce, Put, Drop, Restrict
  <2> QED BY <1>1, <1>8, <2>1, <2>2
       DEF UserStep, WriteFile, DeleteFile, EditGroup, storeVars
<1>9. CASE StartStep \/ Abort \/ UNCHANGED vars
  BY <1>1, <1>9 DEF StartStep, sv_backup, sv_compact, sv_app_findgroupnames, KeepsIndex,
     Abort, storeVars, vars
<1> QED BY <1>3, <1>4, <1>5, <1>6, <1>7, <1>8, <1>9 DEF Next

LEMMA AwayInductive ==
    ASSUME KeepsIndex
    PROVE  Spec => []AwayOnce
<1>1. Init => AwayOnce
  BY EmptyFacts DEF Init, AwayOnce
<1> QED BY <1>1, AwayNext, CoreInductive, TypeCorrect, PTL DEF Spec

-----------------------------------------------------------------------------
(* Nothing that has a row is lost, while compactions run. *)

LEMMA StoredInit == Init => Stored
<1> SUFFICES ASSUME Init PROVE Stored
  OBVIOUS
<1>1. DOMAIN db.contents = {} /\ DOMAIN index = {} /\ pc = "idle"
  BY EmptyFacts DEF Init, EmptyDb
<1> QED BY <1>1 DEF Stored, RowsBacked, PastRows, PlanSafe, CompactPhases

\* Steps that leave the committed index and the finished archives alone.
LEMMA StoreKept ==
    ASSUME Stored, UNCHANGED <<db, ready, away, removed, index, floor>>,
           pc' \notin CompactPhases
    PROVE  Stored'
BY DEF Stored, RowsBacked, Holds, PastRows, PlanSafe

\* Leftovers of an aborted backup carry an id that nothing committed has.
LEMMA CleanStored ==
    ASSUME TypeOK, IInv, CleanReady
    PROVE  Stored'
<1> USE DEF userVars, walkVars, planVars, histVars, BackupPhases
<1> DEFINE S == {a \in DOMAIN ready : a[1] = txn.coll}
<1>0. /\ pc = "clean" /\ pc' = "move"
      /\ db.coll \in Nat /\ txn.coll = db.coll + 1
      /\ UNCHANGED <<db, away, removed, index, floor>>
  BY DbFacts DEF CleanReady, IInv, CoreInv, TxnKeeps, InTxn
<1>1. /\ DOMAIN ready' = DOMAIN ready \ S
      /\ \A a \in DOMAIN ready' : ready'[a] = ready[a]
  BY DEF CleanReady, Drop, Restrict
<1>2. \A c \in DOMAIN db.contents : db.contents[c].arc \notin S
  BY <1>0, ArcFacts DEF IInv, CoreInv, CommittedRows, RowIds
<1>3. RowsBacked'
  BY <1>0, <1>1, <1>2 DEF IInv, Stored, RowsBacked, Holds
<1>4. PastRows' /\ PlanSafe'
  BY <1>0 DEF IInv, Stored, PastRows, PlanSafe, CompactPhases
<1> QED BY <1>3, <1>4 DEF Stored

\* An archive moves from staging to readytoupload; no committed row is in it.
LEMMA MoveStored ==
    ASSUME TypeOK, IInv, NEW a \in DOMAIN staging, MoveTar(a)
    PROVE  Stored'
<1> USE DEF userVars, walkVars, planVars, histVars, BackupPhases
<1>0. /\ pc = "move" /\ pc' = "move"
      /\ db.coll \in Nat /\ txn.coll = db.coll + 1 /\ a[1] = txn.coll
      /\ UNCHANGED <<db, away, removed, index, floor>>
  BY DbFacts DEF MoveTar, IInv, CoreInv, TxnKeeps, TxnTars, InTxn
<1>1. /\ DOMAIN ready' = DOMAIN ready \cup {a}
      /\ \A b \in DOMAIN ready : b # a => ready'[b] = ready[b]
  BY DEF MoveTar, Put
<1>2. \A c \in DOMAIN db.contents : db.contents[c].arc # a
  BY <1>0, ArcFacts DEF IInv, CoreInv, CommittedRows, RowIds
<1>3. RowsBacked'
  BY <1>0, <1>1, <1>2 DEF IInv, Stored, RowsBacked, Holds
<1>4. PastRows' /\ PlanSafe'
  BY <1>0 DEF IInv, Stored, PastRows, PlanSafe, CompactPhases
<1> QED BY <1>3, <1>4 DEF Stored

\* The rows of the transaction are committed rows or are in the archives just moved.
LEMMA CommitStored ==
    ASSUME TypeOK, IInv, RecordAndCommit
    PROVE  Stored'
<1> USE DEF userVars, storeVars, walkVars, planVars, histVars, BackupPhases
<1>0. /\ pc = "sums" /\ pc' = "copydb"
      /\ db.coll \in Nat /\ txn.coll = db.coll + 1
      /\ UNCHANGED <<ready, away, removed, index, floor>>
  BY DbFacts DEF RecordAndCommit, IInv, CoreInv, TxnKeeps, InTxn
<1>1. ASSUME NEW c \in DOMAIN txn.contents
      PROVE  Holds(txn.contents[c].arc, c)
  <2>1. CASE c \in DOMAIN db.contents /\ txn.contents[c].arc = db.contents[c].arc
    BY <2>1 DEF IInv, Stored, RowsBacked
  <2>2. CASE /\ txn.contents[c].arc[1] = txn.coll
             /\ txn.contents[c].arc \in DOMAIN ready
             /\ c \in DOMAIN ready[txn.contents[c].arc]
    <3>1. txn.contents[c].arc \notin removed
      BY <1>0, <2>2 DEF IInv, AwayOnce
    <3> QED BY <2>2, <3>1 DEF Holds
  <2> QED BY <2>1, <2>2, CommitArcs DEF IInv
<1>2. RowsBacked'
  BY <1>0, <1>1, CommitEffect DEF RowsBacked, Holds
<1>3. PastRows'
  <2>1. ASSUME NEW k \in DOMAIN index PROVE k <= txn.coll
    BY <1>0, <2>1 DEF IInv, Stored, PastRows, TypeOK, IsIndex
  <2>2. ASSUME NEW k \in DOMAIN index, k > floor,
               NEW p \in DOMAIN index[k].files
        PROVE  LET c == index[k].files[p].contents
               IN  /\ c \in DOMAIN index[k].contents
                   /\ c \in DOMAIN txn.contents
                   /\ txn.contents[c].arc = index[k].contents[c].arc
                   /\ txn.contents[c].last >= k
    <3> DEFINE c == index[k].files[p].contents
    <3>1. /\ c \in DOMAIN index[k].contents /\ c \in DOMAIN db.contents
          /\ db.contents[c].arc = index[k].contents[c].arc
          /\ db.contents[c].last >= k
      BY <2>2 DEF IInv, Stored, PastRows
    <3>2. /\ c \in DOMAIN txn.contents
          /\ txn.contents[c].arc = db.contents[c].arc
          /\ txn.contents[c].last >= db.contents[c].last
      BY <1>0, <3>1 DEF IInv, CoreInv, TxnKeeps, InTxn
    <3>3. k \in Nat /\ db.contents[c].last \in Nat /\ txn.contents[c].last \in Nat
      BY <3>1, <3>2, DbFacts DEF TypeOK, IsIndex
    <3> QED BY <3>1, <3>2, <3>3
  <2> QED BY <1>0, <2>1, <2>2, CommitEffect DEF PastRows
<1>4. PlanSafe'
  BY <1>0 DEF PlanSafe, CompactPhases
<1> QED BY <1>2, <1>3, <1>4 DEF Stored

\* The copy lists live files, or nothing at all when it is torn.
LEMMA CopyStored ==
    ASSUME TypeOK, IInv, CopyDb
    PROVE  Stored'
<1>0. UNCHANGED <<db, ready, away, removed, floor>> /\ db.coll \in Nat /\ pc' = "idle"
  BY DbFacts, EndIdle DEF CopyDb
<1>1. RowsBacked' /\ PlanSafe'
  BY <1>0 DEF IInv, Stored, RowsBacked, Holds, PlanSafe, CompactPhases
<1>2. PICK d \in {db, EmptyDb} :
        /\ DOMAIN index' = DOMAIN index \cup {db.coll}
        /\ index'[db.coll] = d
        /\ \A k \in DOMAIN index : k # db.coll => index'[k] = index[k]
  BY CopyEffect
<1>3. ASSUME NEW p \in DOMAIN d.files
      PROVE  LET c == d.files[p].contents
             IN  /\ c \in DOMAIN d.contents /\ c \in DOMAIN db.contents
                 /\ db.contents[c].arc = d.contents[c].arc
                 /\ db.contents[c].last >= db.coll
  <2>1. d = db
    BY <1>2, <1>3, EmptyFacts DEF EmptyDb
  <2> QED BY <1>0, <1>3, <2>1 DEF IInv, CoreInv, CommittedRows, FilesLive
<1>4. PastRows'
  BY <1>0, <1>2, <1>3 DEF IInv, Stored, PastRows
<1> QED BY <1>1, <1>4 DEF Stored

\* Archives move only while nothing runs.
LEMMA UserStored ==
    ASSUME SafeConfig, TypeOK, IInv, UserStep
    PROVE  Stored'
<1> USE DEF userVars, storeVars, walkVars, planVars, histVars
<1>1. CASE UNCHANGED <<ready, away>>
  <2>1. UNCHANGED <<db, removed, index, floor, pc, plan>>
    BY DEF UserStep, WriteFile, DeleteFile, EditGroup, EvictTar, FetchTar
  <2> QED BY <1>1, <2>1 DEF IInv, Stored, RowsBacked, Holds, PastRows, PlanSafe
<1>2. ASSUME NEW a, \/ a \in DOMAIN ready /\ EvictTar(a)
                    \/ a \in DOMAIN away /\ FetchTar(a)
      PROVE  Stored'
  <2>1. /\ pc' = "idle" /\ UNCHANGED <<db, removed, index, floor>>
        /\ \A b : Tar(b)' = Tar(b)
        /\ DOMAIN ready' \cup DOMAIN away' = DOMAIN ready \cup DOMAIN away
    BY <1>2, MoveEffect DEF MayMove, SafeConfig
  <2>2. ASSUME NEW b, NEW c, Holds(b, c) PROVE Holds(b, c)'
    <3>1. b \notin removed /\ c \in DOMAIN Tar(b)
      BY <2>2 DEF Holds, Tar, IInv, AwayOnce
    <3>2. b \notin removed' /\ c \in DOMAIN Tar(b)'
      BY <2>1, <3>1
    <3> QED BY <3>2, EmptyFacts DEF Holds, Tar
  <2>3. RowsBacked'
    BY <2>1, <2>2 DEF IInv, Stored, RowsBacked
  <2> QED BY <2>1, <2>3 DEF IInv, Stored, PastRows, PlanSafe, CompactPhases
<1> QED BY <1>1, <1>2 DEF UserStep, WriteFile, DeleteFile, EditGroup

\* What is chosen was last referenced by the cutoff collection or before.
LEMMA PlanStored ==
    ASSUME SafeConfig, TypeOK, IInv,
           NEW thorough, NEW k \in Nat, NEW strip, sv_compact(thorough, k, strip)
    PROVE  Stored'
<1>0. /\ pc' = "rm_db" /\ thorough = TRUE
      /\ UNCHANGED <<db, ready, away, removed, index, floor>>
  BY DEF sv_compact, sv_compact_ask_user, SafeConfig, storeVars, histVars
<1>1. RowsBacked' /\ PastRows'
  BY <1>0 DEF IInv, Stored, RowsBacked, Holds, PastRows
<1>2. ASSUME NEW a \in ToRemove(db, k), NEW c \in DOMAIN db.contents,
             db.contents[c].arc = a
      PROVE  c \in plan'.remove[a]
  <2>1. c \notin New(db, a, k)
    BY DEF ToRemove
  <2>2. db.contents[c].last \in Nat
    BY DbFacts
  <2>3. c \in Old(db, a, k)
    BY <1>2, <2>1, <2>2 DEF Old, New
  <2> QED BY <1>0, <2>3, PlanChosen DEF old_individual_files
<1>3. PlanSafe'
  BY <1>0, <1>2, PlanChosen DEF PlanSafe
<1> QED BY <1>1, <1>3 DEF Stored

\* Deleting expired rows: rows of covered copies are newer.
LEMMA DeleteStored ==
    ASSUME TypeOK, IInv, CompactStep, pc \in CompactPhases,
           UNCHANGED <<ready, away, removed, index>>,
           floor' \in Nat, floor' >= floor, floor' >= plan.cutoff
    PROVE  RowsBacked' /\ PastRows'
<1>0. plan.cutoff \in Nat /\ db.coll \in Nat /\ floor \in Nat
  BY PlanFacts, DbFacts
<1>1. RowsBacked'
  BY CompactEffect DEF IInv, Stored, RowsBacked, Holds
<1>2. ASSUME NEW k \in DOMAIN index, k > floor', NEW p \in DOMAIN index[k].files
      PROVE  LET c == index[k].files[p].contents
             IN  /\ c \in DOMAIN index[k].contents
                 /\ c \in DOMAIN db'.contents
                 /\ db'.contents[c].arc = index[k].contents[c].arc
                 /\ db'.contents[c].last >= k
  <2> DEFINE c == index[k].files[p].contents
  <2>1. k \in Nat
    BY DEF TypeOK, IsIndex
  <2>2. k > floor /\ k > plan.cutoff
    BY <1>0, <1>2, <2>1
  <2>3. /\ c \in DOMAIN index[k].contents /\ c \in DOMAIN db.contents
        /\ db.contents[c].arc = index[k].contents[c].arc
        /\ db.contents[c].last >= k
    BY <1>2, <2>2 DEF IInv, Stored, PastRows
  <2>4. ~ (db.contents[c].last <= plan.cutoff)
    BY <1>0, <2>1, <2>2, <2>3, DbFacts
  <2>5. c \in DOMAIN db'.contents
    BY <2>3, <2>4, DeletedExpired DEF IInv
  <2> QED BY <2>3, <2>5, CompactEffect
<1>3. PastRows'
  BY <1>2, CompactEffect DEF IInv, Stored, PastRows
<1> QED BY <1>1, <1>3

\* The rows of whole archives go.
LEMMA RemoveRowsStored ==
    ASSUME TypeOK, IInv, RemoveRows
    PROVE  Stored'
<1>0. /\ pc = "rm_db" /\ pc' = "rm_disk" /\ plan' = plan
      /\ UNCHANGED <<ready, away, removed, index>>
      /\ plan.cutoff \in Nat /\ floor \in Nat
      /\ floor' = IF plan.cutoff > floor THEN plan.cutoff ELSE floor
  BY PlanFacts, DbFacts DEF RemoveRows, storeVars, planVars
<1>1. RowsBacked' /\ PastRows'
  BY <1>0, DeleteStored DEF CompactStep, CompactPhases
<1>2. \A a \in DOMAIN plan.remove : \A c \in DOMAIN db'.contents :
        db'.contents[c].arc # a
  <2>1. \A a \in DOMAIN plan.remove : \A c \in DOMAIN db.contents :
           db.contents[c].arc = a => c \in plan.remove[a]
    BY <1>0 DEF IInv, Stored, PlanSafe, CompactPhases
  <2> QED BY <2>1, RemoveRowsEffect DEF Range
<1>3. PlanSafe'
  BY <1>0, <1>2 DEF PlanSafe
<1> QED BY <1>1, <1>3 DEF Stored

\* A whole archive goes, or stays: no row is in it.
LEMMA RemoveTarStored ==
    ASSUME TypeOK, IInv, NEW a \in DOMAIN plan.remove, RemoveTar(a)
    PROVE  Stored'
<1> USE DEF userVars, walkVars, histVars, CompactPhases
<1>0. /\ pc = "rm_disk" /\ pc' = pc
      /\ UNCHANGED <<db, away, index, floor>>
      /\ \A b \in DOMAIN ready : b # a => b \in DOMAIN ready' /\ ready'[b] = ready[b]
      /\ removed' \subseteq removed \cup {a}
  BY DEF RemoveTar, Drop, Restrict
<1>1. /\ plan.cutoff <= floor
      /\ \A b \in DOMAIN plan.remove : \A c \in DOMAIN db.contents :
           db.contents[c].arc # b
  BY <1>0 DEF IInv, Stored, PlanSafe
<1>2. RowsBacked'
  BY <1>0, <1>1 DEF IInv, Stored, RowsBacked, Holds
<1>3. /\ plan'.cutoff = plan.cutoff
      /\ DOMAIN plan'.remove \subseteq DOMAIN plan.remove
  BY PlanEffect DEF CompactStep, EndCompact, RemoveTar
<1>4. PastRows' /\ PlanSafe'
  BY <1>0, <1>1, <1>3 DEF IInv, Stored, PastRows, PlanSafe
<1> QED BY <1>2, <1>4 DEF Stored

\* The rows of expired members go, of the archives that are there.
LEMMA StripRowsStored ==
    ASSUME TypeOK, IInv, StripRows
    PROVE  Stored'
<1>0. /\ pc = "rm_disk" /\ pc' = "strip_disk" /\ plan' = plan
      /\ plan.remove = EmptyFcn /\ DOMAIN plan.remove = {}
      /\ UNCHANGED <<ready, away, removed, index, floor>>
      /\ floor \in Nat /\ plan.cutoff \in Nat
  BY DbFacts, PlanFacts, EmptyFacts DEF StripRows, storeVars, planVars, histVars
<1>1. plan.cutoff <= floor
  BY <1>0 DEF IInv, Stored, PlanSafe, CompactPhases
<1>2. RowsBacked' /\ PastRows'
  BY <1>0, <1>1, DeleteStored DEF CompactStep, CompactPhases
<1>3. \A a \in DOMAIN plan.strip \cap DOMAIN ready :
         plan.strip[a] \cap DOMAIN db'.contents = {}
  BY StripRowsEffect
<1>4. PlanSafe'
  BY <1>0, <1>1, <1>3 DEF PlanSafe
<1> QED BY <1>2, <1>4 DEF Stored

\* An archive loses members that have no row, or stays as it is.
LEMMA StripTarStored ==
    ASSUME TypeOK, IInv, NEW a \in DOMAIN plan.strip, StripTar(a)
    PROVE  Stored'
<1> USE DEF userVars, walkVars, histVars, CompactPhases
<1>0. /\ pc = "strip_disk" /\ pc' \in {"strip_disk", "strip_sum"}
      /\ UNCHANGED <<db, away, removed, index, floor>>
      /\ \/ /\ a \in DOMAIN ready
            /\ ready' = Put(ready, a, Drop(ready[a], plan.strip[a]))
         \/ ready' = ready
  BY DEF StripTar
<1>1. /\ DOMAIN ready' = DOMAIN ready
      /\ \A b \in DOMAIN ready : b # a => ready'[b] = ready[b]
      /\ a \in DOMAIN ready =>
           DOMAIN ready[a] \ plan.strip[a] \subseteq DOMAIN ready'[a]
  BY <1>0 DEF Put, Drop, Restrict
<1>2. /\ plan.cutoff <= floor
      /\ \A b \in DOMAIN plan.strip \cap DOMAIN ready :
           plan.strip[b] \cap DOMAIN db.contents = {}
  BY <1>0 DEF IInv, Stored, PlanSafe
<1>3. ASSUME NEW b, NEW c \in DOMAIN db.contents, Holds(b, c) PROVE Holds(b, c)'
  BY <1>0, <1>1, <1>2, <1>3 DEF Holds
<1>4. RowsBacked'
  BY <1>0, <1>3 DEF IInv, Stored, RowsBacked
<1>5. /\ plan'.cutoff = plan.cutoff
      /\ DOMAIN plan'.strip \subseteq DOMAIN plan.strip
      /\ \A b \in DOMAIN plan'.strip : plan'.strip[b] = plan.strip[b]
  BY <1>0, PlanEffect DEF CompactStep, EndCompact, EndOperation
<1>6. PastRows' /\ PlanSafe'
  BY <1>0, <1>1, <1>2, <1>5 DEF IInv, Stored, PastRows, PlanSafe
<1> QED BY <1>4, <1>6 DEF Stored

\* A checksum row is added to the index.
LEMMA StripChecksumStored ==
    ASSUME TypeOK, IInv, NEW a, StripChecksum(a)
    PROVE  Stored'
<1>0. /\ pc = "strip_sum" /\ pc' = "strip_disk"
      /\ UNCHANGED <<ready, away, removed, index, plan, floor>>
  BY DEF StripChecksum, storeVars, histVars
<1>1. RowsBacked' /\ PastRows'
  BY <1>0, StripChecksumEffect DEF IInv, Stored, RowsBacked, Holds, PastRows
<1>2. PlanSafe'
  BY <1>0, StripChecksumEffect DEF IInv, Stored, PlanSafe, CompactPhases
<1> QED BY <1>1, <1>2 DEF Stored

\* No step leaves the inductive invariant.
LEMMA StoredNext ==
    ASSUME SafeConfig, TypeOK, IInv, Next
    PROVE  Stored'
<1>0. Stored
  BY DEF IInv
<1>1. CASE CleanReady \/ (\E a \in DOMAIN staging : MoveTar(a))
             \/ RecordAndCommit \/ CopyDb
  BY <1>1, CleanStored, MoveStored, CommitStored, CopyStored
<1>2. CASE BackupStep /\ ~ CleanReady /\ ~ RecordAndCommit /\ ~ CopyDb
             /\ ~ (\E a \in DOMAIN staging : MoveTar(a))
  <2>1. /\ UNCHANGED <<db, ready, away, removed, index, floor>>
        /\ pc' \in BackupPhases
    BY <1>2 DEF BackupStep, QueueFile, SkipFile, ProcessNoAccess, ProcessNotFound,
       ProcessOpen, HashFile, HashSeen, HashNew, ArchiveFile, sv_backup_fromtextfile,
       ar_manager_begin, EndQueue, EndMove, storeVars, histVars, BackupPhases
  <2> QED BY <1>0, <2>1, StoreKept DEF BackupPhases, CompactPhases
<1>3. CASE sv_backup \/ Abort \/ EndCompact
  <2>1. /\ UNCHANGED <<db, ready, away, removed, index, floor>>
        /\ pc' \in {"queue", "idle"}
    BY <1>3 DEF sv_backup, Abort, EndCompact, EndOperation, storeVars, histVars
  <2> QED BY <1>0, <2>1, StoreKept DEF CompactPhases
<1>4. CASE CompactStep
  BY <1>3, <1>4, RemoveRowsStored, StripRowsStored, RemoveTarStored,
     StripTarStored, StripChecksumStored DEF CompactStep
<1>5. CASE StartStep
  <2>1. \A k \in 1..db.coll : k \in Nat
    BY DbFacts
  <2>2. ASSUME NEW k, sv_app_findgroupnames(k) PROVE FALSE
    BY <2>2 DEF sv_app_findgroupnames, SafeConfig
  <2> QED BY <1>3, <1>5, <2>1, <2>2, PlanStored DEF StartStep
<1> QED BY <1>1, <1>2, <1>3, <1>4, <1>5, UserStored DEF Next, BackupStep

\* With thorough compactions only, nothing moved during an operation and the main
\* index never lost, every row of the index has its bytes in an archive, and so has
\* every file of a copy that no compaction has reached.
THEOREM Inductive ==
    ASSUME SafeConfig
    PROVE  Spec => []IInv
<1>0. KeepsIndex
  BY DEF SafeConfig, KeepsIndex
<1>1. TypeOK /\ CoreInv /\ AwayOnce /\ Stored /\ [Next]_vars => Stored'
  <2> SUFFICES ASSUME TypeOK, IInv, [Next]_vars PROVE Stored'
    BY DEF IInv
  <2>1. CASE UNCHANGED vars
    BY <2>1 DEF vars, IInv, Stored, RowsBacked, Holds, PastRows, PlanSafe
  <2> QED BY <2>1, StoredNext
<1>2. CoreInv /\ AwayOnce /\ Stored => IInv
  BY DEF IInv
<1> QED BY <1>0, <1>1, <1>2, StoredInit, AwayInductive, CoreInductive, TypeCorrect,
           PTL DEF Spec

-----------------------------------------------------------------------------
(* Nothing is lost when nobody compacts, even if the main index is.            *)

LEMMA HoardInit == Init => Hoarded
<1> SUFFICES ASSUME Init PROVE Hoarded
  OBVIOUS
<1>1. DOMAIN db.contents = {} /\ DOMAIN index = {} /\ pc = "idle" /\ removed = {}
  BY EmptyFacts DEF Init, EmptyDb
<1> QED BY <1>1 DEF Hoarded, Backed, CompactPhases

\* Archives of collections that the index and its copies know only grow.
LEMMA HoardTars ==
    ASSUME TypeOK, HoardInv, UNCHANGED <<db, index, removed>>, pc' \notin CompactPhases,
           \A a \in ArchiveId : a[1] <= db.coll => DOMAIN Tar(a) \subseteq DOMAIN Tar(a)'
    PROVE  Hoarded'
<1>1. ASSUME NEW d, IsDb(d), RowIds(d), d.coll <= db.coll, Backed(d) PROVE Backed(d)'
  <2>1. ASSUME NEW c \in DOMAIN d.contents
        PROVE  d.contents[c].arc \in ArchiveId /\ d.contents[c].arc[1] <= db.coll
    <3>1. d.contents[c].arc \in ArchiveId /\ d.coll \in Nat /\ db.coll \in Nat
      BY <1>1, DbFacts DEF IsDb, IsPartial, sv_content_row
    <3>2. d.contents[c].arc[1] \in Nat /\ d.contents[c].arc[1] <= d.coll
      BY <1>1, <3>1 DEF RowIds, ArchiveId
    <3> QED BY <1>1, <3>1, <3>2
  <2> QED BY <1>1, <2>1 DEF Backed
<1>2. IsDb(db) /\ RowIds(db) /\ db.coll <= db.coll
  BY DbFacts DEF HoardInv, CoreInv, CommittedRows
<1>3. \A k \in DOMAIN index : IsDb(index[k]) /\ RowIds(index[k])
                                /\ index[k].coll <= db.coll
  BY DEF HoardInv, Hoarded, CoreInv, CommittedRows, TypeOK, IsIndex
<1>4. Backed(db)' /\ \A k \in DOMAIN index : Backed(index[k])'
  <2>1. Backed(db) /\ \A k \in DOMAIN index : Backed(index[k])
    BY DEF HoardInv, Hoarded
  <2>2. ASSUME NEW c \in DOMAIN db.contents PROVE c \in DOMAIN Tar(db.contents[c].arc)'
    BY <1>1, <1>2, <2>1 DEF Backed
  <2>3. ASSUME NEW k \in DOMAIN index, NEW c \in DOMAIN index[k].contents
        PROVE  c \in DOMAIN Tar(index[k].contents[c].arc)'
    BY <1>1, <1>3, <2>1 DEF Backed
  <2> QED BY <2>2, <2>3 DEF Backed
<1> QED BY <1>4 DEF HoardInv, Hoarded, Backed

\* What is moved or cleared is of a collection that has not been committed.
LEMMA HoardFinish ==
    ASSUME TypeOK, HoardInv,
           CleanReady \/ \E a \in DOMAIN staging : MoveTar(a)
    PROVE  Hoarded'
<1>0. /\ pc' = "move" /\ db.coll \in Nat /\ txn.coll = db.coll + 1
      /\ UNCHANGED <<db, index, removed, away>>
  BY DbFacts DEF CleanReady, MoveTar, HoardInv, CoreInv, TxnKeeps, InTxn, BackupPhases
<1>1. ASSUME NEW a \in ArchiveId, a[1] <= db.coll
      PROVE  /\ a \in DOMAIN ready' <=> a \in DOMAIN ready
             /\ a \in DOMAIN ready => ready'[a] = ready[a]
  <2>1. a[1] # txn.coll
    BY <1>0, <1>1 DEF ArchiveId
  <2>2. CASE CleanReady
    BY <2>1, <2>2 DEF CleanReady, Drop, Restrict
  <2>3. ASSUME NEW b \in DOMAIN staging, MoveTar(b)
        PROVE  /\ a \in DOMAIN ready' <=> a \in DOMAIN ready
               /\ a \in DOMAIN ready => ready'[a] = ready[a]
    <3>1. b[1] = txn.coll
      BY <2>3 DEF MoveTar, HoardInv, CoreInv, TxnTars, InTxn, BackupPhases
    <3> QED BY <2>1, <2>3, <3>1 DEF MoveTar, Put
  <2> QED BY <2>2, <2>3
<1>2. \A a \in ArchiveId : a[1] <= db.coll => DOMAIN Tar(a) \subseteq DOMAIN Tar(a)'
  BY <1>0, <1>1 DEF Tar
<1> QED BY <1>0, <1>2, HoardTars DEF CompactPhases

\* A committed row is in an archive that was moved before.
LEMMA HoardCommit ==
    ASSUME TypeOK, HoardInv, RecordAndCommit
    PROVE  Hoarded'
<1>0. /\ pc = "sums" /\ pc' = "copydb" /\ db.coll \in Nat /\ txn.coll = db.coll + 1
      /\ UNCHANGED <<ready, away, removed, index>>
  BY DbFacts DEF RecordAndCommit, HoardInv, CoreInv, TxnKeeps, InTxn, BackupPhases,
     storeVars
<1>1. ASSUME NEW c \in DOMAIN txn.contents PROVE c \in DOMAIN Tar(txn.contents[c].arc)
  <2>1. CASE c \in DOMAIN db.contents /\ txn.contents[c].arc = db.contents[c].arc
    BY <2>1 DEF HoardInv, Hoarded, Backed
  <2>2. CASE txn.contents[c].arc \in DOMAIN ready /\ c \in DOMAIN ready[txn.contents[c].arc]
    BY <2>2 DEF Tar
  <2> QED BY <2>1, <2>2, CommitArcs DEF HoardInv
<1>2. \A a : Tar(a)' = Tar(a)
  BY <1>0 DEF Tar
<1>3. Backed(db)'
  BY <1>1, <1>2, CommitEffect DEF Backed
<1>4. \A k \in DOMAIN index : k \in Nat /\ k <= db.coll
  BY DEF HoardInv, Hoarded, TypeOK, IsIndex
<1>5. \A k \in DOMAIN index : k <= txn.coll
  BY <1>0, <1>4
<1> QED BY <1>0, <1>2, <1>3, <1>5, CommitEffect DEF HoardInv, Hoarded, Backed, CompactPhases

LEMMA HoardCopy ==
    ASSUME KeepsAll, TypeOK, HoardInv, CopyDb
    PROVE  Hoarded'
<1>0. UNCHANGED <<db, ready, away, removed>> /\ pc' = "idle" /\ db.coll \in Nat
  BY EndIdle, DbFacts DEF CopyDb
<1>1. /\ DOMAIN index' = DOMAIN index \cup {db.coll} /\ index'[db.coll] = db
      /\ \A k \in DOMAIN index : k # db.coll => index'[k] = index[k]
  BY CopyEffect DEF KeepsAll
<1>2. \A a : Tar(a)' = Tar(a)
  BY <1>0 DEF Tar
<1> QED BY <1>0, <1>1, <1>2 DEF HoardInv, Hoarded, Backed, CompactPhases

\* The newest copy becomes the index: all copies are as old or older.
LEMMA HoardRecover ==
    ASSUME TypeOK, HoardInv, NEW k, sv_app_findgroupnames(k)
    PROVE  Hoarded'
<1>0. /\ k \in DOMAIN index /\ \A j \in DOMAIN index : j <= k
      /\ db' = index[k] /\ UNCHANGED <<pc, ready, away, removed, index>>
  BY DEF sv_app_findgroupnames, storeVars
<1>1. \A a : Tar(a)' = Tar(a)
  BY <1>0 DEF Tar
<1> QED BY <1>0, <1>1 DEF HoardInv, Hoarded, Backed

\* Steps that leave the index and the archives alone.
LEMMA HoardKept ==
    ASSUME HoardInv, UNCHANGED <<db, ready, away, removed, index>>,
           pc' = pc \/ pc' \notin CompactPhases
    PROVE  Hoarded'
<1>1. \A a : Tar(a)' = Tar(a)
  BY DEF Tar
<1> QED BY <1>1 DEF HoardInv, Hoarded, Backed

LEMMA HoardNext ==
    ASSUME KeepsAll, TypeOK, HoardInv, Next
    PROVE  Hoarded'
<1>1. CASE CleanReady \/ (\E a \in DOMAIN staging : MoveTar(a))
             \/ RecordAndCommit \/ CopyDb
  BY <1>1, HoardFinish, HoardCommit, HoardCopy
<1>2. CASE BackupStep /\ ~ CleanReady /\ ~ RecordAndCommit /\ ~ CopyDb
             /\ ~ (\E a \in DOMAIN staging : MoveTar(a))
  <2>1. /\ UNCHANGED <<db, ready, away, removed, index>>
        /\ pc' \in BackupPhases
    BY <1>2 DEF BackupStep, QueueFile, SkipFile, ProcessNoAccess, ProcessNotFound,
       ProcessOpen, HashFile, HashSeen, HashNew, ArchiveFile, sv_backup_fromtextfile,
       ar_manager_begin, EndQueue, EndMove, storeVars, histVars, BackupPhases
  <2> QED BY <2>1, HoardKept DEF BackupPhases, CompactPhases
<1>3. CASE sv_backup \/ Abort
  <2>1. /\ UNCHANGED <<db, ready, away, removed, index>>
        /\ pc' \in {"queue", "idle"}
    BY <1>3 DEF sv_backup, Abort, EndOperation, storeVars, histVars
  <2> QED BY <2>1, HoardKept DEF CompactPhases
<1>4. ~ CompactStep
  BY DEF CompactStep, RemoveRows, StripRows, EndCompact, RemoveTar, StripTar,
         StripChecksum, HoardInv, Hoarded, CompactPhases
<1>5. CASE StartStep
  BY <1>3, <1>5, HoardRecover DEF StartStep, KeepsAll
<1>6. CASE UserStep
  <2>1. ASSUME NEW a, \/ a \in DOMAIN ready /\ EvictTar(a)
                      \/ a \in DOMAIN away /\ FetchTar(a)
        PROVE  Hoarded'
    <3>1. \A b : DOMAIN Tar(b) \subseteq DOMAIN Tar(b)'
      BY <2>1, MoveEffect
    <3>2. UNCHANGED <<db, index, removed, pc>>
      BY <2>1, MoveEffect
    <3>3. pc' \notin CompactPhases
      BY <3>2 DEF HoardInv, Hoarded
    <3> QED BY <3>1, <3>2, <3>3, HoardTars
  <2>2. CASE UNCHANGED <<db, ready, away, removed, index, pc>>
    BY <2>2, HoardKept
  <2> QED BY <1>6, <2>1, <2>2
       DEF UserStep, WriteFile, DeleteFile, EditGroup, storeVars
<1> QED BY <1>1, <1>2, <1>3, <1>4, <1>5, <1>6 DEF Next, BackupStep

\* When nobody compacts and copies are whole, the index and every copy of it are
\* backed by the archives, although the index may be lost and replaced by a copy and
\* archives moved even while a backup runs.
THEOREM HoardInductive ==
    ASSUME KeepsAll
    PROVE  Spec => []HoardInv
<1>1. TypeOK /\ CoreInv /\ Hoarded /\ [Next]_vars => Hoarded'
  <2> SUFFICES ASSUME TypeOK, HoardInv, [Next]_vars PROVE Hoarded'
    BY DEF HoardInv
  <2>1. CASE UNCHANGED vars
    BY <2>1, HoardKept DEF vars
  <2> QED BY <2>1, HoardNext
<1>2. CoreInv /\ Hoarded => HoardInv
  BY DEF HoardInv
<1> QED BY <1>1, <1>2, HoardInit, CoreInductive, TypeCorrect, PTL DEF Spec

-----------------------------------------------------------------------------
(* The theorems. *)

\* The index never refers to data that is not there.
THEOREM IndexBacked ==
    ASSUME SafeConfig \/ KeepsAll
    PROVE  Spec => []RowsBacked
<1>1. IInv => RowsBacked
  BY DEF IInv, Stored
<1>2. HoardInv => RowsBacked
  BY EmptyFacts DEF HoardInv, Hoarded, Backed, Tar, RowsBacked, Holds
<1>3. CASE SafeConfig
  BY <1>1, <1>3, Inductive, PTL
<1>4. CASE KeepsAll
  BY <1>2, <1>4, HoardInductive, PTL
<1> QED BY <1>3, <1>4

\* What the newest committed backup lists can be restored at any moment: during
\* a backup or a compaction, and after either was interrupted anywhere; without
\* compactions, also after the index was lost and replaced by its newest copy.
THEOREM LatestSafe ==
    ASSUME SafeConfig \/ KeepsAll
    PROVE  Spec => []LatestRestorable
<1>1. CoreInv /\ RowsBacked => LatestRestorable
  BY DEF CoreInv, CommittedRows, FilesLive, RowsBacked, LatestRestorable, Restorable
<1> QED BY <1>1, CoreInductive, IndexBacked, PTL

\* So can what a copy of the index lists that no compaction has reached.
THEOREM PastSafe ==
    ASSUME SafeConfig \/ KeepsAll
    PROVE  Spec => []PastRestorable
<1>1. IInv => PastRestorable
  <2> SUFFICES ASSUME IInv, NEW k \in DOMAIN index, k > floor,
                      NEW p \in DOMAIN index[k].files
               PROVE  Restorable(index[k], p)
    BY DEF PastRestorable
  <2> DEFINE c == index[k].files[p].contents
  <2>1. /\ c \in DOMAIN index[k].contents /\ c \in DOMAIN db.contents
        /\ db.contents[c].arc = index[k].contents[c].arc
    BY DEF IInv, Stored, PastRows
  <2>2. Holds(db.contents[c].arc, c)
    BY <2>1 DEF IInv, Stored, RowsBacked
  <2> QED BY <2>1, <2>2 DEF Restorable
<1>2. HoardInv => PastRestorable
  <2> SUFFICES ASSUME HoardInv, NEW k \in DOMAIN index,
                      NEW p \in DOMAIN index[k].files
               PROVE  Restorable(index[k], p)
    BY DEF PastRestorable
  <2> DEFINE c == index[k].files[p].contents
  <2>1. c \in DOMAIN index[k].contents
    BY DEF HoardInv, CoreInv, CommittedRows, FilesLive
  <2>2. c \in DOMAIN Tar(index[k].contents[c].arc) /\ removed = {}
    BY <2>1 DEF HoardInv, Hoarded, Backed
  <2> QED BY <2>1, <2>2, EmptyFacts DEF Restorable, Holds, Tar
<1>3. CASE SafeConfig
  BY <1>1, <1>3, Inductive, PTL
<1>4. CASE KeepsAll
  BY <1>2, <1>4, HoardInductive, PTL
<1> QED BY <1>3, <1>4

\* The step property inside CommittedTarsKept.
TarsStay ==
    (pc \in BackupPhases) =>
         \A a \in DOMAIN ready \cup DOMAIN away : a[1] <= db.coll =>
            \E t \in {ready', away'} : a \in DOMAIN t /\ t[a] = Tar(a)

\* A backup rewrites only archives that bear the id of its own collection, which
\* is newer than that of every finished one, whatever fails, is moved or is lost.
THEOREM TarsKept == Spec => CommittedTarsKept
<1>1. ASSUME TypeOK, CoreInv, [Next]_vars PROVE TarsStay
  <2> SUFFICES ASSUME pc \in BackupPhases,
                      NEW a \in DOMAIN ready \cup DOMAIN away, a[1] <= db.coll
               PROVE  \E t \in {ready', away'} : a \in DOMAIN t /\ t[a] = Tar(a)
    BY DEF TarsStay
  <2>0. a[1] \in Nat /\ db.coll \in Nat
    BY <1>1, ArcFacts, DbFacts
  <2>1. ASSUME Tar(a)' = Tar(a), a \in DOMAIN ready' \cup DOMAIN away'
        PROVE  \E t \in {ready', away'} : a \in DOMAIN t /\ t[a] = Tar(a)
    BY <2>1 DEF Tar
  <2>2. CASE UNCHANGED <<ready, away>>
    BY <2>1, <2>2 DEF Tar
  <2>3. CASE CleanReady
    <3>1. a[1] # txn.coll
      BY <1>1, <2>0, <2>3 DEF CleanReady, CoreInv, TxnKeeps, InTxn, BackupPhases
    <3>2. away' = away /\ (a \in DOMAIN ready <=> a \in DOMAIN ready')
          /\ (a \in DOMAIN ready => ready'[a] = ready[a])
      BY <2>3, <3>1 DEF CleanReady, Drop, Restrict
    <3> QED BY <2>1, <3>2 DEF Tar
  <2>4. ASSUME NEW b \in DOMAIN staging, MoveTar(b)
        PROVE  \E t \in {ready', away'} : a \in DOMAIN t /\ t[a] = Tar(a)
    <3>1. a # b
      BY <1>1, <2>0, <2>4
         DEF MoveTar, CoreInv, TxnKeeps, TxnTars, InTxn, BackupPhases
    <3>2. away' = away /\ (a \in DOMAIN ready <=> a \in DOMAIN ready')
          /\ (a \in DOMAIN ready => ready'[a] = ready[a])
      BY <2>4, <3>1 DEF MoveTar, Put
    <3> QED BY <2>1, <3>2 DEF Tar
  <2>5. CASE BackupStep
    <3>1. CASE ~ (\E b \in DOMAIN staging : MoveTar(b)) /\ ~ CleanReady
      <4>1. UNCHANGED <<ready, away>>
        BY <2>5, <3>1 DEF BackupStep, QueueFile, SkipFile, ProcessNoAccess,
           ProcessNotFound, ProcessOpen, HashFile, ArchiveFile,
           sv_backup_fromtextfile, ar_manager_begin, EndQueue, EndMove,
           RecordAndCommit, CopyDb, storeVars
      <4> QED BY <2>2, <4>1
    <3> QED BY <2>3, <2>4, <3>1
  <2>6. CASE CompactStep
    BY <2>6 DEF CompactStep, RemoveRows, StripRows, EndCompact, RemoveTar,
       StripTar, StripChecksum, BackupPhases
  <2>7. CASE StartStep
    BY <2>7 DEF StartStep, sv_backup, sv_compact, sv_app_findgroupnames, BackupPhases
  <2>8. CASE UserStep
    <3>1. ASSUME NEW b, \/ b \in DOMAIN ready /\ EvictTar(b)
                        \/ b \in DOMAIN away /\ FetchTar(b)
          PROVE  Tar(a)' = Tar(a) /\ a \in DOMAIN ready' \cup DOMAIN away'
      BY <3>1, MoveEffect
    <3> QED BY <2>1, <2>2, <2>8, <3>1
         DEF UserStep, WriteFile, DeleteFile, EditGroup, storeVars
  <2>9. CASE Abort \/ UNCHANGED vars
    BY <2>2, <2>9 DEF Abort, storeVars, vars
  <2> QED BY <1>1, <2>5, <2>6, <2>7, <2>8, <2>9 DEF Next
<1>2. TypeOK /\ CoreInv /\ [Next]_vars => [TarsStay]_vars
  BY <1>1
<1> QED BY <1>2, TypeCorrect, CoreInductive, PTL DEF Spec, CommittedTarsKept, TarsStay
=============================================================================
