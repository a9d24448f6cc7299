-------------------------- MODULE BackupRecordProofs --------------------------
(***************************************************************************)
(* What the index of BackupStore says is so, for any number of files,      *)
(* backups and compactions: no contents are stored twice, a checksum was   *)
(* recorded of every archive, hashes are those of the archived bytes, a    *)
(* file that looks unchanged is unchanged, and a backup misses no file.    *)
(***************************************************************************)
EXTENDS BackupSafetyProofs

-----------------------------------------------------------------------------
(* What the steps of a backup do to the rows of the transaction. *)

\* Contents rows keep their hash, length and archive, and checksums stay.
RowsSame(d, e) ==
    /\ DOMAIN e.contents = DOMAIN d.contents
    /\ \A c \in DOMAIN d.contents : /\ e.contents[c].hash = d.contents[c].hash
                                    /\ e.contents[c].len = d.contents[c].len
                                    /\ e.contents[c].arc = d.contents[c].arc
    /\ e.archives = d.archives
    /\ e.coll = d.coll

\* No row of the files table but that of p is written.
OtherFiles(d, e, p) ==
    /\ DOMAIN e.files \subseteq DOMAIN d.files \cup {p}
    /\ DOMAIN d.files \subseteq DOMAIN e.files
    /\ \A q \in DOMAIN d.files \ {p} : e.files[q] = d.files[q]

\* svdb_contents_setlastreferenced leaves hash, length and archive alone.
LEMMA SetLastRows ==
    ASSUME NEW d, IsDb(d), NEW c \in DOMAIN d.contents, NEW n \in Nat
    PROVE  LET e == svdb_contents_setlastreferenced(d, c, n)
           IN  IsDb(e) /\ RowsSame(d, e) /\ e.files = d.files
<1> DEFINE f == [d.contents EXCEPT ![c].last = n]
           e == svdb_contents_setlastreferenced(d, c, n)
<1>1. d.contents[c] \in sv_content_row /\ IsPartial(d.contents, Nat, sv_content_row)
  BY DEF IsDb, IsPartial
<1>2. /\ DOMAIN f = DOMAIN d.contents
      /\ f[c] = [d.contents[c] EXCEPT !.last = n]
      /\ \A x \in DOMAIN d.contents : x # c => f[x] = d.contents[x]
  BY <1>1 DEF IsPartial
<1>3. /\ f[c].hash = d.contents[c].hash /\ f[c].len = d.contents[c].len
      /\ f[c].arc = d.contents[c].arc
  BY <1>1, <1>2 DEF sv_content_row
<1>4. e = [d EXCEPT !.contents = f]
  BY DEF svdb_contents_setlastreferenced
<1>5. e.contents = f
  BY <1>4 DEF IsDb
<1>6. IsDb(e) /\ e.archives = d.archives /\ e.coll = d.coll /\ e.files = d.files
  BY SetLastFacts
<1> HIDE DEF f, e
<1> QED BY <1>2, <1>3, <1>5, <1>6 DEF RowsSame, f, e

\* A file is queued: its row stays, is marked as seen or waits for the queue pass.
LEMMA QueueEffect ==
    ASSUME TypeOK, NEW p \in Path, QueueFile(p)
    PROVE  /\ RowsSame(txn, txn') /\ OtherFiles(txn, txn', p)
           /\ \/ p \in grp.excluded /\ txn' = txn
              \/ /\ p \in DOMAIN txn.files /\ Unchanged(p)
                 /\ p \in DOMAIN txn'.files /\ txn'.files[p].complete
                 /\ txn'.files[p].contents = txn.files[p].contents
                 /\ txn'.files[p].lmt = txn.files[p].lmt
              \/ p \in DOMAIN txn'.files /\ ~ txn'.files[p].complete
<1>0. IsDb(txn) /\ txn.coll \in Nat
  BY DbFacts
<1>1. ASSUME p \in DOMAIN txn.files PROVE txn.files[p] \in sv_file_row
  BY <1>0, <1>1 DEF IsDb, IsPartial
<1>2. CASE p \in grp.excluded /\ txn' = txn
  BY <1>2 DEF RowsSame, OtherFiles
<1>3. CASE Unchanged(p) /\ txn.files[p].contents \in DOMAIN txn.contents
             /\ txn' = svdb_contents_setlastreferenced(
                    svdb_filesupdate(txn, p, [txn.files[p] EXCEPT
                                                !.mrc = txn.coll]),
                    txn.files[p].contents, txn.coll)
  <2> DEFINE row == [txn.files[p] EXCEPT !.mrc = txn.coll]
             d == svdb_filesupdate(txn, p, row)
             c == txn.files[p].contents
  <2>1. /\ row \in sv_file_row /\ row.contents = c /\ row.complete
        /\ row.lmt = txn.files[p].lmt /\ p \in DOMAIN txn.files
    BY <1>0, <1>1, <1>3 DEF Unchanged, sv_file_row
  <2>2. /\ IsDb(d) /\ d.contents = txn.contents
        /\ DOMAIN d.files = DOMAIN txn.files \cup {p} /\ d.files[p] = row
        /\ \A q \in DOMAIN txn.files : q # p => d.files[q] = txn.files[q]
        /\ d.coll = txn.coll /\ d.archives = txn.archives
    BY <1>0, <2>1, FilesUpdateFacts
  <2>3. txn' = svdb_contents_setlastreferenced(d, c, txn.coll)
        /\ c \in DOMAIN d.contents
    BY <1>3, <2>2
  <2> HIDE DEF d, row, c
  <2>4. RowsSame(d, txn') /\ txn'.files = d.files
    BY <1>0, <2>2, <2>3, SetLastRows
  <2>5. RowsSame(txn, txn') /\ OtherFiles(txn, txn', p)
    BY <2>2, <2>4 DEF RowsSame, OtherFiles
  <2> QED BY <1>3, <2>1, <2>2, <2>4, <2>5 DEF c
<1>4. CASE p \in DOMAIN txn.files
             /\ txn' = svdb_filesupdate(txn, p, [txn.files[p] EXCEPT
                                             !.mrc = txn.coll,
                                             !.complete = FALSE])
  <2> DEFINE row == [txn.files[p] EXCEPT !.mrc = txn.coll, !.complete = FALSE]
  <2>1. row \in sv_file_row /\ row.complete = FALSE
    BY <1>0, <1>1, <1>4 DEF sv_file_row
  <2>2. txn' = svdb_filesupdate(txn, p, row)
    BY <1>4
  <2> HIDE DEF row
  <2> QED BY <1>0, <2>1, <2>2, FilesUpdateFacts DEF RowsSame, OtherFiles
<1>5. CASE txn' = svdb_filesinsert(txn, p, 0)
  <2>1. NewFileRow(0).complete = FALSE
    BY DEF NewFileRow
  <2> QED BY <1>0, <1>5, <2>1, FilesInsertFacts DEF RowsSame, OtherFiles
<1> QED BY <1>2, <1>3, <1>4, <1>5 DEF QueueFile, sv_backup_addtoqueue_cb

\* A file that cannot be opened: at most a mark on its contents.
LEMMA NoAccessEffect ==
    ASSUME TypeOK, NEW p \in Path, ProcessNoAccess(p)
    PROVE  RowsSame(txn, txn') /\ txn'.files = txn.files
<1>1. IsDb(txn) /\ txn.coll \in Nat
  BY DbFacts
<1>2. CASE txn' = txn
  BY <1>2 DEF RowsSame
<1>3. CASE /\ txn.files[p].contents \in DOMAIN txn.contents
           /\ txn' = svdb_contents_setlastreferenced(
                        txn, txn.files[p].contents, txn.coll)
  BY <1>1, <1>3, SetLastRows
<1> QED BY <1>2, <1>3 DEF ProcessNoAccess

\* The file was read and has a row for what was read, or waits to be archived.
Seen(p, h) ==
    \E c \in DOMAIN txn.contents :
        /\ txn.contents[c].hash = h /\ txn.contents[c].len = open[p].len
        /\ p \in DOMAIN txn'.files /\ txn'.files[p] = FileRow(c, p)
        /\ pc' = "process" /\ DOMAIN open' = {}

NotSeen(p, h) ==
    /\ svdb_contentsbyhash(txn, h, open[p].len) = {}
    /\ txn'.files = txn.files /\ txn'.contents = txn.contents
    /\ pc' = "add" /\ DOMAIN open' = DOMAIN open
    /\ open'[p].hash = h /\ open'[p].len = open[p].len
    /\ open'[p].data = open[p].data /\ open'[p].lmt = open[p].lmt

LEMMA HashEffect ==
    ASSUME TypeOK, NEW p \in Path, HashFile(p)
    PROVE  /\ RowsSame(txn, txn') /\ OtherFiles(txn, txn', p)
           /\ \E h \in ReadHashes(p) : Seen(p, h) \/ NotSeen(p, h)
<1>0. /\ IsDb(txn) /\ txn.coll \in Nat /\ p \in DOMAIN open /\ open[p] \in OpenFile
      /\ \A c \in DOMAIN txn.contents : c \in Nat
  BY DbFacts DEF HashFile, TypeOK, IsPartial
<1>1. PICK h \in ReadHashes(p) : HashSeen(p, h) \/ HashNew(p, h)
  BY DEF HashFile
<1>2. CASE HashSeen(p, h)
  <2>1. PICK c \in svdb_contentsbyhash(txn, h, open[p].len) :
          txn' = svdb_filesupdate(
                    svdb_contents_setlastreferenced(txn, c, txn.coll),
                    p, FileRow(c, p))
    BY <1>2 DEF HashSeen
  <2> DEFINE d == svdb_contents_setlastreferenced(txn, c, txn.coll)
  <2>2. /\ c \in DOMAIN txn.contents /\ c \in Nat
        /\ txn.contents[c].hash = h /\ txn.contents[c].len = open[p].len
    BY <1>0 DEF svdb_contentsbyhash
  <2>3. IsDb(d) /\ RowsSame(txn, d) /\ d.files = txn.files
    BY <1>0, <2>2, SetLastRows
  <2>4. FileRow(c, p) \in sv_file_row
    BY <1>0, <2>2, FileRowType
  <2>5. txn' = svdb_filesupdate(d, p, FileRow(c, p))
    BY <2>1
  <2> HIDE DEF d
  <2>6. /\ DOMAIN txn'.files = DOMAIN d.files \cup {p}
        /\ txn'.files[p] = FileRow(c, p)
        /\ \A q \in DOMAIN d.files : q # p => txn'.files[q] = d.files[q]
        /\ txn'.contents = d.contents /\ txn'.archives = d.archives
        /\ txn'.coll = d.coll
    BY <2>3, <2>4, <2>5, FilesUpdateFacts
  <2>7. RowsSame(txn, txn') /\ OtherFiles(txn, txn', p)
    BY <2>3, <2>6 DEF RowsSame, OtherFiles
  <2>8. Seen(p, h)
    BY <1>2, <2>2, <2>6, EmptyFacts DEF Seen, HashSeen
  <2> QED BY <2>7, <2>8
<1>3. CASE HashNew(p, h)
  <2>1. /\ txn'.files = txn.files /\ txn'.contents = txn.contents
        /\ txn'.archives = txn.archives /\ txn'.coll = txn.coll
    BY <1>0, <1>3, ContentsInsertFacts DEF HashNew
  <2> DEFINE o == [open[p] EXCEPT !.hash = h, !.id = txn.next]
  <2>2. open' = [open EXCEPT ![p] = o]
    BY <1>0, <1>3 DEF HashNew, TypeOK, IsPartial
  <2>3. /\ o.hash = h /\ o.len = open[p].len
        /\ o.data = open[p].data /\ o.lmt = open[p].lmt
    BY <1>0 DEF OpenFile
  <2> HIDE DEF o
  <2>4. DOMAIN open' = DOMAIN open /\ open'[p] = o
    BY <1>0, <2>2
  <2>5. NotSeen(p, h)
    BY <1>3, <2>1, <2>3, <2>4 DEF NotSeen, HashNew
  <2> QED BY <2>1, <2>5 DEF RowsSame, OtherFiles
<1> QED BY <1>1, <1>2, <1>3

\* One new contents row, with what was read of the file; the other rows stay.
NewRow(c, p, n) == [hash |-> open[p].hash, len |-> open[p].len,
                    arc |-> <<txn.coll, n>>, last |-> txn.coll]

LEMMA ArchiveEffect ==
    ASSUME TypeOK, NEW p \in Path, NEW n, ArchiveFile(p, n)
    PROVE  LET c == open[p].id
           IN  /\ DOMAIN txn'.contents = DOMAIN txn.contents \cup {c}
               /\ txn'.contents[c] = NewRow(c, p, n)
               /\ \A x \in DOMAIN txn.contents : x # c =>
                    txn'.contents[x] = txn.contents[x]
               /\ OtherFiles(txn, txn', p)
               /\ p \in DOMAIN txn'.files /\ txn'.files[p] = FileRow(c, p)
               /\ txn'.archives = txn.archives /\ txn'.coll = txn.coll
               /\ DOMAIN open' = {} /\ pc' = "process"
<1> DEFINE c == open[p].id
           row == NewRow(c, p, n)
           d == svdb_contentsupdate(txn, c, row)
<1>0. /\ IsDb(txn) /\ txn.coll \in Nat /\ n \in Nat
      /\ p \in DOMAIN open /\ open[p] \in OpenFile
  BY DbFacts DEF ArchiveFile, TypeOK, IsPartial
<1>1. txn' = svdb_filesupdate(d, p, FileRow(c, p)) /\ open' = EmptyFcn
      /\ pc' = "process"
  BY DEF ArchiveFile, NewRow
<1>2. c \in Nat /\ row \in sv_content_row
  BY <1>0 DEF ArchiveId, OpenFile, sv_content_row, NewRow
<1>3. FileRow(c, p) \in sv_file_row
  BY <1>0, <1>2, FileRowType
<1> HIDE DEF c, row
<1>4. /\ IsDb(d) /\ DOMAIN d.contents = DOMAIN txn.contents \cup {c}
      /\ d.contents[c] = row
      /\ \A x \in DOMAIN txn.contents : x # c => d.contents[x] = txn.contents[x]
      /\ d.files = txn.files /\ d.coll = txn.coll /\ d.archives = txn.archives
  BY <1>0, <1>2, ContentsUpdateFacts
<1> HIDE DEF d
<1>5. /\ DOMAIN txn'.files = DOMAIN txn.files \cup {p}
      /\ txn'.files[p] = FileRow(c, p)
      /\ \A q \in DOMAIN txn.files : q # p => txn'.files[q] = txn.files[q]
      /\ txn'.contents = d.contents /\ txn'.archives = txn.archives
      /\ txn'.coll = txn.coll
  BY <1>1, <1>3, <1>4, FilesUpdateFacts
<1>6. OtherFiles(txn, txn', p)
  BY <1>5 DEF OtherFiles
<1> QED BY <1>1, <1>4, <1>5, <1>6, EmptyFacts DEF c, row

-----------------------------------------------------------------------------
(* No contents are stored twice. *)

LEMMA UniqueRows ==
    ASSUME NEW d, NEW e, Unique(d), DOMAIN e.contents \subseteq DOMAIN d.contents,
           \A c \in DOMAIN e.contents : /\ e.contents[c].hash = d.contents[c].hash
                                        /\ e.contents[c].len = d.contents[c].len
    PROVE  Unique(e)
BY DEF Unique

LEMMA DedupInit == Init => DedupInv
BY EmptyFacts DEF Init, DedupInv, Unique, InTxn, OpenOnce, EmptyDb, BackupPhases

\* A step of a backup before the commit: the committed index and its copies stay.
LEMMA DedupTxn ==
    ASSUME DedupInv, UNCHANGED <<db, index>>, Unique(txn'), OpenOnce', pc' # "add"
    PROVE  DedupInv'
BY DEF DedupInv, Unique

LEMMA DedupBackup ==
    ASSUME TypeOK, DedupInv, BackupStep
    PROVE  DedupInv'
<1> USE DEF userVars, storeVars, walkVars, planVars, histVars, BackupPhases
<1>1. ASSUME NEW p \in Path, QueueFile(p) \/ ProcessNoAccess(p) PROVE DedupInv'
  <2>1. RowsSame(txn, txn')
    BY <1>1, QueueEffect, NoAccessEffect
  <2>2. InTxn /\ pc \notin {"hash", "add"} /\ UNCHANGED <<db, index, open, pc>>
    BY <1>1 DEF QueueFile, ProcessNoAccess, InTxn
  <2>3. Unique(txn')
    BY <2>1, <2>2, UniqueRows DEF RowsSame, DedupInv
  <2> QED BY <2>2, <2>3, DedupTxn DEF DedupInv, OpenOnce
<1>2. ASSUME NEW p \in Path, SkipFile(p) \/ ProcessNotFound(p) PROVE DedupInv'
  <2>1. InTxn /\ pc \notin {"hash", "add"} /\ UNCHANGED <<db, index, open, pc, txn>>
    BY <1>2 DEF SkipFile, ProcessNotFound, InTxn
  <2> QED BY <2>1, DedupTxn DEF DedupInv, OpenOnce
<1>3. ASSUME NEW p \in Path, ProcessOpen(p) PROVE DedupInv'
  <2>1. InTxn /\ pc' = "hash" /\ UNCHANGED <<db, index, txn>>
    BY <1>3 DEF ProcessOpen, InTxn
  <2>2. PICK o : open' = Put(EmptyFcn, p, o)
    BY <1>3 DEF ProcessOpen
  <2>3. DOMAIN open' = {p}
    BY <2>2 DEF Put, EmptyFcn
  <2> QED BY <2>1, <2>3, DedupTxn DEF DedupInv, OpenOnce
<1>4. ASSUME NEW p \in Path, HashFile(p) PROVE DedupInv'
  <2>1. /\ RowsSame(txn, txn')
        /\ \E h \in ReadHashes(p) : Seen(p, h) \/ NotSeen(p, h)
    BY <1>4, HashEffect
  <2>2. InTxn /\ UNCHANGED <<db, index>> /\ DOMAIN open = {p}
    BY <1>4 DEF HashFile, InTxn, DedupInv, OpenOnce
  <2>3. Unique(txn')
    BY <2>1, <2>2, UniqueRows DEF RowsSame, DedupInv
  <2>4. PICK h \in ReadHashes(p) : Seen(p, h) \/ NotSeen(p, h)
    BY <2>1
  <2>5. CASE Seen(p, h)
    BY <2>2, <2>3, <2>5, DedupTxn DEF Seen, OpenOnce
  <2>6. CASE NotSeen(p, h)
    <3>1. svdb_contentsbyhash(txn', open'[p].hash, open'[p].len) = {}
      BY <2>6 DEF NotSeen, svdb_contentsbyhash
    <3> QED BY <2>2, <2>3, <2>6, <3>1 DEF NotSeen, DedupInv, OpenOnce, Unique
  <2> QED BY <2>4, <2>5, <2>6
<1>5. ASSUME NEW p \in Path, NEW n, ArchiveFile(p, n) PROVE DedupInv'
  <2> DEFINE c == open[p].id
  <2>0. /\ NewRow(c, p, n).hash = open[p].hash
        /\ NewRow(c, p, n).len = open[p].len
    BY DEF NewRow
  <2>1. /\ DOMAIN txn'.contents = DOMAIN txn.contents \cup {c}
        /\ txn'.contents[c] = NewRow(c, p, n)
        /\ \A x \in DOMAIN txn.contents : x # c =>
             txn'.contents[x] = txn.contents[x]
        /\ DOMAIN open' = {} /\ pc' = "process"
    BY <1>5, ArchiveEffect
  <2>2. UNCHANGED <<db, index>> /\ Unique(txn)
        /\ svdb_contentsbyhash(txn, open[p].hash, open[p].len) = {}
    BY <1>5 DEF ArchiveFile, DedupInv, InTxn
  <2> HIDE DEF c
  <2>3. \A x \in DOMAIN txn.contents :
          ~ (txn.contents[x].hash = open[p].hash /\ txn.contents[x].len = open[p].len)
    BY <2>2 DEF svdb_contentsbyhash
  <2>4. Unique(txn')
    BY <2>0, <2>1, <2>2, <2>3 DEF Unique
  <2> QED BY <2>1, <2>2, <2>4, DedupTxn DEF OpenOnce
<1>6. CASE sv_backup_fromtextfile \/ ar_manager_begin \/ CleanReady \/ EndMove
           \/ (\E a \in DOMAIN staging : MoveTar(a))
  <2>1. /\ InTxn /\ pc \notin {"hash", "add"} /\ pc' \notin {"hash", "add"}
        /\ UNCHANGED <<db, index, open, txn>>
    BY <1>6 DEF sv_backup_fromtextfile, ar_manager_begin, CleanReady, EndMove,
                MoveTar, InTxn
  <2> QED BY <2>1, DedupTxn DEF DedupInv, OpenOnce
<1>7. CASE EndQueue
  <2>1. txn'.contents = txn.contents
    BY <1>7, DbFacts, FilesDeleteFacts DEF EndQueue
  <2>2. InTxn /\ pc = "process" /\ pc' = "clean" /\ UNCHANGED <<db, index, open>>
    BY <1>7 DEF EndQueue, InTxn
  <2>3. Unique(txn')
    BY <2>1, <2>2 DEF DedupInv, Unique
  <2> QED BY <2>2, <2>3, DedupTxn DEF DedupInv, OpenOnce
<1>8. CASE RecordAndCommit
  <2>1. db'.contents = txn.contents
    BY <1>8, CommitEffect
  <2>2. InTxn /\ pc = "sums" /\ pc' = "copydb" /\ UNCHANGED <<index, open>>
    BY <1>8 DEF RecordAndCommit, InTxn
  <2> QED BY <2>1, <2>2 DEF DedupInv, Unique, OpenOnce, InTxn
<1>9. CASE CopyDb
  <2>1. PICK d : index' = Put(index, db.coll, d) /\ d \in {db, EmptyDb}
    BY <1>9 DEF CopyDb, os_copy
  <2>2. Unique(EmptyDb)
    BY EmptyFacts DEF Unique, EmptyDb
  <2>3. \A k \in DOMAIN index' : Unique(index'[k])
    BY <2>1, <2>2 DEF DedupInv, Put
  <2>4. pc' = "idle" /\ DOMAIN open' = {} /\ db' = db
    BY <1>9, EmptyFacts DEF CopyDb, EndOperation
  <2> QED BY <2>3, <2>4 DEF DedupInv, InTxn, OpenOnce, Unique
<1> QED BY <1>1, <1>2, <1>3, <1>4, <1>5, <1>6, <1>7, <1>8, <1>9 DEF BackupStep

LEMMA DedupNext ==
    ASSUME TypeOK, DedupInv, [Next]_vars
    PROVE  DedupInv'
<1> USE DEF userVars, storeVars, walkVars, planVars, histVars, BackupPhases,
            CompactPhases
<1>1. CASE CompactStep
  <2>1. Unique(db')
    BY <1>1, CompactEffect, UniqueRows DEF DedupInv
  <2>2. /\ index' = index /\ pc' \in CompactPhases \cup {"idle"}
        /\ pc \notin {"hash", "add"}
        /\ DOMAIN open' = {} \/ open' = open
    BY <1>1, EmptyFacts DEF CompactStep, RemoveRows, StripRows, EndCompact,
            EndOperation, RemoveTar, StripTar, StripChecksum
  <2> QED BY <2>1, <2>2 DEF DedupInv, InTxn, OpenOnce
<1>2. CASE Abort
  BY <1>2, EmptyFacts DEF Abort, EndOperation, DedupInv, InTxn, OpenOnce, Unique
<1>3. CASE UserStep \/ UNCHANGED vars
  <2>1. UNCHANGED <<db, txn, index, pc, open>>
    BY <1>3 DEF UserStep, WriteFile, DeleteFile, EditGroup, EvictTar, FetchTar, vars
  <2> QED BY <2>1 DEF DedupInv, InTxn, OpenOnce, Unique
<1>4. CASE sv_backup
  <2>1. txn'.contents = db.contents
    BY <1>4, DbFacts, CollectionInsertFacts DEF sv_backup
  <2>2. pc = "idle" /\ pc' = "queue" /\ UNCHANGED <<db, index, open>>
    BY <1>4 DEF sv_backup
  <2> QED BY <2>1, <2>2 DEF DedupInv, Unique, OpenOnce
<1>5. ASSUME NEW thorough, NEW k, NEW strip, sv_compact(thorough, k, strip)
      PROVE  DedupInv'
  BY <1>5 DEF sv_compact, DedupInv, InTxn, OpenOnce, Unique
<1>6. ASSUME NEW k, sv_app_findgroupnames(k) PROVE DedupInv'
  BY <1>6 DEF sv_app_findgroupnames, DedupInv, InTxn, OpenOnce, Unique
<1>7. CASE StartStep
  BY <1>4, <1>5, <1>6, <1>7 DEF StartStep
<1> QED BY <1>1, <1>2, <1>3, <1>7, DedupBackup DEF Next

\* svdb_contentsbyhash is asked before every new row: whatever is interrupted,
\* recovered or compacted, the index never has two rows for the same contents.
THEOREM StoredOnce == Spec => []DedupUnique
<1>1. DedupInv => DedupUnique
  BY DEF DedupInv, Unique, DedupUnique
<1> QED BY <1>1, DedupInit, DedupNext, TypeCorrect, PTL DEF Spec

-----------------------------------------------------------------------------
(* A checksum was recorded of every archive, up to what was stripped of it. *)

\* What the archives of finished backups keep, in a step, of what they had.
TarsShrink ==
    \A a \in DOMAIN ready' \cup DOMAIN away' : a[1] <= db.coll =>
        /\ a \in DOMAIN ready \cup DOMAIN away
        /\ IsRestriction(Tar(a)', Tar(a))

\* No step adds to an archive of a finished backup.
LEMMA TarsOnlyShrink ==
    ASSUME TypeOK, CoreInv, AwayOnce \/ pc \notin CompactPhases, [Next]_vars
    PROVE  TarsShrink
<1> USE DEF userVars, storeVars, walkVars, planVars, histVars, BackupPhases
<1>0. \A t : IsRestriction(t, t)
  BY DEF IsRestriction
<1>1. pc \in CompactPhases => DOMAIN ready \cap DOMAIN away = {}
  BY DEF AwayOnce
<1>2. CASE UNCHANGED <<ready, away>>
  BY <1>0, <1>2 DEF TarsShrink, Tar
<1>3. CASE CleanReady
  <2>1. /\ DOMAIN ready' = {a \in DOMAIN ready : a[1] # txn.coll}
        /\ \A a \in DOMAIN ready' : ready'[a] = ready[a]
        /\ away' = away
    BY <1>3 DEF CleanReady, Drop, Restrict
  <2>2. ~ (txn.coll <= db.coll)
    BY <1>3, DbFacts DEF CleanReady, CoreInv, TxnKeeps, InTxn
  <2> QED BY <1>0, <2>1, <2>2 DEF TarsShrink, Tar
<1>4. ASSUME NEW b \in DOMAIN staging, MoveTar(b) PROVE TarsShrink
  <2>1. b[1] = db.coll + 1 /\ db.coll \in Nat
    BY <1>4, DbFacts DEF MoveTar, CoreInv, TxnTars, TxnKeeps, InTxn
  <2>2. /\ DOMAIN ready' = DOMAIN ready \cup {b} /\ away' = away
        /\ \A a \in DOMAIN ready : a # b => ready'[a] = ready[a]
    BY <1>4 DEF MoveTar, Put
  <2> QED BY <1>0, <2>1, <2>2 DEF TarsShrink, Tar
<1>5. ASSUME NEW b, RemoveTar(b) PROVE TarsShrink
  <2>1. CASE ready' = Drop(ready, {b})
    <3>1. /\ DOMAIN ready' \subseteq DOMAIN ready
          /\ \A a \in DOMAIN ready' : ready'[a] = ready[a]
      BY <2>1 DEF Drop, Restrict
    <3>2. away' = away /\ pc \in CompactPhases
      BY <1>5 DEF RemoveTar, CompactPhases
    <3> QED BY <1>0, <1>1, <3>1, <3>2 DEF TarsShrink, Tar
  <2> QED BY <1>2, <1>5, <2>1 DEF RemoveTar
<1>6. ASSUME NEW b, StripTar(b) PROVE TarsShrink
  <2>1. CASE b \in DOMAIN ready /\ ready' = Put(ready, b, Drop(ready[b], plan.strip[b]))
    <3>1. IsRestriction(Drop(ready[b], plan.strip[b]), ready[b])
      BY DEF IsRestriction, Drop, Restrict
    <3>2. /\ DOMAIN ready' = DOMAIN ready
          /\ ready'[b] = Drop(ready[b], plan.strip[b])
          /\ \A a \in DOMAIN ready : a # b => ready'[a] = ready[a]
      BY <2>1 DEF Put
    <3>3. away' = away
      BY <1>6 DEF StripTar
    <3> QED BY <1>0, <3>1, <3>2, <3>3 DEF TarsShrink, Tar
  <2> QED BY <1>2, <1>6, <2>1 DEF StripTar
<1>7. ASSUME NEW b, \/ b \in DOMAIN ready /\ EvictTar(b)
                    \/ b \in DOMAIN away /\ FetchTar(b)
      PROVE  TarsShrink
  BY <1>0, <1>7, MoveEffect DEF TarsShrink
<1>9. CASE BackupStep
  <2>1. CASE ~ (\E b \in DOMAIN staging : MoveTar(b)) /\ ~ CleanReady
    BY <1>2, <1>9, <2>1 DEF BackupStep, QueueFile, SkipFile, ProcessNoAccess,
       ProcessNotFound, ProcessOpen, HashFile, ArchiveFile, sv_backup_fromtextfile,
       ar_manager_begin, EndQueue, EndMove, RecordAndCommit, CopyDb
  <2> QED BY <1>3, <1>4, <2>1
<1>10. CASE CompactStep
  <2>1. CASE RemoveRows \/ StripRows \/ EndCompact \/ \E a \in stripped : StripChecksum(a)
    BY <1>2, <2>1 DEF RemoveRows, StripRows, EndCompact, StripChecksum
  <2> QED BY <1>5, <1>6, <1>10, <2>1 DEF CompactStep
<1>11. CASE UserStep
  <2>1. CASE (\E p \in Path : (\E d \in Data : WriteFile(p, d)) \/ DeleteFile(p))
             \/ \E g \in GroupChoices : EditGroup(g)
    BY <1>2, <2>1 DEF WriteFile, DeleteFile, EditGroup
  <2> QED BY <1>7, <1>11, <2>1 DEF UserStep
<1>12. CASE StartStep
  BY <1>2, <1>12 DEF StartStep, sv_backup, sv_compact, sv_app_findgroupnames
<1>13. CASE Abort \/ UNCHANGED vars
  BY <1>2, <1>13 DEF Abort, vars
<1> QED BY <1>9, <1>10, <1>11, <1>12, <1>13 DEF Next

LEMMA VerifyNext ==
    ASSUME KeepsIndex, TypeOK, CoreInv, AwayOnce, VerifyInv, [Next]_vars
    PROVE  VerifyInv'
<1> USE DEF userVars, storeVars, walkVars, planVars, histVars, BackupPhases,
            CompactPhases
<1>1. ASSUME db.archives \subseteq db'.archives, db'.coll = db.coll,
             InTxn' => txn'.archives = db'.archives
      PROVE  VerifyInv'
  <2>1. ASSUME NEW a \in DOMAIN ready' \cup DOMAIN away', a[1] <= db.coll
        PROVE  \E r \in db'.archives : r.arc = a /\ IsRestriction(Tar(a)', r.sum)
    <3>1. a \in DOMAIN ready \cup DOMAIN away /\ IsRestriction(Tar(a)', Tar(a))
      BY <2>1, TarsOnlyShrink DEF TarsShrink
    <3>2. PICK r \in db.archives : r.arc = a /\ IsRestriction(Tar(a), r.sum)
      BY <2>1, <3>1 DEF VerifyInv
    <3>3. IsRestriction(Tar(a)', r.sum)
      BY <3>1, <3>2 DEF IsRestriction
    <3> QED BY <1>1, <3>2, <3>3
  <2> QED BY <1>1, <2>1 DEF VerifyInv
<1>2. CASE RecordAndCommit
  <2>0. /\ pc = "sums" /\ pc' = "copydb" /\ UNCHANGED <<ready, away>>
        /\ db.coll \in Nat /\ txn.coll = db.coll + 1 /\ InTxn
    BY <1>2, DbFacts DEF RecordAndCommit, CoreInv, TxnKeeps, InTxn
  <2>1. /\ db'.coll = txn.coll
        /\ db'.archives = db.archives \cup
             {[arc |-> a, needed |-> TRUE, sum |-> ready[a]] :
                     a \in {b \in DOMAIN ready : b[1] = txn.coll}}
    BY <1>2, <2>0, CommitEffect DEF VerifyInv
  <2>2. ASSUME NEW a \in DOMAIN ready \cup DOMAIN away, a[1] <= txn.coll
        PROVE  \E r \in db'.archives : r.arc = a /\ IsRestriction(Tar(a), r.sum)
    <3>0. a[1] \in Nat
      BY ArcFacts
    <3>1. CASE a[1] <= db.coll
      BY <2>1, <3>1 DEF VerifyInv
    <3>2. CASE ~ (a[1] <= db.coll)
      <4>1. a[1] = txn.coll /\ a \in DOMAIN ready
        BY <2>0, <2>2, <3>0, <3>2 DEF AwayOnce
      <4> DEFINE r == [arc |-> a, needed |-> TRUE, sum |-> ready[a]]
      <4>2. r \in db'.archives /\ r.arc = a /\ r.sum = Tar(a)
        BY <2>1, <4>1 DEF Tar
      <4>3. IsRestriction(Tar(a), Tar(a))
        BY DEF IsRestriction
      <4> QED BY <4>2, <4>3
    <3> QED BY <3>1, <3>2
  <2> QED BY <2>0, <2>1, <2>2 DEF VerifyInv, InTxn, Tar
<1>3. CASE CompactStep
  <2>1. ~ InTxn'
    BY <1>3 DEF CompactStep, RemoveRows, StripRows, EndCompact, EndOperation,
       RemoveTar, StripTar, StripChecksum, InTxn
  <2> QED BY <1>1, <1>3, <2>1, CompactEffect
<1>4. CASE db' = db /\ (InTxn' => txn'.archives = db.archives)
  BY <1>1, <1>4
<1>5. CASE BackupStep
  <2>1. ASSUME NEW p \in Path, QueueFile(p) \/ ProcessNoAccess(p) \/ HashFile(p)
        PROVE  db' = db /\ txn'.archives = db.archives
    <3>1. txn'.archives = txn.archives
      BY <2>1, QueueEffect, NoAccessEffect, HashEffect DEF RowsSame
    <3>2. InTxn /\ db' = db
      BY <2>1 DEF QueueFile, ProcessNoAccess, HashFile, InTxn
    <3> QED BY <3>1, <3>2 DEF VerifyInv
  <2>2. ASSUME NEW p \in Path, NEW n, ArchiveFile(p, n)
        PROVE  db' = db /\ txn'.archives = db.archives
    <3>1. txn'.archives = txn.archives
      BY <2>2, ArchiveEffect
    <3>2. InTxn /\ db' = db
      BY <2>2 DEF ArchiveFile, InTxn
    <3> QED BY <3>1, <3>2 DEF VerifyInv
  <2>3. ASSUME EndQueue PROVE db' = db /\ txn'.archives = db.archives
    <3>1. txn'.archives = txn.archives
      BY <2>3, DbFacts, FilesDeleteFacts DEF EndQueue
    <3> QED BY <2>3, <3>1 DEF EndQueue, InTxn, VerifyInv
  <2>4. CASE CopyDb
    BY <1>4, <2>4 DEF CopyDb, EndOperation, InTxn
  <2>5. CASE \/ \E p \in Path : SkipFile(p) \/ ProcessNotFound(p) \/ ProcessOpen(p)
             \/ sv_backup_fromtextfile \/ ar_manager_begin \/ CleanReady \/ EndMove
             \/ \E a \in DOMAIN staging : MoveTar(a)
    <3>1. InTxn /\ db' = db /\ txn' = txn
      BY <2>5 DEF SkipFile, ProcessNotFound, ProcessOpen, sv_backup_fromtextfile,
         ar_manager_begin, CleanReady, EndMove, MoveTar, InTxn
    <3> QED BY <1>4, <3>1 DEF VerifyInv
  <2> QED BY <1>2, <1>4, <1>5, <2>1, <2>2, <2>3, <2>4, <2>5 DEF BackupStep
<1>6. CASE UserStep \/ Abort \/ UNCHANGED vars
  <2>1. db' = db /\ (InTxn' => InTxn /\ txn' = txn)
    BY <1>6 DEF UserStep, WriteFile, DeleteFile, EditGroup, EvictTar, FetchTar,
       Abort, EndOperation, vars, InTxn
  <2> QED BY <1>4, <2>1 DEF VerifyInv
<1>7. CASE StartStep
  <2>1. ASSUME sv_backup PROVE db' = db /\ txn'.archives = db.archives
    BY <2>1, DbFacts, CollectionInsertFacts DEF sv_backup
  <2>2. ASSUME NEW thorough, NEW k, NEW strip, sv_compact(thorough, k, strip)
        PROVE  db' = db /\ ~ InTxn'
    BY <2>2 DEF sv_compact, InTxn
  <2>3. ASSUME NEW k, sv_app_findgroupnames(k) PROVE FALSE
    BY <2>3 DEF sv_app_findgroupnames, KeepsIndex
  <2> QED BY <1>4, <1>7, <2>1, <2>2, <2>3 DEF StartStep
<1> QED BY <1>3, <1>5, <1>6, <1>7 DEF Next

\* While the main index is not lost, and with either compaction: a finished archive
\* that fails verification is what a compaction was about to record when it was
\* interrupted.
THEOREM FailuresExplained ==
    ASSUME KeepsIndex
    PROVE  Spec => []VerifyExplained
<1>1. VerifyInv => VerifyExplained
  <2> SUFFICES ASSUME VerifyInv, NEW a \in DOMAIN ready, a[1] <= db.coll
               PROVE  \E r \in svdb_archives_get_checksums(db, a) :
                         IsRestriction(ready[a], r.sum)
    BY DEF VerifyExplained
  <2> QED BY DEF VerifyInv, Tar, svdb_archives_get_checksums
<1>2. Init => VerifyInv
  BY EmptyFacts DEF Init, VerifyInv, InTxn, BackupPhases
<1> QED BY <1>1, <1>2, VerifyNext, TypeCorrect, CoreInductive, AwayInductive, PTL
        DEF Spec

-----------------------------------------------------------------------------
(* The hash of a row is that of the bytes in the archive. *)

\* Either no lost index is replaced by a copy, or no archive is removed.
Settles == (KeepsIndex /\ AwayOnce) \/ (KeepsAll /\ Hoarded)

\* What is left in the archives of a committed row is as it was.
LEMMA RowStays ==
    ASSUME TypeOK, CoreInv, Settles, [Next]_vars,
           NEW c, NEW a, a[1] <= db.coll, c \in DOMAIN Tar(a)'
    PROVE  c \in DOMAIN Tar(a) /\ Tar(a)'[c] = Tar(a)[c]
<1>1. a \in DOMAIN ready' \cup DOMAIN away'
  BY EmptyFacts DEF Tar
<1>2. IsRestriction(Tar(a)', Tar(a))
  BY <1>1, TarsOnlyShrink DEF TarsShrink, Settles, Hoarded
<1> QED BY <1>2 DEF IsRestriction

\* So the rows that are left have the right hashes ...
LEMMA MatchKept ==
    ASSUME TypeOK, CoreInv, Settles, RowsMatch(db), [Next]_vars,
           DOMAIN db'.contents \subseteq DOMAIN db.contents,
           \A c \in DOMAIN db'.contents : db'.contents[c] = db.contents[c]
    PROVE  RowsMatch(db)'
<1> SUFFICES ASSUME NEW c \in DOMAIN db'.contents, NEW a, a = db'.contents[c].arc,
                    c \in DOMAIN Tar(a)'
             PROVE  TrueHash(db'.contents[c].hash, Tar(a)'[c])
  BY DEF RowsMatch
<1>1. /\ c \in DOMAIN db.contents /\ a = db.contents[c].arc /\ a[1] <= db.coll
      /\ db'.contents[c].hash = db.contents[c].hash
  BY DEF CoreInv, CommittedRows, RowIds
<1>2. c \in DOMAIN Tar(a) /\ Tar(a)'[c] = Tar(a)[c]
  BY <1>1, RowStays
<1> QED BY <1>1, <1>2 DEF RowsMatch

\* ... and those of the copies of the index.
LEMMA CopiesKept ==
    ASSUME TypeOK, CoreInv, Settles, CopiesMatch, [Next]_vars, UNCHANGED index
    PROVE  CopiesMatch'
<1> SUFFICES ASSUME "lose_index" \in Events, NEW k \in DOMAIN index,
                    NEW c \in DOMAIN index[k].contents,
                    NEW a, a = index[k].contents[c].arc, c \in DOMAIN Tar(a)'
             PROVE  TrueHash(index[k].contents[c].hash, Tar(a)'[c])
  BY DEF CopiesMatch, RowsMatch
<1>1. a[1] <= index[k].coll /\ index[k].coll = k /\ k <= db.coll
  BY DEF CoreInv, CommittedRows, RowIds, Settles, KeepsIndex, Hoarded
<1>2. a[1] \in Nat /\ k \in Nat /\ db.coll \in Nat
  <2>1. IsDb(index[k]) /\ k \in Nat
    BY DEF TypeOK, IsIndex
  <2>2. a \in ArchiveId
    BY <2>1 DEF IsDb, IsPartial, sv_content_row
  <2> QED BY <2>1, <2>2, DbFacts DEF ArchiveId
<1>3. a[1] <= db.coll
  BY <1>1, <1>2
<1>4. c \in DOMAIN Tar(a) /\ Tar(a)'[c] = Tar(a)[c]
  BY <1>3, RowStays
<1> QED BY <1>4 DEF CopiesMatch, RowsMatch

\* Members of the archives of a row of the transaction that the index lacks.
LEMMA NewRowArc ==
    ASSUME CoreInv, InTxn, NEW c \in DOMAIN txn.contents \ DOMAIN db.contents
    PROVE  InNewTar(c) /\ txn.contents[c].arc[1] = txn.coll
BY DEF CoreInv, TxnTars, InNewTar

\* A step that changes no archive and no file, and of the rows at most the marks.
LEMMA MatchQuiet ==
    ASSUME CoreInv, MatchInv, (RowsMatch(db) /\ CopiesMatch)', RowsSame(txn, txn'),
           UNCHANGED <<db, staging, ready>>, InTxn, InTxn',
           pc' \in {"move", "sums"} => pc \in {"move", "sums"},
           pc \in {"queue", "manual"} => pc' \in {"queue", "manual"},
           \A p \in DOMAIN open' :
              /\ p \in DOMAIN disk' /\ disk'[p].data = open'[p].data
              /\ pc' = "add" => TrueHash(open'[p].hash, open'[p].data)
    PROVE  MatchInv'
<1>1. NewMatch'
  <2>1. CASE pc \in {"queue", "manual"}
    BY <2>1 DEF NewMatch
  <2>2. CASE pc \notin {"queue", "manual"}
    <3>1. \A c \in DOMAIN txn.contents : txn'.contents[c].hash = txn.contents[c].hash
                                         /\ txn'.contents[c].arc = txn.contents[c].arc
      BY DEF RowsSame
    <3>2. DOMAIN txn'.contents = DOMAIN txn.contents
      BY DEF RowsSame
    <3>3. pc \in {"process", "hash", "add", "clean", "move", "sums"}
      BY <2>2 DEF InTxn, BackupPhases
    <3> QED BY <3>1, <3>2, <3>3 DEF MatchInv, NewMatch
  <2> QED BY <2>1, <2>2
<1>2. \A c \in DOMAIN db.contents : txn'.contents[c].hash = db.contents[c].hash
  BY DEF CoreInv, TxnKeeps, MatchInv, RowsSame
<1> QED BY <1>1, <1>2 DEF MatchInv

LEMMA MatchBackup ==
    ASSUME TypeOK, CoreInv, Settles, MatchInv, BackupStep
    PROVE  MatchInv'
<1> USE DEF userVars, storeVars, walkVars, planVars, histVars, BackupPhases
<1>0. [Next]_vars
  BY DEF Next
<1>1. ASSUME UNCHANGED <<db, index>> PROVE (RowsMatch(db) /\ CopiesMatch)'
  BY <1>0, <1>1, MatchKept, CopiesKept DEF MatchInv
<1>2. ASSUME UNCHANGED <<db, index, txn, staging, ready, disk, open>>, InTxn, InTxn',
             pc \notin {"hash", "add"}, pc' \notin {"hash", "add"},
             pc' \in {"move", "sums"} => pc \in {"move", "sums"},
             pc \in {"queue", "manual"} => pc' \in {"queue", "manual"}
      PROVE  MatchInv'
  BY <1>1, <1>2, MatchQuiet DEF RowsSame, MatchInv
<1>3. ASSUME NEW p \in Path, QueueFile(p) \/ ProcessNoAccess(p) PROVE MatchInv'
  <2>1. RowsSame(txn, txn')
    BY <1>3, QueueEffect, NoAccessEffect
  <2>2. /\ InTxn /\ pc \in {"queue", "manual", "process"}
        /\ UNCHANGED <<db, index, staging, ready, disk, open, pc>>
    BY <1>3 DEF QueueFile, ProcessNoAccess, InTxn
  <2> QED BY <1>1, <2>1, <2>2, MatchQuiet DEF MatchInv, InTxn
<1>4. ASSUME NEW p \in Path, SkipFile(p) \/ ProcessNotFound(p) PROVE MatchInv'
  BY <1>2, <1>4 DEF SkipFile, ProcessNotFound, InTxn
<1>5. ASSUME NEW p \in Path, ProcessOpen(p) PROVE MatchInv'
  <2>1. /\ p \in DOMAIN disk /\ pc = "process" /\ pc' = "hash"
        /\ UNCHANGED <<db, index, txn, staging, ready, disk>>
    BY <1>5 DEF ProcessOpen
  <2>2. DOMAIN open' = {p} /\ open'[p].data = disk[p].data
    BY <1>5 DEF ProcessOpen, Put, EmptyFcn
  <2> QED BY <1>1, <2>1, <2>2, MatchQuiet DEF RowsSame, InTxn
<1>6. ASSUME NEW p \in Path, HashFile(p) PROVE MatchInv'
  <2>1. PICK h \in ReadHashes(p) : Seen(p, h) \/ NotSeen(p, h)
    BY <1>6, HashEffect
  <2>2. /\ pc = "hash" /\ DOMAIN open = {p} /\ p \in DOMAIN disk
        /\ UNCHANGED <<db, index, staging, ready, disk>>
        /\ disk[p].data = open[p].data
    BY <1>6 DEF HashFile, CoreInv, OpenOnce, MatchInv
  <2>3. TrueHash(h, open[p].data)
    <3>1. Readable(p) = {open[p].data}
      BY <2>2 DEF Readable
    <3> QED BY <2>1, <2>2, <3>1 DEF ReadHashes, TrueHash, Describes
  <2>4. RowsSame(txn, txn')
    BY <1>6, HashEffect
  <2> QED BY <1>1, <2>1, <2>2, <2>3, <2>4, MatchQuiet DEF Seen, NotSeen, InTxn
<1>7. ASSUME NEW p \in Path, NEW n \in {archnum, archnum + 1}, ArchiveFile(p, n)
      PROVE  MatchInv'
  <2> DEFINE c == open[p].id
             a == <<txn.coll, n>>
             t == IF a \in DOMAIN staging THEN staging[a] ELSE EmptyFcn
  <2>1. /\ DOMAIN txn'.contents = DOMAIN txn.contents \cup {c}
        /\ txn'.contents[c] = NewRow(c, p, n)
        /\ \A x \in DOMAIN txn.contents : x # c =>
             txn'.contents[x] = txn.contents[x]
        /\ DOMAIN open' = {} /\ pc' = "process"
    BY <1>7, ArchiveEffect
  <2>2. NewRow(c, p, n).hash = open[p].hash /\ NewRow(c, p, n).arc = a
    BY DEF NewRow
  <2>3. /\ staging' = Put(staging, a, Put(t, c, disk[p].data))
        /\ UNCHANGED <<db, index, ready, disk>> /\ pc = "add" /\ p \in DOMAIN open
    BY <1>7 DEF ArchiveFile
  <2>4. disk[p].data = open[p].data /\ TrueHash(open[p].hash, open[p].data)
    BY <2>3 DEF MatchInv
  <2>5. c \notin DOMAIN txn.contents /\ DOMAIN db.contents \subseteq DOMAIN txn.contents
    BY <2>3 DEF CoreInv, TxnFiles, TxnKeeps, InTxn
  <2>6. a \notin DOMAIN staging => DOMAIN t = {}
    BY EmptyFacts
  <2>7. a \in DOMAIN staging => t = staging[a]
    OBVIOUS
  <2> HIDE DEF c, a, t
  <2>8. /\ DOMAIN staging' = DOMAIN staging \cup {a}
        /\ DOMAIN staging'[a] = DOMAIN t \cup {c}
        /\ staging'[a][c] = disk[p].data
        /\ \A x \in DOMAIN t : x # c => staging'[a][x] = t[x]
        /\ \A b \in DOMAIN staging : b # a => staging'[b] = staging[b]
    BY <2>3 DEF Put
  <2>9. ASSUME NEW x \in DOMAIN txn'.contents \ DOMAIN db.contents,
               NEW b, b = txn'.contents[x].arc, b \in DOMAIN staging',
               x \in DOMAIN staging'[b]
        PROVE  TrueHash(txn'.contents[x].hash, staging'[b][x])
    <3>1. CASE x = c
      BY <2>1, <2>2, <2>4, <2>8, <2>9, <3>1
    <3>2. CASE x # c
      <4>1. x \in DOMAIN txn.contents /\ txn'.contents[x] = txn.contents[x]
        BY <2>1, <3>2
      <4>2. b \in DOMAIN staging /\ x \in DOMAIN staging[b]
            /\ staging'[b][x] = staging[b][x]
        BY <2>6, <2>7, <2>8, <2>9, <3>2
      <4>3. TrueHash(txn.contents[x].hash, staging[b][x])
        BY <2>3, <2>9, <4>1, <4>2 DEF MatchInv, NewMatch
      <4> QED BY <4>1, <4>2, <4>3
    <3> QED BY <3>1, <3>2
  <2>10. NewMatch'
    BY <2>1, <2>3, <2>9 DEF NewMatch
  <2>11. \A x \in DOMAIN db.contents : txn'.contents[x].hash = db.contents[x].hash
    BY <2>1, <2>3, <2>5 DEF MatchInv, InTxn
  <2> QED BY <1>1, <2>1, <2>3, <2>10, <2>11 DEF MatchInv
<1>8. CASE sv_backup_fromtextfile \/ EndMove
  BY <1>2, <1>8 DEF sv_backup_fromtextfile, EndMove, InTxn
<1>9. CASE ar_manager_begin
  <2>1. /\ DOMAIN staging' = {} /\ pc = "manual" /\ pc' = "process"
        /\ UNCHANGED <<db, index, txn, disk, open>>
    BY <1>9, EmptyFacts DEF ar_manager_begin
  <2> QED BY <1>1, <2>1 DEF MatchInv, NewMatch, InTxn
<1>10. CASE EndQueue
  <2>1. RowsSame(txn, txn')
    BY <1>10, DbFacts, FilesDeleteFacts DEF EndQueue, RowsSame
  <2>2. /\ pc = "process" /\ pc' = "clean" /\ UNCHANGED <<db, index, staging, ready, disk, open>>
    BY <1>10 DEF EndQueue
  <2> QED BY <1>1, <2>1, <2>2, MatchQuiet DEF MatchInv, InTxn
<1>11. CASE CleanReady
  <2>1. /\ \A a \in DOMAIN ready' : a[1] # txn.coll
        /\ pc = "clean" /\ pc' = "move"
        /\ UNCHANGED <<db, index, txn, staging, disk, open>>
    BY <1>11 DEF CleanReady, Drop, Restrict
  <2>2. \A c \in DOMAIN txn.contents \ DOMAIN db.contents :
          txn.contents[c].arc \notin DOMAIN ready'
    BY <2>1, NewRowArc DEF InTxn
  <2>3. NewMatch'
    BY <2>1, <2>2 DEF MatchInv, NewMatch
  <2> QED BY <1>1, <2>1, <2>3 DEF MatchInv, InTxn
<1>12. ASSUME NEW a \in DOMAIN staging, MoveTar(a) PROVE MatchInv'
  <2>1. /\ DOMAIN ready' = DOMAIN ready \cup {a} /\ ready'[a] = staging[a]
        /\ \A b \in DOMAIN ready : b # a => ready'[b] = ready[b]
        /\ DOMAIN staging' = DOMAIN staging \ {a}
        /\ \A b \in DOMAIN staging' : staging'[b] = staging[b]
    BY <1>12 DEF MoveTar, Put, Drop, Restrict
  <2>2. /\ pc = "move" /\ pc' = "move" /\ UNCHANGED <<db, index, txn, disk, open>>
    BY <1>12 DEF MoveTar
  <2>3. NewMatch'
    BY <2>1, <2>2 DEF MatchInv, NewMatch
  <2> QED BY <1>1, <2>2, <2>3 DEF MatchInv, InTxn
<1>13. CASE RecordAndCommit
  <2>1. /\ db'.contents = txn.contents /\ pc = "sums" /\ pc' = "copydb"
        /\ UNCHANGED <<index, ready, away, disk, open>> /\ InTxn
    BY <1>13, CommitEffect DEF RecordAndCommit, InTxn
  <2>2. ASSUME NEW c \in DOMAIN txn.contents, NEW a, a = txn.contents[c].arc,
               c \in DOMAIN Tar(a)
        PROVE  TrueHash(txn.contents[c].hash, Tar(a)[c])
    <3>1. CASE c \in DOMAIN db.contents
      <4>1. /\ txn.contents[c].arc = db.contents[c].arc
            /\ txn.contents[c].hash = db.contents[c].hash
        BY <2>1, <3>1 DEF CoreInv, TxnKeeps, MatchInv
      <4> QED BY <2>2, <3>1, <4>1 DEF MatchInv, RowsMatch
    <3>2. CASE c \notin DOMAIN db.contents
      <4>1. a \notin DOMAIN staging /\ a \in DOMAIN ready /\ c \in DOMAIN ready[a]
        BY <2>1, <2>2, <3>2, NewRowArc DEF InNewTar, CoreInv, TxnTars
      <4> QED BY <2>1, <2>2, <3>2, <4>1 DEF MatchInv, NewMatch, Tar
    <3> QED BY <3>1, <3>2
  <2>3. RowsMatch(db)'
    BY <2>1, <2>2 DEF RowsMatch, Tar
  <2>4. CopiesMatch'
    BY <1>0, <2>1, CopiesKept DEF MatchInv
  <2> QED BY <2>1, <2>3, <2>4 DEF MatchInv, NewMatch, InTxn
<1>14. CASE CopyDb
  <2>1. PICK d \in {db, EmptyDb} :
          /\ DOMAIN index' = DOMAIN index \cup {db.coll}
          /\ index'[db.coll] = d
          /\ \A k \in DOMAIN index : k # db.coll => index'[k] = index[k]
    BY <1>14, CopyEffect
  <2>2. UNCHANGED <<db, ready, away>> /\ pc' = "idle" /\ DOMAIN open' = {}
    BY <1>14, EndIdle DEF CopyDb
  <2>3. RowsMatch(EmptyDb)' /\ RowsMatch(db)'
    BY <2>2, EmptyFacts DEF RowsMatch, EmptyDb, MatchInv, Tar
  <2>4. CopiesMatch'
    BY <2>1, <2>2, <2>3 DEF CopiesMatch, MatchInv, RowsMatch, Tar
  <2> QED BY <2>2, <2>3, <2>4 DEF MatchInv, NewMatch, InTxn
<1> QED BY <1>3, <1>4, <1>5, <1>6, <1>7, <1>8, <1>9, <1>10, <1>11, <1>12, <1>13,
           <1>14 DEF BackupStep

LEMMA MatchNext ==
    ASSUME Undisturbed, TypeOK, CoreInv, Settles, MatchInv, [Next]_vars
    PROVE  MatchInv'
<1> USE DEF userVars, storeVars, walkVars, planVars, histVars, BackupPhases,
            CompactPhases
<1>1. ASSUME UNCHANGED <<db, index>> PROVE (RowsMatch(db) /\ CopiesMatch)'
  BY <1>1, MatchKept, CopiesKept DEF MatchInv
<1>2. ASSUME (RowsMatch(db) /\ CopiesMatch)', ~ InTxn', DOMAIN open' = {}
      PROVE  MatchInv'
  BY <1>2 DEF MatchInv, NewMatch, InTxn
<1>3. CASE CompactStep
  <2>1. /\ ~ InTxn' /\ (DOMAIN open' = {} \/ open' = open)
        /\ pc \notin {"hash", "add"} /\ UNCHANGED index
    BY <1>3, EmptyFacts DEF CompactStep, RemoveRows, StripRows, EndCompact,
       EndOperation, RemoveTar, StripTar, StripChecksum, InTxn
  <2>2. DOMAIN open' = {}
    BY <2>1 DEF CoreInv, OpenOnce
  <2>3. (RowsMatch(db) /\ CopiesMatch)'
    BY <1>3, <2>1, CompactEffect, MatchKept, CopiesKept DEF MatchInv
  <2> QED BY <1>2, <2>1, <2>2, <2>3
<1>4. CASE Abort
  BY <1>1, <1>2, <1>4, EndIdle DEF Abort, InTxn
<1>5. ASSUME NEW p \in Path,
             (\E d \in Data : WriteFile(p, d)) \/ DeleteFile(p)
      PROVE  MatchInv'
  <2>1. /\ UNCHANGED <<db, index, txn, staging, ready, away, pc, open>>
        /\ \A q \in DOMAIN disk : q # p => q \in DOMAIN disk' /\ disk'[q] = disk[q]
    BY <1>5 DEF WriteFile, DeleteFile, Put, Drop, Restrict
  <2>2. p \notin DOMAIN open
    BY <1>5 DEF WriteFile, DeleteFile, MayEdit, Undisturbed, CoreInv, OpenOnce
  <2> QED BY <1>1, <2>1, <2>2 DEF MatchInv, NewMatch, InTxn
<1>6. ASSUME NEW a, \/ a \in DOMAIN ready /\ EvictTar(a)
                    \/ a \in DOMAIN away /\ FetchTar(a)
      PROVE  MatchInv'
  <2>1. /\ UNCHANGED <<db, index, txn, staging, disk, pc, open>>
        /\ \A b \in DOMAIN ready : ~ (b[1] <= db.coll) =>
              b \in DOMAIN ready' /\ ready'[b] = ready[b]
    BY <1>6, MoveEffect
  <2>2. ASSUME NewMatch, pc \in {"process", "hash", "add", "clean", "move", "sums"},
               NEW c \in DOMAIN txn.contents \ DOMAIN db.contents
        PROVE  txn.contents[c].arc \in DOMAIN staging
                 \/ /\ txn.contents[c].arc \in DOMAIN ready
                    /\ txn.contents[c].arc \in DOMAIN ready'
                    /\ ready'[txn.contents[c].arc] = ready[txn.contents[c].arc]
    <3>1. InTxn
      BY <2>2 DEF InTxn
    <3>2. InNewTar(c) /\ txn.contents[c].arc[1] = txn.coll
      BY <2>2, <3>1, NewRowArc
    <3>3. ~ (txn.coll <= db.coll)
      BY <3>1, DbFacts DEF CoreInv, TxnKeeps
    <3> QED BY <2>1, <3>2, <3>3 DEF InNewTar
  <2>3. NewMatch'
    BY <2>1, <2>2 DEF MatchInv, NewMatch
  <2> QED BY <1>1, <2>1, <2>3 DEF MatchInv, InTxn
<1>7. ASSUME NEW g, EditGroup(g) PROVE MatchInv'
  BY <1>1, <1>7 DEF EditGroup, MatchInv, NewMatch, InTxn
<1>8. CASE UserStep
  BY <1>5, <1>6, <1>7, <1>8 DEF UserStep
<1>9. CASE sv_backup
  <2>1. txn'.contents = db.contents
    BY <1>9, DbFacts, CollectionInsertFacts DEF sv_backup
  <2>2. pc = "idle" /\ pc' = "queue" /\ UNCHANGED <<db, index>> /\ DOMAIN open' = {}
    BY <1>9 DEF sv_backup, CoreInv, OpenOnce
  <2> QED BY <1>1, <2>1, <2>2 DEF MatchInv, NewMatch
<1>10. ASSUME NEW thorough, NEW k, NEW strip, sv_compact(thorough, k, strip)
       PROVE  MatchInv'
  <2>1. UNCHANGED <<db, index>> /\ ~ InTxn' /\ DOMAIN open' = {}
    BY <1>10 DEF sv_compact, InTxn, CoreInv, OpenOnce
  <2> QED BY <1>1, <1>2, <2>1
<1>11. ASSUME NEW k, sv_app_findgroupnames(k) PROVE MatchInv'
  <2>1. /\ "lose_index" \in Events /\ k \in DOMAIN index /\ db' = index[k]
        /\ UNCHANGED <<index, ready, away, open>> /\ pc = "idle" /\ pc' = "idle"
    BY <1>11 DEF sv_app_findgroupnames
  <2>2. RowsMatch(db)' /\ CopiesMatch'
    BY <2>1 DEF MatchInv, CopiesMatch, RowsMatch, Tar
  <2> QED BY <1>2, <2>1, <2>2 DEF InTxn, CoreInv, OpenOnce
<1>12. CASE StartStep
  BY <1>9, <1>10, <1>11, <1>12 DEF StartStep
<1>13. CASE UNCHANGED vars
  BY <1>1, <1>13 DEF vars, MatchInv, NewMatch, InTxn
<1> QED BY <1>3, <1>4, <1>8, <1>12, <1>13, MatchBackup DEF Next

\* When nobody can write to an open file, every member of an archive has the hash
\* of its row: whatever is compacted and moved, while the main index is not lost,
\* and whatever is lost, while nobody compacts.
THEOREM HashesMatch ==
    ASSUME Undisturbed, KeepsIndex \/ KeepsAll
    PROVE  Spec => []ContentsMatchHash
<1>1. MatchInv => ContentsMatchHash
  BY DEF MatchInv, RowsMatch, ContentsMatchHash
<1>2. Init => MatchInv
  BY EmptyFacts DEF Init, MatchInv, RowsMatch, CopiesMatch, NewMatch, InTxn, EmptyDb,
     BackupPhases
<1>3. CASE KeepsIndex
  <2>1. AwayOnce => Settles
    BY <1>3 DEF Settles
  <2> QED BY <1>1, <1>2, <1>3, <2>1, MatchNext, TypeCorrect, CoreInductive,
             AwayInductive, PTL DEF Spec
<1>4. CASE KeepsAll
  <2>1. HoardInv => CoreInv /\ Settles
    BY <1>4 DEF Settles, HoardInv
  <2> QED BY <1>1, <1>2, <1>4, <2>1, MatchNext, TypeCorrect, HoardInductive, PTL
          DEF Spec
<1> QED BY <1>3, <1>4

-----------------------------------------------------------------------------
(* A file that looks unchanged is unchanged. *)

\* A write gives a later time, or marks the file as written twice in its second.
LEMMA TimesAge ==
    ASSUME TypeOK, \A q \in DOMAIN disk : disk[q].lmt <= clock,
           NEW q \in Path, (\E d \in Data : WriteFile(q, d)) \/ DeleteFile(q)
    PROVE  /\ \A p \in DOMAIN disk' : disk'[p].lmt <= clock'
           /\ \A lmt \in Nat : \A p : NotAhead(lmt, p) =>
                /\ NotAhead(lmt, p)'
                /\ Settled(lmt, p)' => Settled(lmt, p) /\ disk'[p] = disk[p]
<1>1. clock \in Nat /\ \A p \in DOMAIN disk : disk[p].lmt \in Nat
  BY DEF TypeOK, IsPartial, FileOnDisk
<1>2. CASE DeleteFile(q)
  <2>1. /\ clock' = clock + 1 /\ DOMAIN disk' = DOMAIN disk \ {q}
        /\ \A p \in DOMAIN disk' : disk'[p] = disk[p]
    BY <1>2 DEF DeleteFile, Drop, Restrict
  <2> QED BY <1>1, <2>1 DEF NotAhead, Settled
<1>3. CASE \E d \in Data : WriteFile(q, d)
  <2>0. PICK d \in Data : WriteFile(q, d)
    BY <1>3
  <2> DEFINE file == [data |-> d, lmt |-> clock',
                      twice |-> q \in DOMAIN disk /\ disk[q].lmt = clock']
  <2>1. disk' = Put(disk, q, file) /\ (clock' = clock + 1 \/ clock' = clock)
    BY <2>0 DEF WriteFile
  <2>2. file.lmt = clock' /\ file.twice = (q \in DOMAIN disk /\ disk[q].lmt = clock')
    OBVIOUS
  <2> HIDE DEF file
  <2>3. /\ DOMAIN disk' = DOMAIN disk \cup {q} /\ disk'[q] = file
        /\ \A p \in DOMAIN disk : p # q => disk'[p] = disk[p]
    BY <2>1 DEF Put
  <2>4. \A p \in DOMAIN disk' : disk'[p].lmt <= clock'
    BY <1>1, <2>1, <2>2, <2>3
  <2>5. ASSUME NEW lmt \in Nat, NEW p, NotAhead(lmt, p)
        PROVE  /\ NotAhead(lmt, p)'
               /\ Settled(lmt, p)' => Settled(lmt, p) /\ disk'[p] = disk[p]
    <3>1. CASE p # q
      BY <1>1, <2>1, <2>3, <2>5, <3>1 DEF NotAhead, Settled
    <3>2. CASE p = q
      <4>1. NotAhead(lmt, p)'
        BY <1>1, <2>1, <2>2, <2>3, <2>5, <3>2 DEF NotAhead
      <4>2. ~ Settled(lmt, p)'
        <5>1. SUFFICES ASSUME clock' = lmt PROVE file.twice
          BY <2>2, <2>3, <3>2 DEF Settled
        <5>2. lmt = clock /\ clock' = clock
          BY <1>1, <2>1, <2>5, <5>1 DEF NotAhead
        <5>3. q \in DOMAIN disk /\ disk[q].lmt = clock
          BY <1>1, <2>5, <3>2, <5>2 DEF NotAhead
        <5> QED BY <2>2, <5>2, <5>3
      <4> QED BY <4>1, <4>2
    <3> QED BY <3>1, <3>2
  <2> QED BY <2>4, <2>5
<1> QED BY <1>2, <1>3

\* Rows stay true when the transaction keeps what they say.
LEMMA TxnRowKept ==
    ASSUME NEW p, UNCHANGED <<disk, clock>>, RowTrue(txn, p),
           txn'.files[p].complete =>
              /\ txn.files[p].complete
              /\ txn'.files[p].contents = txn.files[p].contents
              /\ txn'.files[p].lmt = txn.files[p].lmt,
           \A c \in DOMAIN txn.contents :
              c \in DOMAIN txn'.contents /\ txn'.contents[c].hash = txn.contents[c].hash
    PROVE  RowTrue(txn, p)'
BY DEF RowTrue, NotAhead, Settled, Shows

\* What was read of an unchanged file shows the file.
LEMMA ReadShows ==
    ASSUME NEW p, NEW h \in ReadHashes(p), p \in DOMAIN disk,
           disk[p].data = open[p].data
    PROVE  Shows(h, p)
<1>1. Readable(p) = {disk[p].data}
  BY DEF Readable
<1>2. CASE h = sv_hasher_wholefile(disk[p].data)
  BY <1>2 DEF Shows, TrueHash, Describes
<1>3. CASE separate(p) /\ (h = md5empty \/ h \in get_audio_hash_without_tags(disk[p].data))
  BY <1>3 DEF separate, Shows, TrueHash, Describes
<1> QED BY <1>1, <1>2, <1>3 DEF ReadHashes

LEMMA CopiesStay ==
    ASSUME CopiesTrue, UNCHANGED <<disk, clock, index>>
    PROVE  CopiesTrue'
BY DEF CopiesTrue, RowTrue, NotAhead, Settled, Shows

LEMMA ChangeBackup ==
    ASSUME TypeOK, CoreInv, ChangeInv, BackupStep
    PROVE  ChangeInv'
<1> USE DEF userVars, storeVars, walkVars, planVars, histVars, BackupPhases
<1>0. UNCHANGED <<disk, clock>> /\ (CopyDb \/ CopiesTrue')
  <2>1. UNCHANGED <<disk, clock>> /\ (CopyDb \/ index' = index)
    BY DEF BackupStep, QueueFile, SkipFile, ProcessNoAccess, ProcessNotFound, ProcessOpen,
       HashFile, ArchiveFile, sv_backup_fromtextfile, ar_manager_begin, EndQueue,
       CleanReady, MoveTar, EndMove, RecordAndCommit, CopyDb
  <2> QED BY <2>1, CopiesStay DEF ChangeInv
<1>12. CASE CopyDb
  <2>1. db' = db /\ pc' = "idle" /\ DOMAIN open' = {}
    BY <1>12, EndIdle DEF CopyDb
  <2>2. PICK d \in {db, EmptyDb} :
          /\ DOMAIN index' = DOMAIN index \cup {db.coll}
          /\ index'[db.coll] = d
          /\ \A k \in DOMAIN index : k # db.coll => index'[k] = index[k]
    BY <1>12, CopyEffect
  <2>3. \A p \in DOMAIN d.files : RowTrue(d, p)
    BY EmptyFacts DEF ChangeInv, EmptyDb
  <2>4. ASSUME NEW k \in DOMAIN index', NEW p \in DOMAIN index'[k].files
        PROVE  RowTrue(index[k], p)'
    <3>1. CASE k = db.coll
      <4>1. RowTrue(d, p) /\ index'[k] = d
        BY <2>2, <2>3, <2>4, <3>1
      <4> QED BY <1>0, <4>1 DEF RowTrue, NotAhead, Settled, Shows
    <3>2. CASE k # db.coll
      <4>1. k \in DOMAIN index /\ index'[k] = index[k]
        BY <2>2, <2>4, <3>2
      <4>2. RowTrue(index[k], p)
        BY <2>4, <4>1 DEF ChangeInv, CopiesTrue
      <4> QED BY <1>0, <4>1, <4>2 DEF RowTrue, NotAhead, Settled, Shows
    <3> QED BY <3>1, <3>2
  <2>5. CopiesTrue'
    BY <2>4 DEF CopiesTrue
  <2> QED BY <1>0, <2>1, <2>5 DEF ChangeInv, InTxn, RowTrue, NotAhead, Settled, Shows
<1>13. SUFFICES ASSUME CopiesTrue' PROVE ChangeInv'
  BY <1>0, <1>12
<1>1. ASSUME UNCHANGED <<db, open>>, pc' # "add",
             \A p \in DOMAIN txn'.files : RowTrue(txn, p)'
      PROVE  ChangeInv'
  BY <1>0, <1>1, <1>13 DEF ChangeInv, RowTrue, NotAhead, Settled, Shows
<1>2. ASSUME UNCHANGED <<db, txn, open>>, InTxn, pc' # "add" PROVE ChangeInv'
  <2>1. \A p \in DOMAIN txn'.files : RowTrue(txn, p)'
    BY <1>0, <1>2 DEF ChangeInv, RowTrue, NotAhead, Settled, Shows
  <2> QED BY <1>1, <1>2, <2>1
<1>3. ASSUME NEW p \in Path, QueueFile(p) PROVE ChangeInv'
  <2>1. InTxn /\ pc' # "add" /\ UNCHANGED <<db, open>>
    BY <1>3 DEF QueueFile, InTxn
  <2>2. /\ RowsSame(txn, txn') /\ OtherFiles(txn, txn', p)
        /\ \/ p \in grp.excluded /\ txn' = txn
           \/ /\ p \in DOMAIN txn.files /\ Unchanged(p)
              /\ p \in DOMAIN txn'.files /\ txn'.files[p].complete
              /\ txn'.files[p].contents = txn.files[p].contents
              /\ txn'.files[p].lmt = txn.files[p].lmt
           \/ p \in DOMAIN txn'.files /\ ~ txn'.files[p].complete
    BY <1>3, QueueEffect
  <2>3. ASSUME NEW q \in DOMAIN txn'.files PROVE RowTrue(txn, q)'
    <3>1. CASE ~ txn'.files[q].complete
      BY <3>1 DEF RowTrue
    <3>2. CASE txn'.files[q].complete
      <4>1. /\ q \in DOMAIN txn.files
            /\ txn.files[q].complete
            /\ txn'.files[q].contents = txn.files[q].contents
            /\ txn'.files[q].lmt = txn.files[q].lmt
        BY <2>2, <3>2 DEF OtherFiles, Unchanged
      <4>2. RowTrue(txn, q)
        BY <2>1, <4>1 DEF ChangeInv
      <4> QED BY <1>0, <2>2, <4>1, <4>2, TxnRowKept DEF RowsSame
    <3> QED BY <3>1, <3>2
  <2> QED BY <1>1, <2>1, <2>3
<1>4. ASSUME NEW p \in Path, ProcessNoAccess(p) PROVE ChangeInv'
  <2>1. InTxn /\ pc' # "add" /\ UNCHANGED <<db, open>>
    BY <1>4 DEF ProcessNoAccess, InTxn
  <2>2. \A q \in DOMAIN txn'.files : RowTrue(txn, q)'
    BY <1>0, <1>4, <2>1, NoAccessEffect, TxnRowKept DEF RowsSame, ChangeInv
  <2> QED BY <1>1, <2>1, <2>2
<1>5. ASSUME NEW p \in Path, SkipFile(p) \/ ProcessNotFound(p) PROVE ChangeInv'
  BY <1>2, <1>5 DEF SkipFile, ProcessNotFound, InTxn
<1>6. ASSUME NEW p \in Path, ProcessOpen(p) PROVE ChangeInv'
  <2>1. /\ p \in DOMAIN disk /\ InTxn /\ pc' = "hash" /\ UNCHANGED <<db, txn>>
    BY <1>6 DEF ProcessOpen, InTxn
  <2>2. DOMAIN open' = {p} /\ open'[p].data = disk[p].data /\ open'[p].lmt = disk[p].lmt
    BY <1>6 DEF ProcessOpen, Put, EmptyFcn
  <2>3. disk[p].lmt \in Nat /\ disk[p].lmt <= clock
    BY <2>1 DEF ChangeInv, TypeOK, IsPartial, FileOnDisk
  <2>4. NotAhead(open[p].lmt, p)'
    BY <1>0, <2>1, <2>2, <2>3 DEF NotAhead
  <2>5. \A q \in DOMAIN txn'.files : RowTrue(txn, q)'
    BY <1>0, <2>1 DEF ChangeInv, RowTrue, NotAhead, Settled, Shows
  <2>6. \A q \in DOMAIN db'.files : RowTrue(db, q)'
    BY <1>0, <2>1 DEF ChangeInv, RowTrue, NotAhead, Settled, Shows
  <2> QED BY <1>0, <1>13, <2>1, <2>2, <2>4, <2>5, <2>6 DEF ChangeInv
<1>7. ASSUME NEW p \in Path, HashFile(p) PROVE ChangeInv'
  <2>1. PICK h \in ReadHashes(p) : Seen(p, h) \/ NotSeen(p, h)
    BY <1>7, HashEffect
  <2>2. RowsSame(txn, txn') /\ OtherFiles(txn, txn', p)
    BY <1>7, HashEffect
  <2>3. InTxn /\ DOMAIN open = {p} /\ db' = db
    BY <1>7 DEF HashFile, CoreInv, OpenOnce, InTxn
  <2>4. /\ NotAhead(open[p].lmt, p)
        /\ Settled(open[p].lmt, p) => disk[p].data = open[p].data
    BY <2>3 DEF ChangeInv
  <2>5. Settled(open[p].lmt, p) => Shows(h, p)
    BY <2>4, ReadShows DEF Settled
  <2>6. \A q \in DOMAIN db'.files : RowTrue(db, q)'
    BY <1>0, <2>3 DEF ChangeInv, RowTrue, NotAhead, Settled, Shows
  <2>7. ASSUME NEW q \in DOMAIN txn.files \ {p} PROVE RowTrue(txn, q)'
    <3>1. RowTrue(txn, q) /\ txn'.files[q] = txn.files[q]
      BY <2>2, <2>3 DEF ChangeInv, OtherFiles
    <3> QED BY <1>0, <2>2, <3>1, TxnRowKept DEF RowsSame
  <2>8. CASE Seen(p, h)
    <3>1. PICK c \in DOMAIN txn.contents :
             /\ txn.contents[c].hash = h
             /\ p \in DOMAIN txn'.files /\ txn'.files[p] = FileRow(c, p)
             /\ pc' = "process" /\ DOMAIN open' = {}
      BY <2>8 DEF Seen
    <3>2. FileRow(c, p).contents = c /\ FileRow(c, p).lmt = open[p].lmt
      BY DEF FileRow
    <3>3. c \in DOMAIN txn'.contents /\ txn'.contents[c].hash = h
      BY <2>2, <3>1 DEF RowsSame
    <3>4. RowTrue(txn, p)'
      BY <1>0, <2>4, <2>5, <3>1, <3>2, <3>3 DEF RowTrue, NotAhead, Settled, Shows
    <3>5. \A q \in DOMAIN txn'.files : RowTrue(txn, q)'
      BY <2>2, <2>7, <3>4 DEF OtherFiles
    <3> QED BY <1>0, <1>13, <2>6, <3>1, <3>5 DEF ChangeInv
  <2>9. CASE NotSeen(p, h)
    <3>1. \A q \in DOMAIN txn'.files : RowTrue(txn, q)'
      <4>1. \A q \in DOMAIN txn.files : RowTrue(txn, q)
        BY <2>3 DEF ChangeInv
      <4> QED BY <1>0, <2>2, <2>9, <4>1, TxnRowKept DEF NotSeen, RowsSame
    <3>2. /\ DOMAIN open' = {p} /\ open'[p].lmt = open[p].lmt
          /\ open'[p].data = open[p].data /\ open'[p].hash = h
      BY <2>3, <2>9 DEF NotSeen
    <3>3. /\ NotAhead(open[p].lmt, p)'
          /\ Settled(open[p].lmt, p)' =>
               disk'[p].data = open'[p].data /\ Shows(open[p].hash, p)'
      BY <1>0, <2>4, <2>5, <3>2 DEF NotAhead, Settled, Shows
    <3> QED BY <1>0, <1>13, <2>6, <3>1, <3>2, <3>3 DEF ChangeInv
  <2> QED BY <2>1, <2>8, <2>9
<1>8. ASSUME NEW p \in Path, NEW n \in {archnum, archnum + 1}, ArchiveFile(p, n)
      PROVE  ChangeInv'
  <2> DEFINE c == open[p].id
  <2>1. /\ DOMAIN txn'.contents = DOMAIN txn.contents \cup {c}
        /\ txn'.contents[c] = NewRow(c, p, n)
        /\ \A x \in DOMAIN txn.contents : x # c =>
             txn'.contents[x] = txn.contents[x]
        /\ OtherFiles(txn, txn', p)
        /\ p \in DOMAIN txn'.files /\ txn'.files[p] = FileRow(c, p)
        /\ DOMAIN open' = {} /\ pc' = "process"
    BY <1>8, ArchiveEffect
  <2>2. /\ NewRow(c, p, n).hash = open[p].hash
        /\ FileRow(c, p).contents = c /\ FileRow(c, p).lmt = open[p].lmt
    BY DEF NewRow, FileRow
  <2>3. pc = "add" /\ p \in DOMAIN open /\ InTxn /\ db' = db
    BY <1>8 DEF ArchiveFile, InTxn
  <2>4. c \notin DOMAIN txn.contents
    BY <2>3 DEF CoreInv, TxnFiles, InTxn
  <2>5. /\ NotAhead(open[p].lmt, p)
        /\ Settled(open[p].lmt, p) => Shows(open[p].hash, p)
    BY <2>3 DEF ChangeInv
  <2> HIDE DEF c
  <2>6. RowTrue(txn, p)'
    BY <1>0, <2>1, <2>2, <2>5 DEF RowTrue, NotAhead, Settled, Shows
  <2>7. ASSUME NEW q \in DOMAIN txn.files \ {p} PROVE RowTrue(txn, q)'
    <3>1. RowTrue(txn, q) /\ txn'.files[q] = txn.files[q]
      BY <2>1, <2>3 DEF ChangeInv, OtherFiles
    <3>2. \A x \in DOMAIN txn.contents :
            x \in DOMAIN txn'.contents /\ txn'.contents[x].hash = txn.contents[x].hash
      BY <2>1, <2>4
    <3> QED BY <1>0, <3>1, <3>2, TxnRowKept
  <2>8. \A q \in DOMAIN txn'.files : RowTrue(txn, q)'
    BY <2>1, <2>6, <2>7 DEF OtherFiles
  <2>9. \A q \in DOMAIN db'.files : RowTrue(db, q)'
    BY <1>0, <2>3 DEF ChangeInv, RowTrue, NotAhead, Settled, Shows
  <2> QED BY <1>0, <1>13, <2>1, <2>8, <2>9 DEF ChangeInv
<1>9. CASE sv_backup_fromtextfile \/ ar_manager_begin \/ CleanReady \/ EndMove
           \/ \E a \in DOMAIN staging : MoveTar(a)
  BY <1>2, <1>9 DEF sv_backup_fromtextfile, ar_manager_begin, CleanReady, EndMove,
     MoveTar, InTxn
<1>10. CASE EndQueue
  <2>1. /\ DOMAIN txn'.files = DOMAIN txn.files \ todelete
        /\ \A q \in DOMAIN txn.files \ todelete : txn'.files[q] = txn.files[q]
        /\ txn'.contents = txn.contents
    BY <1>10, DbFacts, FilesDeleteFacts DEF EndQueue
  <2>2. InTxn /\ pc' = "clean" /\ UNCHANGED <<db, open>>
    BY <1>10 DEF EndQueue, InTxn
  <2>3. ASSUME NEW q \in DOMAIN txn'.files PROVE RowTrue(txn, q)'
    <3>1. RowTrue(txn, q) /\ txn'.files[q] = txn.files[q]
      BY <2>1, <2>2 DEF ChangeInv
    <3> QED BY <1>0, <2>1, <3>1, TxnRowKept
  <2> QED BY <1>1, <2>2, <2>3
<1>11. CASE RecordAndCommit
  <2>1. db'.files = txn.files /\ db'.contents = txn.contents
    BY <1>11, CommitEffect
  <2>2. InTxn /\ pc' = "copydb" /\ open' = open
    BY <1>11 DEF RecordAndCommit, InTxn
  <2>3. \A q \in DOMAIN db'.files : RowTrue(db, q)'
    BY <1>0, <2>1, <2>2 DEF ChangeInv, RowTrue, NotAhead, Settled, Shows
  <2> QED BY <1>0, <1>13, <2>2, <2>3 DEF ChangeInv, InTxn, NotAhead, Settled, Shows
<1> QED BY <1>3, <1>4, <1>5, <1>6, <1>7, <1>8, <1>9, <1>10, <1>11, <1>12
           DEF BackupStep

LEMMA ChangeNext ==
    ASSUME TypeOK, CoreInv, ChangeInv, [Next]_vars
    PROVE  ChangeInv'
<1> USE DEF userVars, storeVars, walkVars, planVars, histVars, BackupPhases,
            CompactPhases
<1>0. /\ \A p \in DOMAIN db.files : db.files[p].lmt \in Nat
      /\ \A p \in DOMAIN txn.files : txn.files[p].lmt \in Nat
      /\ \A p \in DOMAIN open : open[p].lmt \in Nat
      /\ \A k \in DOMAIN index : \A p \in DOMAIN index[k].files :
            index[k].files[p].lmt \in Nat
  BY DEF TypeOK, IsIndex, IsDb, IsPartial, sv_file_row, OpenFile
<1>1. ASSUME UNCHANGED <<disk, clock, db, index, txn, pc, open>> PROVE ChangeInv'
  BY <1>1, CopiesStay DEF ChangeInv, RowTrue, NotAhead, Settled, Shows, InTxn
<1>2. ASSUME UNCHANGED <<disk, clock, db, index>>, ~ InTxn', DOMAIN open' = {}
      PROVE  ChangeInv'
  BY <1>2, CopiesStay DEF ChangeInv, RowTrue, NotAhead, Settled, Shows
<1>3. CASE CompactStep
  <2>1. /\ UNCHANGED <<disk, clock, index>> /\ ~ InTxn'
        /\ (DOMAIN open' = {} \/ open' = open) /\ pc \notin {"hash", "add"}
    BY <1>3, EmptyFacts DEF CompactStep, RemoveRows, StripRows, EndCompact,
       EndOperation, RemoveTar, StripTar, StripChecksum, InTxn
  <2>2. DOMAIN open' = {}
    BY <2>1 DEF CoreInv, OpenOnce
  <2>3. FilesLive(db)'
    BY <1>3, CoreNext DEF Next, CoreInv, CommittedRows
  <2>4. \A p \in DOMAIN db'.files : RowTrue(db, p)'
    BY <1>3, <2>1, <2>3, CompactEffect DEF FilesLive, ChangeInv, RowTrue, NotAhead,
       Settled, Shows
  <2> QED BY <2>1, <2>2, <2>4, CopiesStay DEF ChangeInv
<1>4. CASE Abort
  BY <1>2, <1>4, EndIdle DEF Abort, InTxn
<1>5. ASSUME NEW q \in Path, (\E d \in Data : WriteFile(q, d)) \/ DeleteFile(q)
      PROVE  ChangeInv'
  <2>1. UNCHANGED <<db, index, txn, pc, open>>
    BY <1>5 DEF WriteFile, DeleteFile
  <2>2. /\ \A p \in DOMAIN disk' : disk'[p].lmt <= clock'
        /\ \A lmt \in Nat : \A p : NotAhead(lmt, p) =>
             /\ NotAhead(lmt, p)'
             /\ Settled(lmt, p)' => Settled(lmt, p) /\ disk'[p] = disk[p]
    BY <1>5, TimesAge DEF ChangeInv
  <2>3. ASSUME NEW p \in DOMAIN db.files, RowTrue(db, p) PROVE RowTrue(db, p)'
    BY <1>0, <2>1, <2>2, <2>3 DEF RowTrue, NotAhead, Settled, Shows
  <2>4. ASSUME NEW p \in DOMAIN txn.files, RowTrue(txn, p) PROVE RowTrue(txn, p)'
    BY <1>0, <2>1, <2>2, <2>4 DEF RowTrue, NotAhead, Settled, Shows
  <2>5. ASSUME NEW p \in DOMAIN open
        PROVE  /\ NotAhead(open[p].lmt, p)'
               /\ Settled(open[p].lmt, p)' =>
                    /\ disk'[p].data = open'[p].data
                    /\ pc' = "add" => Shows(open[p].hash, p)'
    <3>1. /\ NotAhead(open[p].lmt, p)
          /\ Settled(open[p].lmt, p) =>
                /\ disk[p].data = open[p].data
                /\ pc = "add" => Shows(open[p].hash, p)
      BY DEF ChangeInv
    <3> QED BY <1>0, <2>1, <2>2, <3>1 DEF NotAhead, Settled, Shows
  <2>6. ASSUME NEW k \in DOMAIN index, NEW p \in DOMAIN index[k].files
        PROVE  RowTrue(index[k], p)'
    <3>1. RowTrue(index[k], p)
      BY DEF ChangeInv, CopiesTrue
    <3> QED BY <1>0, <2>1, <2>2, <3>1 DEF RowTrue, NotAhead, Settled, Shows
  <2>7. CopiesTrue'
    BY <2>1, <2>6 DEF CopiesTrue
  <2> QED BY <2>1, <2>2, <2>3, <2>4, <2>5, <2>7 DEF ChangeInv, InTxn
<1>6. CASE UserStep
  BY <1>1, <1>5, <1>6 DEF UserStep, EditGroup, EvictTar, FetchTar
<1>7. CASE sv_backup
  <2>1. txn'.contents = db.contents /\ txn'.files = db.files
    BY <1>7, DbFacts, CollectionInsertFacts DEF sv_backup
  <2>2. pc' = "queue" /\ UNCHANGED <<disk, clock, db, index, open>>
    BY <1>7 DEF sv_backup
  <2> QED BY <2>1, <2>2, CopiesStay DEF ChangeInv, RowTrue, NotAhead, Settled, Shows
<1>8. ASSUME NEW thorough, NEW k, NEW strip, sv_compact(thorough, k, strip)
      PROVE  ChangeInv'
  <2>1. UNCHANGED <<disk, clock, db, index>> /\ ~ InTxn' /\ DOMAIN open' = {}
    BY <1>8 DEF sv_compact, InTxn, CoreInv, OpenOnce
  <2> QED BY <1>2, <2>1
<1>9. ASSUME NEW k, sv_app_findgroupnames(k) PROVE ChangeInv'
  <2>1. /\ k \in DOMAIN index /\ db' = index[k] /\ pc = "idle" /\ pc' = "idle"
        /\ UNCHANGED <<disk, clock, index, open>>
    BY <1>9 DEF sv_app_findgroupnames
  <2>2. DOMAIN open' = {} /\ CopiesTrue'
    BY <2>1, CopiesStay DEF CoreInv, OpenOnce, ChangeInv
  <2>3. \A p \in DOMAIN db'.files : RowTrue(db, p)'
    BY <2>1 DEF ChangeInv, CopiesTrue, RowTrue, NotAhead, Settled, Shows
  <2> QED BY <2>1, <2>2, <2>3 DEF ChangeInv, InTxn
<1>10. CASE StartStep
  BY <1>7, <1>8, <1>9, <1>10 DEF StartStep
<1>11. CASE UNCHANGED vars
  BY <1>1, <1>11 DEF vars
<1> QED BY <1>3, <1>4, <1>6, <1>10, <1>11, ChangeBackup DEF Next

LEMMA ChangeInit == Init => ChangeInv
<1>1. ASSUME Init PROVE \A p \in DOMAIN disk : disk[p].lmt = 0 /\ clock = 0
  <2>1. PICK S \in SUBSET Path :
          disk \in [S -> [data : Data, lmt : {0}, twice : {FALSE}]]
    BY <1>1 DEF Init
  <2> QED BY <1>1, <2>1 DEF Init
<1>2. Init => /\ DOMAIN db.files = {} /\ DOMAIN open = {} /\ DOMAIN index = {}
              /\ pc = "idle" /\ clock = 0
  BY EmptyFacts DEF Init, EmptyDb
<1>3. \A n : n = 0 => n <= 0
  OBVIOUS
<1> QED BY <1>1, <1>2, <1>3 DEF ChangeInv, CopiesTrue, InTxn, BackupPhases

\* Stat before hash: a file whose row has its time and length has the contents the
\* row is for, up to tags, unless it was written twice within one second, also when
\* the index is an older copy that replaced a lost one.
THEOREM ChangesSeen == Spec => []NoMissedChange
<1>1. ChangeInv => NoMissedChange
  <2> SUFFICES ASSUME ChangeInv, NEW p \in DOMAIN db.files \cap DOMAIN disk,
                      db.files[p].complete, db.files[p].lmt = disk[p].lmt,
                      ~ disk[p].twice
               PROVE  Recorded(p, disk[p].data)
    BY DEF NoMissedChange
  <2> QED BY DEF ChangeInv, RowTrue, Settled, Shows, Recorded
<1> QED BY <1>1, ChangeInit, ChangeNext, TypeCorrect, CoreInductive, PTL DEF Spec

-----------------------------------------------------------------------------
(* A backup misses no file. *)

LEMMA SeenBackup ==
    ASSUME TypeOK, CoreInv, SeenInv, BackupStep
    PROVE  SeenInv'
<1> USE DEF userVars, storeVars, walkVars, planVars, histVars, BackupPhases
<1>0. UNCHANGED <<disk, grp>>
  BY DEF BackupStep, QueueFile, SkipFile, ProcessNoAccess, ProcessNotFound, ProcessOpen,
     HashFile, ArchiveFile, sv_backup_fromtextfile, ar_manager_begin, EndQueue,
     CleanReady, MoveTar, EndMove, RecordAndCommit, CopyDb
<1>a. \A p : InScope(p)' <=> InScope(p)
  BY <1>0 DEF InScope
<1>1. ASSUME NEW p \in Path, QueueFile(p) PROVE SeenInv'
  <2>1. /\ pc \in {"queue", "manual"} /\ p \in DOMAIN disk
        /\ unseen' = unseen \ {p}
        /\ UNCHANGED <<pc, todelete, open, excused>>
    BY <1>1 DEF QueueFile
  <2>2. /\ RowsSame(txn, txn') /\ OtherFiles(txn, txn', p)
        /\ \/ p \in grp.excluded /\ txn' = txn
           \/ /\ p \in DOMAIN txn.files /\ Unchanged(p)
              /\ p \in DOMAIN txn'.files /\ txn'.files[p].complete
              /\ txn'.files[p].contents = txn.files[p].contents
              /\ txn'.files[p].lmt = txn.files[p].lmt
           \/ p \in DOMAIN txn'.files /\ ~ txn'.files[p].complete
    BY <1>1, QueueEffect
  <2>3. ASSUME NEW q \in Path \ excused, InScope(q)
        PROVE  \/ q \in DOMAIN txn'.files \/ q \in unseen'
               \/ pc = "queue" /\ q \in ManualList
    <3>1. q = p => q \in DOMAIN txn'.files
      BY <2>2, <2>3 DEF InScope
    <3> QED BY <2>1, <2>2, <2>3, <3>1 DEF SeenInv, InTxn, OtherFiles
  <2>4. ASSUME NEW q \in DOMAIN txn'.files \ excused,
               txn'.files[q].complete, txn'.files[q].mrc = txn'.coll
        PROVE  UpToDate(txn, q)'
    <3>1. CASE q = p /\ txn' # txn
      BY <1>0, <2>1, <2>2, <2>4, <3>1 DEF Unchanged, UpToDate
    <3>2. CASE q # p \/ txn' = txn
      <4>1. q \in DOMAIN txn.files /\ txn'.files[q] = txn.files[q] /\ txn'.coll = txn.coll
        BY <2>2, <3>2 DEF OtherFiles, RowsSame
      <4>2. UpToDate(txn, q)
        BY <2>1, <2>4, <4>1 DEF SeenInv, InTxn
      <4> QED BY <1>0, <4>1, <4>2 DEF UpToDate
    <3> QED BY <3>1, <3>2
  <2>5. todelete = {} /\ DOMAIN open = {}
    BY <2>1 DEF SeenInv, InTxn, CoreInv, OpenOnce
  <2> QED BY <1>a, <2>1, <2>3, <2>4, <2>5 DEF SeenInv, InTxn
<1>2. ASSUME NEW p \in Path, SkipFile(p) PROVE SeenInv'
  <2>1. /\ pc \in {"queue", "manual"}
        /\ unseen' = unseen \ {p} /\ excused' = excused \cup ({p} \cap DOMAIN disk)
        /\ UNCHANGED <<pc, txn, todelete, open>>
    BY <1>2 DEF SkipFile
  <2>2. \A q \in Path \ excused' : InScope(q) => q # p
    BY <2>1 DEF InScope
  <2> QED BY <1>0, <1>a, <2>1, <2>2 DEF SeenInv, InTxn, UpToDate
<1>3. ASSUME NEW p \in Path, ProcessNoAccess(p) PROVE SeenInv'
  <2>1. /\ pc = "process" /\ pending' = pending \ {p} /\ excused' = excused \cup {p}
        /\ todelete \subseteq todelete' /\ todelete' \subseteq todelete \cup {p}
        /\ UNCHANGED <<pc, open>> /\ txn'.files = txn.files
    BY <1>3, NoAccessEffect DEF ProcessNoAccess
  <2>2. txn'.coll = txn.coll
    BY <1>3, NoAccessEffect DEF RowsSame
  <2> QED BY <1>0, <1>a, <2>1, <2>2 DEF SeenInv, InTxn, UpToDate
<1>4. ASSUME NEW p \in Path, ProcessNotFound(p) PROVE SeenInv'
  <2>1. /\ pc = "process" /\ pending' = pending \ {p} /\ p \notin DOMAIN disk
        /\ todelete' = todelete \cup {p}
        /\ UNCHANGED <<pc, open, txn, excused>>
    BY <1>4 DEF ProcessNotFound
  <2> QED BY <1>0, <1>a, <2>1 DEF SeenInv, InTxn, UpToDate
<1>5. ASSUME NEW p \in Path, ProcessOpen(p) PROVE SeenInv'
  <2>1. /\ pc = "process" /\ pc' = "hash" /\ pending' = pending \ {p}
        /\ p \in DOMAIN disk /\ UNCHANGED <<txn, todelete, excused>>
    BY <1>5 DEF ProcessOpen
  <2>2. DOMAIN open' = {p} /\ open'[p].lmt = disk[p].lmt
    BY <1>5 DEF ProcessOpen, Put, EmptyFcn
  <2>3. DOMAIN open = {}
    BY <2>1 DEF CoreInv, OpenOnce
  <2> QED BY <1>0, <1>a, <2>1, <2>2, <2>3 DEF SeenInv, InTxn, UpToDate
<1>6. ASSUME NEW p \in Path, NEW c, pc \in {"hash", "add"}, pc' = "process",
             p \in DOMAIN open, DOMAIN open' = {},
             OtherFiles(txn, txn', p), p \in DOMAIN txn'.files,
             txn'.files[p] = FileRow(c, p),
             UNCHANGED <<todelete, pending, excused>>
      PROVE  SeenInv'
  <2>1. /\ FileRow(c, p).complete /\ FileRow(c, p).lmt = open[p].lmt
        /\ DOMAIN open = {p}
    BY <1>6 DEF FileRow, CoreInv, OpenOnce
  <2>2. p \notin excused => UpToDate(txn, p)'
    BY <1>0, <1>6, <2>1 DEF SeenInv, InTxn, UpToDate
  <2>3. ASSUME NEW q \in DOMAIN txn.files \ {p}, UpToDate(txn, q)
        PROVE  UpToDate(txn, q)'
    BY <1>0, <1>6, <2>3 DEF UpToDate, OtherFiles
  <2>4. \A q \in DOMAIN txn.files \ (excused \cup pending \cup todelete \cup {p}) :
          UpToDate(txn, q)
    BY <1>6, <2>1 DEF SeenInv, InTxn
  <2>5. /\ DOMAIN txn'.files \subseteq DOMAIN txn.files \cup {p}
        /\ DOMAIN txn.files \subseteq DOMAIN txn'.files
    BY <1>6 DEF OtherFiles
  <2>6. \A q \in DOMAIN txn'.files \ (excused \cup pending \cup todelete) :
          UpToDate(txn, q)'
    BY <2>2, <2>3, <2>4, <2>5
  <2>7. /\ \A q \in Path \ excused : InScope(q) => q \in DOMAIN txn.files
        /\ \A q \in todelete \ excused : q \notin DOMAIN disk
    BY <1>6 DEF SeenInv, InTxn
  <2> QED BY <1>0, <1>a, <1>6, <2>5, <2>6, <2>7 DEF SeenInv, InTxn
<1>7. ASSUME NEW p \in Path, HashFile(p) PROVE SeenInv'
  <2>1. PICK h \in ReadHashes(p) : Seen(p, h) \/ NotSeen(p, h)
    BY <1>7, HashEffect
  <2>2. /\ pc = "hash" /\ p \in DOMAIN open
        /\ UNCHANGED <<todelete, pending, excused>>
        /\ OtherFiles(txn, txn', p)
    BY <1>7, HashEffect DEF HashFile
  <2>3. CASE Seen(p, h)
    BY <1>6, <2>2, <2>3 DEF Seen
  <2>4. CASE NotSeen(p, h)
    <3>1. /\ pc' = "add" /\ DOMAIN open' = DOMAIN open /\ DOMAIN open = {p}
          /\ open'[p].lmt = open[p].lmt /\ txn'.files = txn.files
      BY <2>2, <2>4 DEF NotSeen, CoreInv, OpenOnce
    <3> QED BY <1>0, <1>a, <2>2, <3>1 DEF SeenInv, InTxn, UpToDate
  <2> QED BY <2>1, <2>3, <2>4
<1>8. ASSUME NEW p \in Path, NEW n \in {archnum, archnum + 1}, ArchiveFile(p, n)
      PROVE  SeenInv'
  <2>1. /\ OtherFiles(txn, txn', p) /\ DOMAIN open' = {} /\ pc' = "process"
        /\ p \in DOMAIN txn'.files /\ txn'.files[p] = FileRow(open[p].id, p)
    BY <1>8, ArchiveEffect
  <2>2. /\ pc = "add" /\ p \in DOMAIN open
        /\ UNCHANGED <<todelete, pending, excused>>
    BY <1>8 DEF ArchiveFile
  <2> QED BY <1>6, <2>1, <2>2
<1>9. CASE sv_backup_fromtextfile
  <2>1. /\ pc = "queue" /\ unseen = {} /\ pc' = "manual" /\ unseen' = ManualList
        /\ UNCHANGED <<txn, todelete, open, excused>>
    BY <1>9 DEF sv_backup_fromtextfile
  <2> QED BY <1>0, <1>a, <2>1 DEF SeenInv, InTxn, UpToDate
<1>10. CASE ar_manager_begin
  <2>1. /\ pc = "manual" /\ unseen = {} /\ pc' = "process"
        /\ pending' = svdb_files_iter(txn, txn.coll)
        /\ UNCHANGED <<txn, todelete, open, excused>> /\ DOMAIN open = {}
    BY <1>10 DEF ar_manager_begin, CoreInv, OpenOnce
  <2>2. ASSUME NEW q \in DOMAIN txn.files \ excused, q \notin pending'
        PROVE  UpToDate(txn, q)'
    <3>1. txn.files[q].mrc \in Nat /\ txn.files[q].complete \in BOOLEAN /\ txn.coll \in Nat
      BY DEF TypeOK, IsDb, IsPartial, sv_file_row
    <3>2. txn.files[q].mrc <= txn.coll
      BY <2>1 DEF CoreInv, TxnFiles, InTxn
    <3>3. /\ ~ (txn.files[q].mrc < txn.coll)
          /\ ~ (txn.files[q].mrc = txn.coll /\ ~ txn.files[q].complete)
      BY <2>1, <2>2 DEF svdb_files_iter
    <3>4. txn.files[q].mrc = txn.coll /\ txn.files[q].complete
      BY <3>1, <3>2, <3>3
    <3>5. UpToDate(txn, q)
      BY <2>1, <3>4 DEF SeenInv, InTxn
    <3> QED BY <1>0, <2>1, <3>5 DEF UpToDate
  <2> QED BY <1>0, <1>a, <2>1, <2>2 DEF SeenInv, InTxn
<1>11. CASE EndQueue
  <2>1. /\ DOMAIN txn'.files = DOMAIN txn.files \ todelete
        /\ \A q \in DOMAIN txn.files \ todelete : txn'.files[q] = txn.files[q]
    BY <1>11, DbFacts, FilesDeleteFacts DEF EndQueue
  <2>2. /\ pc = "process" /\ pc' = "clean" /\ pending = {} /\ DOMAIN open = {}
        /\ UNCHANGED <<todelete, open, excused>>
    BY <1>11 DEF EndQueue, CoreInv, OpenOnce
  <2>3. ASSUME NEW q \in DOMAIN txn'.files \ excused PROVE UpToDate(txn, q)'
    <3>1. UpToDate(txn, q) /\ txn'.files[q] = txn.files[q]
      BY <2>1, <2>2 DEF SeenInv, InTxn
    <3> QED BY <1>0, <3>1 DEF UpToDate
  <2>4. ASSUME NEW q \in Path \ excused, InScope(q) PROVE q \in DOMAIN txn'.files
    <3>1. q \in DOMAIN txn.files /\ q \notin todelete
      BY <2>2, <2>4 DEF SeenInv, InTxn, InScope
    <3> QED BY <2>1, <3>1
  <2> QED BY <1>0, <1>a, <2>2, <2>3, <2>4 DEF SeenInv, InTxn
<1>12. CASE CleanReady \/ EndMove \/ \E a \in DOMAIN staging : MoveTar(a)
  <2>1. /\ pc \in {"clean", "move"} /\ pc' \in {"move", "sums"}
        /\ UNCHANGED <<txn, todelete, open, excused>>
    BY <1>12 DEF CleanReady, EndMove, MoveTar
  <2> QED BY <1>0, <1>a, <2>1 DEF SeenInv, InTxn, UpToDate
<1>13. CASE RecordAndCommit
  <2>1. /\ db'.files = txn.files /\ pc = "sums" /\ pc' = "copydb" /\ excused' = excused
    BY <1>13, CommitEffect DEF RecordAndCommit
  <2> QED BY <1>0, <1>a, <2>1 DEF SeenInv, InTxn, UpToDate
<1>14. CASE CopyDb
  BY <1>14 DEF CopyDb, EndOperation, SeenInv, InTxn
<1> QED BY <1>1, <1>2, <1>3, <1>4, <1>5, <1>7, <1>8, <1>9, <1>10, <1>11, <1>12,
           <1>13, <1>14 DEF BackupStep

LEMMA SeenNext ==
    ASSUME TypeOK, CoreInv, SeenInv, [Next]_vars
    PROVE  SeenInv'
<1> USE DEF userVars, storeVars, walkVars, planVars, histVars, BackupPhases,
            CompactPhases
<1>1. CASE CompactStep \/ Abort
  <2>1. pc' \in CompactPhases \/ (pc' = "idle" /\ todelete' = {})
    BY <1>1 DEF CompactStep, RemoveRows, StripRows, EndCompact, EndOperation,
       RemoveTar, StripTar, StripChecksum, Abort
  <2> QED BY <2>1 DEF SeenInv, InTxn
<1>2. ASSUME NEW q \in Path, (\E d \in Data : WriteFile(q, d)) \/ DeleteFile(q)
      PROVE  SeenInv'
  <2>1. UNCHANGED <<db, txn, pc, open, unseen, pending, todelete, grp>>
    BY <1>2 DEF WriteFile, DeleteFile
  <2>2. CASE pc = "idle"
    BY <2>1, <2>2 DEF SeenInv, InTxn
  <2>3. CASE pc # "idle"
    <3>1. /\ excused' = excused \cup {q}
          /\ DOMAIN disk' \cup {q} = DOMAIN disk \cup {q}
          /\ \A p \in DOMAIN disk : p # q => disk'[p] = disk[p]
      BY <1>2, <2>3 DEF WriteFile, DeleteFile, Put, Drop, Restrict
    <3>2. \A p \in Path \ excused' :
            /\ InScope(p)' <=> InScope(p)
            /\ p \in DOMAIN disk' <=> p \in DOMAIN disk
            /\ p \in DOMAIN disk => disk'[p] = disk[p]
      BY <2>1, <3>1 DEF InScope
    <3>3. /\ DOMAIN txn.files \subseteq Path /\ DOMAIN db.files \subseteq Path
          /\ todelete \subseteq Path /\ DOMAIN open \subseteq Path
      BY DEF TypeOK, IsDb, IsPartial
    <3>4. \A p \in Path \ excused' : /\ UpToDate(txn, p) => UpToDate(txn, p)'
                                     /\ UpToDate(db, p) => UpToDate(db, p)'
      BY <2>1, <3>1, <3>2 DEF UpToDate
    <3>5. Path \ excused' \subseteq Path \ excused
      BY <3>1
    <3> QED BY <2>1, <2>3, <3>2, <3>3, <3>4, <3>5 DEF SeenInv, InTxn
  <2> QED BY <2>2, <2>3
<1>3. ASSUME pc = "idle", pc' = "idle", UNCHANGED todelete PROVE SeenInv'
  BY <1>3 DEF SeenInv, InTxn
<1>4. CASE UserStep
  <2>1. ASSUME NEW a, EvictTar(a) \/ FetchTar(a) PROVE SeenInv'
    BY <2>1 DEF EvictTar, FetchTar, SeenInv, InTxn, InScope, UpToDate
  <2>2. ASSUME NEW g, EditGroup(g) PROVE SeenInv'
    BY <1>3, <2>2 DEF EditGroup
  <2> QED BY <1>2, <1>4, <2>1, <2>2 DEF UserStep
<1>5. CASE sv_backup
  <2>1. /\ txn'.files = db.files /\ txn'.coll = db.coll + 1 /\ db.coll \in Nat
        /\ pc = "idle" /\ pc' = "queue" /\ unseen' = grp.roots
        /\ UNCHANGED <<disk, grp, todelete, open, excused>>
    BY <1>5, DbFacts, CollectionInsertFacts DEF sv_backup
  <2>2. todelete = {} /\ DOMAIN open = {}
    BY <2>1 DEF SeenInv, CoreInv, OpenOnce
  <2>3. \A p \in DOMAIN db.files : db.files[p].mrc \in Nat /\ db.files[p].mrc <= db.coll
    BY DEF CoreInv, CommittedRows, FilesLive, TypeOK, IsDb, IsPartial, sv_file_row
  <2>4. \A p \in DOMAIN txn'.files : txn'.files[p].mrc # txn'.coll
    BY <2>1, <2>3
  <2>5. \A p : InScope(p)' => p \in unseen' \/ p \in ManualList
    BY <2>1 DEF InScope
  <2> QED BY <2>1, <2>2, <2>4, <2>5 DEF SeenInv, InTxn
<1>6. ASSUME NEW thorough, NEW k, NEW strip, sv_compact(thorough, k, strip)
      PROVE  SeenInv'
  BY <1>6 DEF sv_compact, SeenInv, InTxn
<1>7. ASSUME NEW k, sv_app_findgroupnames(k) PROVE SeenInv'
  BY <1>3, <1>7 DEF sv_app_findgroupnames
<1>8. CASE StartStep
  BY <1>5, <1>6, <1>7, <1>8 DEF StartStep
<1>9. CASE UNCHANGED vars
  BY <1>9 DEF vars, SeenInv, InTxn, InScope, UpToDate
<1> QED BY <1>1, <1>2, <1>4, <1>8, <1>9, SeenBackup DEF Next

\* When a backup commits, the index lists every file of the group that the walk
\* could reach and nobody wrote to meanwhile, with its time and contents, and no
\* file that is not there.
THEOREM BackupComplete == Spec => []SnapshotComplete
<1>1. ChangeInv /\ SeenInv => SnapshotComplete
  <2> SUFFICES ASSUME ChangeInv, SeenInv, pc = "copydb", NEW p \in Path \ excused
               PROVE  IF p \in DOMAIN disk
                      THEN p \in (grp.roots \cup ManualList) \ grp.excluded =>
                             /\ p \in DOMAIN db.files
                             /\ db.files[p].lmt = disk[p].lmt
                             /\ disk[p].twice \/ Recorded(p, disk[p].data)
                      ELSE p \notin DOMAIN db.files
    BY DEF SnapshotComplete
  <2>1. CASE p \notin DOMAIN disk
    BY <2>1 DEF SeenInv, UpToDate
  <2>2. CASE InScope(p)
    <3>1. p \in DOMAIN db.files /\ UpToDate(db, p)
      BY <2>2 DEF SeenInv
    <3>2. disk[p].twice \/ Shows(db.contents[db.files[p].contents].hash, p)
      BY <3>1 DEF UpToDate, ChangeInv, RowTrue, Settled
    <3> QED BY <2>2, <3>1, <3>2 DEF InScope, UpToDate, Shows, Recorded
  <2> QED BY <2>1, <2>2 DEF InScope
<1>2. Init => SeenInv
  BY DEF Init, SeenInv, InTxn, BackupPhases
<1> QED BY <1>1, <1>2, ChangeInit, SeenNext, ChangeNext, TypeCorrect, CoreInductive, PTL
        DEF Spec

-----------------------------------------------------------------------------
(* Backups and compactions keep snapshots. *)

LEMMA CopyInit == Init => CopyInv
BY EmptyFacts, BoundTypes DEF Init, CopyInv, InTxn, EmptyDb, BackupPhases

LEMMA CopyNext ==
    ASSUME SafeConfig, TypeOK, IInv, CopyInv, [Next]_vars
    PROVE  CopyInv'
<1> USE DEF userVars, storeVars, walkVars, planVars, histVars, BackupPhases,
            CompactPhases
<1>1. ASSUME db'.coll = db.coll, db'.files = db.files, index' = index,
             InTxn' => txn'.coll = txn.coll /\ InTxn, pc' = "copydb" => pc = "copydb"
      PROVE  CopyInv'
  BY <1>1 DEF CopyInv
<1>2. CASE CompactStep
  <2>1. ~ InTxn' /\ pc' # "copydb" /\ index' = index
    BY <1>2 DEF CompactStep, RemoveRows, StripRows, EndCompact, EndOperation,
       RemoveTar, StripTar, StripChecksum, InTxn
  <2> QED BY <1>1, <1>2, <2>1, CompactEffect
<1>3. CASE BackupStep
  <2>1. ASSUME NEW p \in Path, QueueFile(p) \/ ProcessNoAccess(p) \/ HashFile(p)
        PROVE  CopyInv'
    <3>1. txn'.coll = txn.coll
      BY <2>1, QueueEffect, NoAccessEffect, HashEffect DEF RowsSame
    <3>2. InTxn /\ db' = db /\ index' = index /\ pc' # "copydb"
      BY <2>1 DEF QueueFile, ProcessNoAccess, HashFile, HashSeen, HashNew, InTxn
    <3> QED BY <1>1, <3>1, <3>2
  <2>2. ASSUME NEW p \in Path, NEW n, ArchiveFile(p, n) PROVE CopyInv'
    <3>1. txn'.coll = txn.coll /\ pc' # "copydb"
      BY <2>2, ArchiveEffect
    <3>2. InTxn /\ db' = db /\ index' = index
      BY <2>2 DEF ArchiveFile, InTxn
    <3> QED BY <1>1, <3>1, <3>2
  <2>3. CASE EndQueue
    <3>1. txn'.coll = txn.coll
      BY <2>3, DbFacts, FilesDeleteFacts DEF EndQueue
    <3> QED BY <1>1, <2>3, <3>1 DEF EndQueue, InTxn
  <2>4. CASE CopyDb
    <3>1. PICK d \in {db, EmptyDb} :
             /\ DOMAIN index' = DOMAIN index \cup {db.coll}
             /\ index'[db.coll] = d
             /\ \A k \in DOMAIN index : k # db.coll => index'[k] = index[k]
      BY <2>4, CopyEffect
    <3>2. /\ pc = "copydb" /\ pc' = "idle" /\ db' = db /\ db.coll \in Nat
          /\ EmptyDb.coll = 0
      BY <2>4, DbFacts DEF CopyDb, EndOperation, EmptyDb
    <3> QED BY <3>1, <3>2 DEF CopyInv, InTxn
  <2>5. CASE RecordAndCommit
    <3>1. /\ db'.coll = txn.coll /\ db'.files = txn.files /\ index' = index
          /\ pc = "sums" /\ pc' = "copydb" /\ txn.coll = db.coll + 1 /\ db.coll \in Nat
      BY <2>5, CommitEffect, DbFacts DEF RecordAndCommit, IInv, CoreInv, TxnKeeps, InTxn
    <3>2. \A k \in DOMAIN index : k \in Nat /\ k <= db.coll
      BY DEF IInv, Stored, PastRows, TypeOK, IsIndex
    <3> QED BY <3>1, <3>2 DEF CopyInv, InTxn
  <2>6. CASE \/ \E p \in Path : SkipFile(p) \/ ProcessNotFound(p) \/ ProcessOpen(p)
             \/ sv_backup_fromtextfile \/ ar_manager_begin \/ CleanReady \/ EndMove
             \/ \E a \in DOMAIN staging : MoveTar(a)
    BY <1>1, <2>6 DEF SkipFile, ProcessNotFound, ProcessOpen, sv_backup_fromtextfile,
       ar_manager_begin, CleanReady, EndMove, MoveTar, InTxn
  <2> QED BY <1>3, <2>1, <2>2, <2>3, <2>4, <2>5, <2>6 DEF BackupStep
<1>4. CASE UserStep \/ Abort \/ UNCHANGED vars
  BY <1>1, <1>4 DEF UserStep, WriteFile, DeleteFile, EditGroup, EvictTar, FetchTar,
     Abort, EndOperation, vars, InTxn
<1>5. CASE sv_backup
  <2>1. txn'.coll = db.coll + 1 /\ db.coll \in Nat
    BY <1>5, DbFacts, CollectionInsertFacts DEF sv_backup
  <2> QED BY <1>5, <2>1, BoundTypes DEF sv_backup, CopyInv, InTxn
<1>6. ASSUME NEW thorough, NEW k, NEW strip, sv_compact(thorough, k, strip)
      PROVE  CopyInv'
  BY <1>1, <1>6 DEF sv_compact, InTxn
<1>7. ASSUME NEW k, sv_app_findgroupnames(k) PROVE FALSE
  BY <1>7 DEF sv_app_findgroupnames, SafeConfig
<1> QED BY <1>2, <1>3, <1>4, <1>5, <1>6, <1>7 DEF Next, StartStep

\* The bytes the archives hold now for a table of files.
Held(F) == [p \in DOMAIN F |-> LET c == F[p].contents IN Tar(db.contents[c].arc)[c]]

\* A row of the index has its bytes.
LEMMA TarHolds ==
    ASSUME TypeOK, IInv, NEW c \in DOMAIN db.contents, NEW a, a = db.contents[c].arc
    PROVE  c \in DOMAIN Tar(a) /\ Tar(a)[c] \in Data
<1>1. \/ a \in DOMAIN ready /\ c \in DOMAIN ready[a]
      \/ a \in DOMAIN away /\ c \in DOMAIN away[a]
  BY DEF IInv, Stored, RowsBacked, Holds
<1>2. DOMAIN ready \cap DOMAIN away = {}
  BY DEF IInv, AwayOnce
<1>3. /\ \A b \in DOMAIN ready : IsTar(ready[b])
      /\ \A b \in DOMAIN away : IsTar(away[b])
  BY DEF TypeOK, IsStore
<1> QED BY <1>1, <1>2, <1>3 DEF Tar, IsTar, IsPartial

\* The files of a snapshot.
KeptFiles(k) == IF k = db.coll THEN db.files ELSE index[k].files

\* What can be restored of a snapshot is all of its files.
SnapshotsHeld ==
    \A k \in Kept : \A F : F = KeptFiles(k) =>
        /\ Snapshot(k) = Held(F) /\ Held(F) \in Keeper!Files
        /\ \A p \in DOMAIN F : F[p].contents \in DOMAIN db.contents

LEMMA SnapsHeld == TypeOK /\ IInv => SnapshotsHeld
<1> SUFFICES ASSUME TypeOK, IInv PROVE SnapshotsHeld
  OBVIOUS
<1>1. ASSUME NEW d, DOMAIN d.files \subseteq Path,
             \A p \in DOMAIN d.files :
                /\ d.files[p].contents \in DOMAIN d.contents
                /\ d.files[p].contents \in DOMAIN db.contents
                /\ db.contents[d.files[p].contents].arc
                     = d.contents[d.files[p].contents].arc
      PROVE  Bytes(d) = Held(d.files) /\ Held(d.files) \in Keeper!Files
  <2>1. \A p \in DOMAIN d.files : Restorable(d, p)
    BY <1>1 DEF Restorable, IInv, Stored, RowsBacked
  <2>2. {q \in DOMAIN d.files : Restorable(d, q)} = DOMAIN d.files
    BY <2>1
  <2>3. Bytes(d) = Held(d.files)
    BY <1>1, <2>2 DEF Bytes, Held
  <2>4. ASSUME NEW p \in DOMAIN d.files PROVE Held(d.files)[p] \in Data
    BY <1>1, TarHolds DEF Held
  <2>5. Held(d.files) \in [DOMAIN d.files -> Data]
    BY <2>4 DEF Held
  <2> QED BY <1>1, <2>3, <2>5 DEF Keeper!Files
<1>2. /\ DOMAIN db.files \subseteq Path
      /\ \A k \in DOMAIN index : DOMAIN index[k].files \subseteq Path
  BY DEF TypeOK, IsIndex, IsDb, IsPartial
<1>3. Bytes(db) = Held(db.files) /\ Held(db.files) \in Keeper!Files
  BY <1>1, <1>2 DEF IInv, CoreInv, CommittedRows, FilesLive
<1>4. ASSUME NEW k \in DOMAIN index, k > floor
      PROVE  /\ Bytes(index[k]) = Held(index[k].files)
             /\ Held(index[k].files) \in Keeper!Files
  BY <1>1, <1>2, <1>4 DEF IInv, Stored, PastRows
<1>5. ASSUME NEW k \in Kept
      PROVE  /\ Snapshot(k) = Held(KeptFiles(k)) /\ Held(KeptFiles(k)) \in Keeper!Files
             /\ \A p \in DOMAIN KeptFiles(k) :
                    KeptFiles(k)[p].contents \in DOMAIN db.contents
  <2>1. CASE k = db.coll
    BY <1>3, <2>1 DEF Snapshot, KeptFiles, IInv, CoreInv, CommittedRows,
                            FilesLive
  <2>2. CASE k # db.coll
    <3>1. k \in DOMAIN index /\ k > floor
      BY <2>2 DEF Kept
    <3> QED BY <1>4, <2>2, <3>1 DEF Snapshot, KeptFiles, IInv, Stored, PastRows
  <2> QED BY <2>1, <2>2
<1> QED BY <1>5 DEF SnapshotsHeld

LEMMA SnapsHeldNext == (TypeOK /\ IInv)' => SnapshotsHeld'
BY SnapsHeld, PTL

\* Each row of the newest index has its bytes.
TarsFull == \A c \in DOMAIN db.contents : \A a : a = db.contents[c].arc =>
                c \in DOMAIN Tar(a) /\ Tar(a)[c] \in Data

LEMMA TarsFullNext == (TypeOK /\ IInv)' => TarsFull'
<1>1. TypeOK /\ IInv => TarsFull
  BY TarHolds DEF TarsFull
<1> QED BY <1>1, PTL

\* Only a commit changes what the index says of files, only a compaction drops rows,
\* and only at the end of a backup is there a new copy.
LEMMA StepOf ==
    ASSUME SafeConfig, TypeOK, IInv, [Next]_vars
    PROVE  \/ RecordAndCommit
           \/ /\ db'.files = db.files /\ db'.coll = db.coll
              /\ DOMAIN db'.contents \subseteq DOMAIN db.contents
              /\ \A c \in DOMAIN db'.contents : db'.contents[c] = db.contents[c]
              /\ CopyDb \/ index' = index
              /\ RemoveRows \/ floor' = floor
<1> USE DEF userVars, storeVars, walkVars, planVars, histVars
<1>1. CASE CompactStep
  BY <1>1, CompactEffect DEF CompactStep, StripRows, EndCompact, EndOperation,
     RemoveTar, StripTar, StripChecksum, RemoveRows
<1>2. CASE BackupStep
  <2>1. RecordAndCommit \/ (db' = db /\ floor' = floor)
    BY <1>2 DEF BackupStep, QueueFile, SkipFile, sv_backup_fromtextfile, ar_manager_begin,
       ProcessNoAccess, ProcessNotFound, ProcessOpen, HashFile, ArchiveFile, EndQueue,
       CleanReady, MoveTar, EndMove, CopyDb
  <2>2. CopyDb \/ index' = index
    BY <1>2 DEF BackupStep, QueueFile, SkipFile, sv_backup_fromtextfile, ar_manager_begin,
       ProcessNoAccess, ProcessNotFound, ProcessOpen, HashFile, ArchiveFile, EndQueue,
       CleanReady, MoveTar, EndMove, RecordAndCommit
  <2> QED BY <2>1, <2>2
<1>3. CASE UserStep \/ Abort \/ UNCHANGED vars \/ StartStep
  BY <1>3 DEF UserStep, WriteFile, DeleteFile, EditGroup, EvictTar, FetchTar,
     Abort, EndOperation, vars, StartStep, sv_backup, sv_compact,
     sv_app_findgroupnames, SafeConfig
<1> QED BY <1>1, <1>2, <1>3 DEF Next

\* Rows that a step leaves keep their bytes.
LEMMA BytesStay ==
    ASSUME SafeConfig, TypeOK, IInv, TypeOK', IInv', [Next]_vars,
           NEW c \in DOMAIN db.contents, c \in DOMAIN db'.contents,
           NEW a, a = db.contents[c].arc
    PROVE  db'.contents[c].arc = a /\ Tar(a)'[c] = Tar(a)[c]
<1>1. db'.contents[c].arc = a
  <2>1. CASE RecordAndCommit
    <3>1. InTxn
      BY <2>1 DEF RecordAndCommit, InTxn, BackupPhases
    <3> QED BY <2>1, <3>1, CommitEffect DEF IInv, CoreInv, TxnKeeps
  <2> QED BY <2>1, StepOf
<1>2. a[1] <= db.coll /\ (a \in DOMAIN ready' \/ a \in DOMAIN away')
  BY <1>1 DEF IInv, CoreInv, CommittedRows, RowIds, Stored, RowsBacked, Holds
<1>3. IsRestriction(Tar(a)', Tar(a))
  BY <1>2, TarsOnlyShrink DEF TarsShrink, IInv
<1>4. c \in DOMAIN Tar(a)'
  BY <1>1, TarsFullNext DEF TarsFull
<1> QED BY <1>1, <1>3, <1>4 DEF IsRestriction

\* A snapshot of which a step leaves the table of files does not change.
LEMMA SnapshotStays ==
    ASSUME SafeConfig, TypeOK, IInv, TypeOK', IInv', [Next]_vars,
           NEW k, k \in Kept, k \in Kept', KeptFiles(k)' = KeptFiles(k)
    PROVE  Snapshot(k)' = Snapshot(k)
<1>1. PICK F : F = KeptFiles(k)
  OBVIOUS
<1>2. Snapshot(k) = Held(F) /\ \A p \in DOMAIN F : F[p].contents \in DOMAIN db.contents
  BY <1>1, SnapsHeld DEF SnapshotsHeld
<1>3. /\ Snapshot(k)' = Held(F)'
      /\ \A p \in DOMAIN F : F[p].contents \in DOMAIN db'.contents
  BY <1>1, SnapsHeldNext DEF SnapshotsHeld
<1>4. ASSUME NEW c \in DOMAIN db.contents, c \in DOMAIN db'.contents
      PROVE  /\ db'.contents[c].arc = db.contents[c].arc
             /\ \A a : a = db.contents[c].arc => Tar(a)'[c] = Tar(a)[c]
  BY <1>4, BytesStay
<1>5. Held(F)' = Held(F)
  BY <1>2, <1>3, <1>4 DEF Held, Tar
<1> QED BY <1>2, <1>3, <1>5

LEMMA KeeperInit == Init => Keeper!Init
<1> SUFFICES ASSUME Init PROVE Keeper!Init
  OBVIOUS
<1>1. Kept = {}
  BY EmptyFacts DEF Init, Kept, EmptyDb
<1> QED BY <1>1 DEF Keeper!Init

LEMMA KeptUnchanged ==
    ASSUME SafeConfig, TypeOK, IInv, TypeOK', IInv', [Next]_vars,
           Kept' = Kept, \A k \in Kept : KeptFiles(k)' = KeptFiles(k)
    PROVE  UNCHANGED [k \in Kept |-> Snapshot(k)]
BY SnapshotStays

\* A step of a compaction.
LEMMA KeeperCompact ==
    ASSUME SafeConfig, TypeOK, IInv, CopyInv, TypeOK', IInv', [Next]_vars, RemoveRows
    PROVE  [Keeper!Next]_([k \in Kept |-> Snapshot(k)])
<1>1. /\ db'.files = db.files /\ db'.coll = db.coll /\ index' = index
      /\ floor' = IF plan.cutoff > floor THEN plan.cutoff ELSE floor
      /\ pc = "rm_db"
  <2>1. CompactStep
    BY DEF CompactStep
  <2> QED BY <2>1, CompactEffect DEF RemoveRows, storeVars
<1>2. \A k : KeptFiles(k)' = KeptFiles(k)
  BY <1>1 DEF KeptFiles
<1>3. CASE floor' = floor
  <2>1. Kept' = Kept
    BY <1>1, <1>3 DEF Kept
  <2> QED BY <1>2, <2>1, KeptUnchanged
<1>4. CASE floor' = plan.cutoff /\ plan.cutoff > floor
  <2>1. /\ plan.cutoff \in 1..MaxCollections /\ plan.cutoff < db.coll
        /\ db.coll \in Kept /\ floor \in Nat
    BY <1>1, <1>4, DbFacts, BoundTypes
       DEF IInv, CoreInv, PlanExpired, CompactPhases, CopyInv, TypeOK, IsPlan, Kept
  <2>2. DOMAIN index \subseteq Nat
    BY DEF TypeOK, IsIndex
  <2>3. Kept' = {k \in Kept : plan.cutoff < k}
    BY <1>1, <1>4, <2>1, <2>2 DEF Kept
  <2>4. \A k \in Kept' : Snapshot(k)' = Snapshot(k)
    BY <1>2, <2>3, SnapshotStays
  <2>5. Keeper!Expire(plan.cutoff)
    BY <2>1, <2>3, <2>4 DEF Keeper!Expire, Keeper!Restrict
  <2> QED BY <2>1, <2>5 DEF Keeper!Next
<1> QED BY <1>1, <1>3, <1>4

\* A commit.
LEMMA KeeperCommit ==
    ASSUME SafeConfig, TypeOK, IInv, CopyInv, TypeOK', IInv', [Next]_vars,
           RecordAndCommit
    PROVE  [Keeper!Next]_([k \in Kept |-> Snapshot(k)])
<1> DEFINE new == db.coll + 1
           copied == /\ db.coll \in DOMAIN index /\ db.coll > floor
                     /\ index[db.coll].coll = db.coll
           past == {j \in Kept : j # db.coll \/ copied}
<1>1. /\ db'.coll = new /\ index' = index /\ floor' = floor
      /\ db.coll \in Nat /\ new \in 1..MaxCollections
  BY DbFacts, CommitEffect, BoundTypes DEF RecordAndCommit, IInv, CoreInv, TxnKeeps,
     InTxn, BackupPhases, CopyInv, storeVars, histVars
<1>2. \A k \in DOMAIN index : k \in Nat /\ k <= db.coll
  BY DEF TypeOK, IsIndex, IInv, Stored, PastRows
<1>3. floor \in Nat
  BY DEF TypeOK
<1>4. \A k \in Kept : k \in Nat /\ k <= db.coll /\ k < new /\ db.coll \in Kept
  BY <1>1, <1>2, <1>3 DEF Kept
<1>5. Kept' = past \cup {new}
  BY <1>1, <1>2, <1>3 DEF Kept
<1>6. \A k \in past : KeptFiles(k)' = KeptFiles(k)
  <2> SUFFICES ASSUME NEW k \in past PROVE KeptFiles(k)' = KeptFiles(k)
    OBVIOUS
  <2>1. KeptFiles(k)' = index[k].files
    BY <1>1, <1>4 DEF KeptFiles
  <2>2. CASE k = db.coll
    BY <2>1, <2>2 DEF KeptFiles, CopyInv
  <2> QED BY <2>1, <2>2 DEF KeptFiles
<1>7. \A k \in past : Snapshot(k)' = Snapshot(k)
  BY <1>5, <1>6, SnapshotStays
<1>8. \A k \in Kept' : Snapshot(k)' \in Keeper!Files
  BY SnapsHeldNext DEF SnapshotsHeld
<1>9. Keeper!Take(new, copied)
  <2> DEFINE S == [k \in Kept |-> Snapshot(k)]
  <2>1. \A j \in Kept : Keeper!Newest(j) <=> j = db.coll
    BY <1>4 DEF Keeper!Newest
  <2>2. {j \in DOMAIN S : Keeper!Newest(j) => copied} = past
    BY <2>1
  <2>3. \A j \in past : S[j] = Snapshot(j)
    OBVIOUS
  <2>4. S' \in [past \cup {new} -> Keeper!Files]
    BY <1>5, <1>8
  <2>5. \A j \in past : S'[j] = S[j]
    BY <1>5, <1>7
  <2> QED BY <1>4, <2>2, <2>4, <2>5 DEF Keeper!Take
<1>10. copied \in BOOLEAN
  OBVIOUS
<1> QED BY <1>1, <1>9, <1>10 DEF Keeper!Next

LEMMA KeeperNext ==
    ASSUME SafeConfig, TypeOK, IInv, CopyInv, TypeOK', IInv', [Next]_vars
    PROVE  [Keeper!Next]_([k \in Kept |-> Snapshot(k)])
<1>1. CASE RecordAndCommit
  BY <1>1, KeeperCommit
<1>2. CASE RemoveRows
  BY <1>2, KeeperCompact
<1>3. ASSUME ~ RecordAndCommit, ~ RemoveRows
      PROVE  UNCHANGED [k \in Kept |-> Snapshot(k)]
  <2>1. /\ db'.files = db.files /\ db'.coll = db.coll /\ floor' = floor
        /\ CopyDb \/ index' = index
    BY <1>3, StepOf
  <2>2. CASE index' = index
    <3>1. Kept' = Kept /\ \A k : KeptFiles(k)' = KeptFiles(k)
      BY <2>1, <2>2 DEF Kept, KeptFiles
    <3> QED BY <3>1, KeptUnchanged
  <2>3. CASE CopyDb
    <3>1. PICK d : index' = Put(index, db.coll, d)
      BY <2>3 DEF CopyDb
    <3>2. db.coll \in Nat /\ db.coll > 0
      BY <2>3, DbFacts DEF CopyDb, CopyInv
    <3>3. \A k : k # db.coll => (k \in DOMAIN index' <=> k \in DOMAIN index)
                                /\ (k \in DOMAIN index => index'[k] = index[k])
      BY <3>1 DEF Put
    <3>4. Kept' = Kept
      BY <2>1, <3>2, <3>3 DEF Kept
    <3>5. \A k \in Kept : KeptFiles(k)' = KeptFiles(k)
      BY <2>1, <3>3 DEF Kept, KeptFiles
    <3> QED BY <3>4, <3>5, KeptUnchanged
  <2> QED BY <2>1, <2>2, <2>3
<1> QED BY <1>1, <1>2, <1>3

\* The backup program implements Snapshots: through backups, compactions, their
\* failures and everything the user does, a committed collection goes on being the
\* same bytes, read from archives that are rebuilt and moved, until a compaction with
\* a later cutoff drops it; copies of the index that come out torn are never counted.
THEOREM SnapshotsKept ==
    ASSUME SafeConfig PROVE Spec => KeepsSnapshots
<1>1. TypeOK /\ IInv /\ CopyInv /\ [Next]_vars /\ (TypeOK /\ IInv)'
        => [Keeper!Next]_([k \in Kept |-> Snapshot(k)])
  BY KeeperNext
<1>2. CopyInv /\ TypeOK /\ IInv /\ [Next]_vars => CopyInv'
  BY CopyNext
<1> QED BY <1>1, <1>2, CopyInit, KeeperInit, TypeCorrect, Inductive, PTL
     DEF Spec, KeepsSnapshots, Keeper!Spec
=============================================================================
