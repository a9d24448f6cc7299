-------------------------- MODULE BackupStoreProofs --------------------------
(***************************************************************************)
(* Proofs about BackupStore: what the operators of IndexDb return, the     *)
(* types, and CoreInv, which every configuration keeps, for any number of  *)
(* files, backups, archives, compactions and lost indexes.                 *)
(***************************************************************************)
EXTENDS BackupStoreInv, TLAPS

-----------------------------------------------------------------------------
(* The queries of IndexDb: what they return and leave alone. *)

\* Writing a row makes its key defined, with that row, and moves no other row.
LEMMA PutFacts ==
    ASSUME NEW f, NEW k, NEW v
    PROVE  /\ DOMAIN Put(f, k, v) = DOMAIN f \cup {k}
           /\ Put(f, k, v)[k] = v
           /\ \A x \in DOMAIN f : x # k => Put(f, k, v)[x] = f[x]
BY DEF Put

\* Deleting rows leaves the others as they are.
LEMMA DropFacts ==
    ASSUME NEW f, NEW S
    PROVE  /\ DOMAIN Drop(f, S) = DOMAIN f \ S
           /\ \A x \in DOMAIN f \ S : Drop(f, S)[x] = f[x]
BY DEF Drop, Restrict

\* A table without rows.
LEMMA EmptyFacts ==
    /\ DOMAIN EmptyFcn = {}
    /\ \A K, V : IsPartial(EmptyFcn, K, V)
BY DEF EmptyFcn, IsPartial

\* A row of the right type keeps a table well typed.
LEMMA PutType ==
    ASSUME NEW K, NEW V, NEW f, IsPartial(f, K, V), NEW k \in K, NEW v \in V
    PROVE  IsPartial(Put(f, k, v), K, V)
BY DEF IsPartial, Put

\* So does deleting rows.
LEMMA DropType ==
    ASSUME NEW K, NEW V, NEW f, IsPartial(f, K, V), NEW S
    PROVE  IsPartial(Drop(f, S), K, V)
BY DEF IsPartial, Drop, Restrict

\* The empty database is well typed.
LEMMA EmptyDbType == IsDb(EmptyDb)
BY EmptyFacts DEF IsDb, EmptyDb

\* Replacing one table of a database keeps the others.
LEMMA ReplaceFiles ==
    ASSUME NEW d, IsDb(d), NEW f, IsPartial(f, Path, sv_file_row)
    PROVE  LET e == [d EXCEPT !.files = f]
           IN  /\ IsDb(e)
               /\ e.files = f /\ e.contents = d.contents
               /\ e.archives = d.archives /\ e.coll = d.coll /\ e.next = d.next
<1> DEFINE e == [d EXCEPT !.files = f]
<1>1. e = [files |-> f, contents |-> d.contents, archives |-> d.archives,
           coll |-> d.coll, next |-> d.next]
  BY DEF IsDb
<1> QED BY <1>1 DEF IsDb

LEMMA ReplaceContents ==
    ASSUME NEW d, IsDb(d), NEW f, IsPartial(f, Nat, sv_content_row)
    PROVE  LET e == [d EXCEPT !.contents = f]
           IN  /\ IsDb(e)
               /\ e.contents = f /\ e.files = d.files
               /\ e.archives = d.archives /\ e.coll = d.coll /\ e.next = d.next
<1> DEFINE e == [d EXCEPT !.contents = f]
<1>1. e = [files |-> d.files, contents |-> f, archives |-> d.archives,
           coll |-> d.coll, next |-> d.next]
  BY DEF IsDb
<1> QED BY <1>1 DEF IsDb

IsChecksumRow(r) ==
    /\ r = [arc |-> r.arc, needed |-> r.needed, sum |-> r.sum]
    /\ r.arc \in ArchiveId /\ r.needed \in BOOLEAN /\ IsTar(r.sum)

\* The row write_archive_checksum inserts is a checksum row.
LEMMA ChecksumRowType ==
    ASSUME NEW a \in ArchiveId, NEW n \in BOOLEAN, NEW t, IsTar(t)
    PROVE  IsChecksumRow([arc |-> a, needed |-> n, sum |-> t])
BY DEF IsChecksumRow

\* Recording checksums touches nothing but TblArchives.
LEMMA AddArchives ==
    ASSUME NEW d, IsDb(d), NEW S, \A r \in S : IsChecksumRow(r)
    PROVE  LET e == [d EXCEPT !.archives = @ \cup S]
           IN  /\ IsDb(e)
               /\ e.files = d.files /\ e.contents = d.contents
               /\ e.coll = d.coll /\ e.next = d.next
<1> DEFINE e == [d EXCEPT !.archives = @ \cup S]
<1>1. e = [files |-> d.files, contents |-> d.contents,
           archives |-> d.archives \cup S, coll |-> d.coll, next |-> d.next]
  BY DEF IsDb
<1>2. \A r \in d.archives \cup S : IsChecksumRow(r)
  BY DEF IsDb, IsChecksumRow
<1> QED BY <1>1, <1>2 DEF IsDb, IsChecksumRow

\* svdb_collectioninsert and svdb_contentsinsert only move a counter.
LEMMA CollectionInsertFacts ==
    ASSUME NEW d, IsDb(d)
    PROVE  LET e == svdb_collectioninsert(d)
           IN  /\ IsDb(e)
               /\ e.coll = d.coll + 1
               /\ e.files = d.files /\ e.contents = d.contents
               /\ e.archives = d.archives /\ e.next = d.next
<1> DEFINE e == svdb_collectioninsert(d)
<1>1. e = [files |-> d.files, contents |-> d.contents, archives |-> d.archives,
           coll |-> d.coll + 1, next |-> d.next]
  BY DEF IsDb, svdb_collectioninsert
<1> QED BY <1>1 DEF IsDb

LEMMA ContentsInsertFacts ==
    ASSUME NEW d, IsDb(d)
    PROVE  LET e == svdb_contentsinsert(d)
           IN  /\ IsDb(e)
               /\ e.next = d.next + 1
               /\ e.files = d.files /\ e.contents = d.contents
               /\ e.archives = d.archives /\ e.coll = d.coll
<1> DEFINE e == svdb_contentsinsert(d)
<1>1. e = [files |-> d.files, contents |-> d.contents, archives |-> d.archives,
           coll |-> d.coll, next |-> d.next + 1]
  BY DEF IsDb, svdb_contentsinsert
<1> QED BY <1>1 DEF IsDb

\* svdb_filesupdate writes one row of the files table and nothing else.
LEMMA FilesUpdateFacts ==
    ASSUME NEW d, IsDb(d), NEW p \in Path, NEW row \in sv_file_row
    PROVE  LET e == svdb_filesupdate(d, p, row)
           IN  /\ IsDb(e)
               /\ DOMAIN e.files = DOMAIN d.files \cup {p}
               /\ e.files[p] = row
               /\ \A q \in DOMAIN d.files : q # p => e.files[q] = d.files[q]
               /\ e.contents = d.contents /\ e.archives = d.archives
               /\ e.coll = d.coll /\ e.next = d.next
<1>1. IsPartial(Put(d.files, p, row), Path, sv_file_row)
  BY PutType DEF IsDb
<1> DEFINE e == svdb_filesupdate(d, p, row)
<1>2. /\ IsDb(e) /\ e.files = Put(d.files, p, row)
      /\ e.contents = d.contents /\ e.archives = d.archives
      /\ e.coll = d.coll /\ e.next = d.next
  BY <1>1, ReplaceFiles, Zenon DEF svdb_filesupdate
<1> QED BY <1>2 DEF Put

NewFileRow(n) == [contents |-> 0, len |-> 0, lmt |-> 0, mrc |-> n,
                  complete |-> FALSE]

\* svdb_filesinsert adds a queued row without contents.
LEMMA FilesInsertFacts ==
    ASSUME NEW d, IsDb(d), NEW p \in Path, NEW n \in Nat
    PROVE  LET e == svdb_filesinsert(d, p, n)
           IN  /\ IsDb(e)
               /\ DOMAIN e.files = DOMAIN d.files \cup {p}
               /\ e.files[p] = NewFileRow(n)
               /\ \A q \in DOMAIN d.files : q # p => e.files[q] = d.files[q]
               /\ e.contents = d.contents /\ e.archives = d.archives
               /\ e.coll = d.coll /\ e.next = d.next
<1>1. NewFileRow(n) \in sv_file_row
  BY DEF NewFileRow, sv_file_row
<1>2. svdb_filesinsert(d, p, n) = svdb_filesupdate(d, p, NewFileRow(n))
  BY DEF svdb_filesinsert, svdb_filesupdate, NewFileRow
<1> QED BY <1>1, <1>2, FilesUpdateFacts

\* svdb_files_delete removes the rows it is given.
LEMMA FilesDeleteFacts ==
    ASSUME NEW d, IsDb(d), NEW S
    PROVE  LET e == svdb_files_delete(d, S)
           IN  /\ IsDb(e)
               /\ DOMAIN e.files = DOMAIN d.files \ S
               /\ \A q \in DOMAIN d.files \ S : e.files[q] = d.files[q]
               /\ e.contents = d.contents /\ e.archives = d.archives
               /\ e.coll = d.coll /\ e.next = d.next
<1>1. IsPartial(Drop(d.files, S), Path, sv_file_row)
  BY DropType DEF IsDb
<1> DEFINE e == svdb_files_delete(d, S)
<1>2. /\ IsDb(e) /\ e.files = Drop(d.files, S)
      /\ e.contents = d.contents /\ e.archives = d.archives
      /\ e.coll = d.coll /\ e.next = d.next
  BY <1>1, ReplaceFiles, Zenon DEF svdb_files_delete
<1> QED BY <1>2 DEF Drop, Restrict

\* svdb_contentsupdate writes one contents row.
LEMMA ContentsUpdateFacts ==
    ASSUME NEW d, IsDb(d), NEW c \in Nat, NEW row \in sv_content_row
    PROVE  LET e == svdb_contentsupdate(d, c, row)
           IN  /\ IsDb(e)
               /\ DOMAIN e.contents = DOMAIN d.contents \cup {c}
               /\ e.contents[c] = row
               /\ \A x \in DOMAIN d.contents :
                     x # c => e.contents[x] = d.contents[x]
               /\ e.files = d.files /\ e.archives = d.archives
               /\ e.coll = d.coll /\ e.next = d.next
<1>1. IsPartial(Put(d.contents, c, row), Nat, sv_content_row)
  BY PutType DEF IsDb
<1> DEFINE e == svdb_contentsupdate(d, c, row)
<1>2. /\ IsDb(e) /\ e.contents = Put(d.contents, c, row)
      /\ e.files = d.files /\ e.archives = d.archives
      /\ e.coll = d.coll /\ e.next = d.next
  BY <1>1, ReplaceContents, Zenon DEF svdb_contentsupdate
<1> QED BY <1>2 DEF Put

\* svdb_contents_setlastreferenced changes one LastCollectionId: no row moves
\* to another archive or appears or disappears.
LEMMA SetLastFacts ==
    ASSUME NEW d, IsDb(d), NEW c \in DOMAIN d.contents, NEW n \in Nat
    PROVE  LET e == svdb_contents_setlastreferenced(d, c, n)
           IN  /\ IsDb(e)
               /\ DOMAIN e.contents = DOMAIN d.contents
               /\ e.contents[c].last = n
               /\ \A x \in DOMAIN d.contents :
                     /\ e.contents[x].arc = d.contents[x].arc
                     /\ x # c => e.contents[x] = d.contents[x]
               /\ e.files = d.files /\ e.archives = d.archives
               /\ e.coll = d.coll /\ e.next = d.next
<1> DEFINE f == [d.contents EXCEPT ![c].last = n]
<1>0. IsPartial(d.contents, Nat, sv_content_row)
  BY DEF IsDb
<1>1. /\ DOMAIN f = DOMAIN d.contents
      /\ f[c] = [d.contents[c] EXCEPT !.last = n]
      /\ \A x \in DOMAIN d.contents : x # c => f[x] = d.contents[x]
  BY <1>0 DEF IsPartial
<1>2. d.contents[c] \in sv_content_row
  BY <1>0 DEF IsPartial
<1>3. /\ f[c] \in sv_content_row
      /\ f[c].last = n
      /\ f[c].arc = d.contents[c].arc
  BY <1>1, <1>2 DEF sv_content_row
<1>4. IsPartial(f, Nat, sv_content_row)
  BY <1>0, <1>1, <1>3 DEF IsPartial
<1>5. svdb_contents_setlastreferenced(d, c, n) = [d EXCEPT !.contents = f]
  BY DEF svdb_contents_setlastreferenced
<1> QED BY <1>1, <1>3, <1>4, <1>5, ReplaceContents

\* svdb_contents_bulk_delete removes the rows it is given.
LEMMA BulkDeleteFacts ==
    ASSUME NEW d, IsDb(d), NEW S
    PROVE  LET e == svdb_contents_bulk_delete(d, S)
           IN  /\ IsDb(e)
               /\ DOMAIN e.contents = DOMAIN d.contents \ S
               /\ \A x \in DOMAIN d.contents \ S :
                     e.contents[x] = d.contents[x]
               /\ e.files = d.files /\ e.archives = d.archives
               /\ e.coll = d.coll /\ e.next = d.next
<1>1. IsPartial(Drop(d.contents, S), Nat, sv_content_row)
  BY DropType DEF IsDb
<1> DEFINE e == svdb_contents_bulk_delete(d, S)
<1>2. /\ IsDb(e) /\ e.contents = Drop(d.contents, S)
      /\ e.files = d.files /\ e.archives = d.archives
      /\ e.coll = d.coll /\ e.next = d.next
  BY <1>1, ReplaceContents, Zenon DEF svdb_contents_bulk_delete
<1> QED BY <1>2 DEF Drop, Restrict

-----------------------------------------------------------------------------
(* Types of the store. *)

\* Writing or replacing an archive, and removing archives, keep a store typed.
LEMMA StorePut ==
    ASSUME NEW t, IsStore(t), NEW a \in ArchiveId, NEW tar, IsTar(tar)
    PROVE  IsStore(Put(t, a, tar))
BY DEF IsStore, Put

LEMMA StoreDrop ==
    ASSUME NEW t, IsStore(t), NEW S
    PROVE  IsStore(Drop(t, S))
BY DEF IsStore, Drop, Restrict

LEMMA IndexPut ==
    ASSUME NEW x, IsIndex(x), NEW k \in Nat, NEW d, IsDb(d)
    PROVE  IsIndex(Put(x, k, d))
BY DEF IsIndex, Put

LEMMA EmptyTypes ==
    /\ IsStore(EmptyFcn) /\ IsIndex(EmptyFcn) /\ IsTar(EmptyFcn)
    /\ IsPlan(NoPlan)
    /\ IsPartial(EmptyFcn, Path, OpenFile)
BY EmptyFacts DEF IsStore, IsIndex, IsTar, IsPlan, NoPlan, EmptyFcn, IsPartial

\* The initial states are typed.
LEMMA InitTypeOK == Init => TypeOK
<1> SUFFICES ASSUME Init PROVE TypeOK
  OBVIOUS
<1>1. IsPartial(disk, Path, FileOnDisk)
  <2>1. PICK S \in SUBSET Path :
            disk \in [S -> [data : Data, lmt : {0}, twice : {FALSE}]]
    BY DEF Init
  <2>2. ASSUME NEW f \in [data : Data, lmt : {0}, twice : {FALSE}]
        PROVE  f \in FileOnDisk
    <3>1. f = [data |-> f.data, lmt |-> 0, twice |-> FALSE] /\ f.data \in Data
      OBVIOUS
    <3>2. 0 \in Nat
      OBVIOUS
    <3>3. FALSE \in BOOLEAN
      OBVIOUS
    <3> QED BY <3>1, <3>2, <3>3, Zenon DEF FileOnDisk
  <2> QED BY <2>1, <2>2 DEF IsPartial
<1>2. grp \in Group
  BY GroupType DEF Init
<1> QED BY <1>1, <1>2, EmptyTypes, EmptyDbType DEF Init, TypeOK

\* EndOperation leaves a typed idle process.
LEMMA EndOperationType ==
    ASSUME EndOperation
    PROVE  /\ pc' \in {"idle"} \cup BackupPhases \cup CompactPhases
           /\ IsDb(txn') /\ unseen' \subseteq Path /\ pending' \subseteq Path
           /\ todelete' \subseteq Path /\ excused' \subseteq Path
           /\ IsPartial(open', Path, OpenFile) /\ archnum' \in Nat
           /\ IsPlan(plan') /\ stripped' \subseteq ArchiveId
BY EmptyTypes, EmptyDbType DEF EndOperation

\* What the user does keeps the types.
LEMMA UserType == TypeOK /\ UserStep => TypeOK'
<1> SUFFICES ASSUME TypeOK, UserStep PROVE TypeOK'
  OBVIOUS
<1> USE DEF userVars, storeVars, walkVars, planVars, histVars
<1>1. ASSUME NEW p \in Path, NEW d \in Data, WriteFile(p, d) PROVE TypeOK'
  <2> DEFINE file == [data |-> d, lmt |-> clock',
                      twice |-> p \in DOMAIN disk /\ disk[p].lmt = clock']
  <2>1. file \in FileOnDisk
    <3>1. clock' \in Nat
      BY <1>1 DEF WriteFile, TypeOK
    <3>2. (p \in DOMAIN disk /\ disk[p].lmt = clock') \in BOOLEAN
      OBVIOUS
    <3> QED BY <3>1, <3>2 DEF FileOnDisk
  <2>2. disk' = Put(disk, p, file)
    BY <1>1 DEF WriteFile
  <2> HIDE DEF file
  <2>3. IsPartial(disk', Path, FileOnDisk)
    BY <2>1, <2>2, PutType DEF TypeOK
  <2> QED BY <1>1, <2>3 DEF WriteFile, TypeOK
<1>2. ASSUME NEW p \in Path, DeleteFile(p) PROVE TypeOK'
  <2>1. IsPartial(disk', Path, FileOnDisk)
    BY <1>2, DropType DEF DeleteFile, TypeOK
  <2> QED BY <1>2, <2>1 DEF DeleteFile, TypeOK
<1>3. ASSUME NEW g \in GroupChoices, EditGroup(g) PROVE TypeOK'
  BY <1>3, GroupType DEF EditGroup, TypeOK
<1>4. ASSUME NEW a \in DOMAIN ready, EvictTar(a) PROVE TypeOK'
  <2>1. a \in ArchiveId /\ IsTar(ready[a])
    BY DEF TypeOK, IsStore
  <2>2. IsStore(ready') /\ IsStore(away')
    BY <1>4, <2>1, StorePut, StoreDrop DEF EvictTar, TypeOK
  <2> QED BY <1>4, <2>2 DEF EvictTar, TypeOK
<1>5. ASSUME NEW a \in DOMAIN away, FetchTar(a) PROVE TypeOK'
  <2>1. a \in ArchiveId /\ IsTar(away[a])
    BY DEF TypeOK, IsStore
  <2>2. IsStore(ready') /\ IsStore(away')
    BY <1>5, <2>1, StorePut, StoreDrop DEF FetchTar, TypeOK
  <2> QED BY <1>5, <2>2 DEF FetchTar, TypeOK
<1> QED BY <1>1, <1>2, <1>3, <1>4, <1>5 DEF UserStep

\* Queueing a file rewrites at most its own row and marks contents as used.
LEMMA AddToQueueType ==
    ASSUME TypeOK, NEW p \in Path, sv_backup_addtoqueue_cb(p)
    PROVE  IsDb(txn')
<1>1. IsDb(txn) /\ txn.coll \in Nat
  BY DEF TypeOK, IsDb
<1>2. ASSUME p \in DOMAIN txn.files PROVE txn.files[p] \in sv_file_row
  BY <1>1, <1>2 DEF IsDb, IsPartial
<1>3. CASE txn' = txn
  BY <1>1, <1>3
<1>4. CASE Unchanged(p) /\ txn.files[p].contents \in DOMAIN txn.contents
           /\ txn' = svdb_contents_setlastreferenced(
                    svdb_filesupdate(txn, p, [txn.files[p] EXCEPT
                                                !.mrc = txn.coll]),
                    txn.files[p].contents, txn.coll)
  <2> DEFINE row == [txn.files[p] EXCEPT !.mrc = txn.coll]
             d == svdb_filesupdate(txn, p, row)
  <2>1. row \in sv_file_row
    BY <1>1, <1>2, <1>4 DEF Unchanged, sv_file_row
  <2>2. IsDb(d) /\ d.contents = txn.contents
    BY <1>1, <2>1, FilesUpdateFacts
  <2> HIDE DEF d
  <2>3. IsDb(svdb_contents_setlastreferenced(d, txn.files[p].contents, txn.coll))
    BY <1>1, <1>4, <2>2, SetLastFacts
  <2> QED BY <1>4, <2>3 DEF d
<1>5. CASE p \in DOMAIN txn.files
           /\ txn' = svdb_filesupdate(txn, p, [txn.files[p] EXCEPT
                                             !.mrc = txn.coll,
                                             !.complete = FALSE])
  <2>1. [txn.files[p] EXCEPT !.mrc = txn.coll, !.complete = FALSE]
          \in sv_file_row
    BY <1>1, <1>2, <1>5 DEF sv_file_row
  <2> QED BY <1>1, <1>5, <2>1, FilesUpdateFacts
<1>6. CASE txn' = svdb_filesinsert(txn, p, 0)
  BY <1>1, <1>6, FilesInsertFacts
<1> QED BY <1>3, <1>4, <1>5, <1>6 DEF sv_backup_addtoqueue_cb

\* The row written for a file that was read.
LEMMA FileRowType ==
    ASSUME TypeOK, NEW p \in DOMAIN open, NEW c \in Nat
    PROVE  FileRow(c, p) \in sv_file_row
BY DEF TypeOK, IsPartial, OpenFile, FileRow, sv_file_row, IsDb

\* Reading a file yields a hash of some data.
LEMMA ReadHashType ==
    ASSUME TypeOK, NEW p \in DOMAIN open, separate(p) => p \in DOMAIN disk,
           NEW h \in ReadHashes(p)
    PROVE  h \in Hash
<1>1. Readable(p) \subseteq Data
  BY DEF TypeOK, IsPartial, OpenFile, FileOnDisk, Readable
<1>2. separate(p) => disk[p].data \in Data
  BY DEF TypeOK, IsPartial, FileOnDisk
<1>3. CASE \E d \in Readable(p) : h = sv_hasher_wholefile(d)
  BY <1>1, <1>3 DEF Hash
<1>4. CASE separate(p) /\ h \in get_audio_hash_without_tags(disk[p].data)
  BY <1>2, <1>4 DEF Hash
<1> QED BY <1>3, <1>4 DEF ReadHashes, Hash

LEMMA HashFileType == ASSUME TypeOK, NEW p \in Path, HashFile(p) PROVE TypeOK'
<1> USE DEF userVars, storeVars, planVars, histVars
<1>1. PICK h \in ReadHashes(p) : HashSeen(p, h) \/ HashNew(p, h)
  BY DEF HashFile
<1>2. p \in DOMAIN open /\ open[p] \in OpenFile /\ h \in Hash
  BY <1>1, ReadHashType DEF HashFile, TypeOK, IsPartial
<1>3. IsDb(txn) /\ txn.coll \in Nat /\ txn.next \in Nat
  BY DEF TypeOK, IsDb
<1>4. CASE HashSeen(p, h)
  <2>1. PICK c \in svdb_contentsbyhash(txn, h, open[p].len) :
          txn' = svdb_filesupdate(
                    svdb_contents_setlastreferenced(txn, c, txn.coll),
                    p, FileRow(c, p))
    BY <1>4 DEF HashSeen
  <2> DEFINE d == svdb_contents_setlastreferenced(txn, c, txn.coll)
  <2>2. c \in DOMAIN txn.contents /\ c \in Nat
    BY <1>3 DEF svdb_contentsbyhash, IsDb, IsPartial
  <2>3. IsDb(d)
    BY <1>3, <2>2, SetLastFacts
  <2>4. IsDb(txn')
    BY <1>2, <2>1, <2>2, <2>3, FilesUpdateFacts, FileRowType
  <2>5. IsPartial(open', Path, OpenFile) /\ pc' = "process"
    BY <1>4, EmptyTypes DEF HashSeen
  <2> QED BY <2>4, <2>5 DEF HashFile, TypeOK, BackupPhases
<1>5. CASE HashNew(p, h)
  <2>1. IsDb(txn')
    BY <1>3, <1>5, ContentsInsertFacts DEF HashNew
  <2>2. [open[p] EXCEPT !.hash = h, !.id = txn.next] \in OpenFile
    BY <1>2, <1>3 DEF OpenFile
  <2>3. open' = [open EXCEPT ![p] = [open[p] EXCEPT !.hash = h, !.id = txn.next]]
    BY <1>5, <1>2 DEF HashNew, TypeOK, IsPartial
  <2>4. IsPartial(open', Path, OpenFile) /\ pc' = "add"
    BY <1>5, <2>2, <2>3 DEF HashNew, TypeOK, IsPartial
  <2> QED BY <2>1, <2>4 DEF HashFile, TypeOK, BackupPhases
<1> QED BY <1>1, <1>4, <1>5

LEMMA ArchiveFileType ==
    ASSUME TypeOK, NEW p \in Path, NEW n, ArchiveFile(p, n)
    PROVE  TypeOK'
<1> USE DEF userVars
<1> DEFINE a == <<txn.coll, n>>
           c == open[p].id
           t == IF a \in DOMAIN staging THEN staging[a] ELSE EmptyFcn
           row == [hash |-> open[p].hash, len |-> open[p].len, arc |-> a,
                   last |-> txn.coll]
           d == svdb_contentsupdate(txn, c, row)
<1>1. /\ p \in DOMAIN open /\ p \in DOMAIN disk
      /\ open[p] \in OpenFile /\ disk[p] \in FileOnDisk
      /\ n \in Nat /\ txn.coll \in Nat /\ IsDb(txn)
  BY DEF ArchiveFile, TypeOK, IsPartial, IsDb
<1>2. /\ staging' = Put(staging, a, Put(t, c, disk[p].data))
      /\ txn' = svdb_filesupdate(d, p, FileRow(c, p))
      /\ archnum' = n /\ open' = EmptyFcn /\ pc' = "process"
      /\ UNCHANGED <<userVars, db, ready, away, removed, index, unseen, pending,
                   todelete, planVars, histVars>>
  BY Zenon DEF ArchiveFile
<1>3. a \in ArchiveId /\ c \in Nat /\ row \in sv_content_row
  BY <1>1 DEF ArchiveId, OpenFile, sv_content_row
<1>4. IsTar(t)
  BY EmptyTypes DEF TypeOK, IsStore
<1>5. IsTar(Put(t, c, disk[p].data))
  BY <1>1, <1>3, <1>4, PutType DEF IsTar, FileOnDisk
<1>6. IsStore(staging')
  BY <1>2, <1>3, <1>5, StorePut DEF TypeOK
<1>7. IsDb(d)
  BY <1>1, <1>3, ContentsUpdateFacts
<1>8. FileRow(c, p) \in sv_file_row
  BY <1>1, <1>3, FileRowType
<1> HIDE DEF a, c, t, row, d
<1>9. IsDb(txn')
  BY <1>2, <1>7, <1>8, FilesUpdateFacts
<1> QED
  BY <1>1, <1>2, <1>6, <1>9, EmptyTypes DEF TypeOK, BackupPhases, planVars, histVars

\* The steps of a backup keep the types.
LEMMA BackupType == TypeOK /\ BackupStep => TypeOK'
<1> SUFFICES ASSUME TypeOK, BackupStep PROVE TypeOK'
  OBVIOUS
<1> USE DEF userVars, storeVars, walkVars, planVars, histVars, BackupPhases
<1>0. IsDb(txn) /\ IsDb(db) /\ txn.coll \in Nat /\ db.coll \in Nat
  BY DEF TypeOK, IsDb
<1>1. ASSUME NEW p \in Path, QueueFile(p) PROVE TypeOK'
  <2>1. IsDb(txn')
    BY <1>1, AddToQueueType DEF QueueFile
  <2> QED BY <1>1, <2>1 DEF QueueFile, TypeOK
<1>2. ASSUME NEW p \in Path, SkipFile(p) PROVE TypeOK'
  BY <1>2 DEF SkipFile, TypeOK
<1>3. ASSUME NEW p \in Path, ProcessNoAccess(p) PROVE TypeOK'
  <2>1. txn.files[p].contents \in DOMAIN txn.contents =>
          IsDb(svdb_contents_setlastreferenced(
                 txn, txn.files[p].contents, txn.coll))
    BY <1>0, SetLastFacts
  <2>2. IsDb(txn')
    BY <1>0, <1>3, <2>1 DEF ProcessNoAccess
  <2> QED BY <1>3, <2>2 DEF ProcessNoAccess, TypeOK
<1>4. ASSUME NEW p \in Path, ProcessNotFound(p) PROVE TypeOK'
  BY <1>4 DEF ProcessNotFound, TypeOK
<1>5. ASSUME NEW p \in Path, ProcessOpen(p) PROVE TypeOK'
  <2> DEFINE o == [data |-> disk[p].data, hash |-> hash256zeros,
                   len |-> adjustfilesize_if_audio_file(disk[p].data, separate(p)),
                   lmt |-> disk[p].lmt, id |-> 0]
  <2>1. o \in OpenFile
    BY <1>5, SizeType DEF ProcessOpen, TypeOK, IsPartial, FileOnDisk, OpenFile, Hash,
                          adjustfilesize_if_audio_file, AudioFilesizePlaceholder
  <2>2. open' = Put(EmptyFcn, p, o)
    BY <1>5 DEF ProcessOpen
  <2> HIDE DEF o
  <2>3. IsPartial(open', Path, OpenFile)
    BY <2>1, <2>2, EmptyTypes, PutType
  <2> QED BY <1>5, <2>3 DEF ProcessOpen, TypeOK
<1>6. ASSUME NEW p \in Path, HashFile(p) PROVE TypeOK'
  BY <1>6, HashFileType
<1>7. ASSUME NEW p \in Path, NEW n \in {archnum, archnum + 1}, ArchiveFile(p, n)
      PROVE TypeOK'
  BY <1>7, ArchiveFileType
<1>8. CASE sv_backup_fromtextfile
  BY <1>8, ManualType DEF sv_backup_fromtextfile, TypeOK
<1>9. CASE ar_manager_begin
  <2>1. svdb_files_iter(txn, txn.coll) \subseteq Path
    BY <1>0 DEF svdb_files_iter, IsDb, IsPartial
  <2> QED BY <1>9, <2>1, EmptyTypes DEF ar_manager_begin, TypeOK
<1>10. CASE EndQueue
  <2>1. IsDb(txn')
    BY <1>0, <1>10, FilesDeleteFacts DEF EndQueue
  <2> QED BY <1>10, <2>1 DEF EndQueue, TypeOK
<1>11. CASE CleanReady
  <2>1. IsStore(ready')
    BY <1>11, StoreDrop DEF CleanReady, TypeOK
  <2> QED BY <1>11, <2>1 DEF CleanReady, TypeOK
<1>12. ASSUME NEW a \in DOMAIN staging, MoveTar(a) PROVE TypeOK'
  <2>1. a \in ArchiveId /\ IsTar(staging[a])
    BY DEF TypeOK, IsStore
  <2>2. IsStore(ready') /\ IsStore(staging')
    BY <1>12, <2>1, StorePut, StoreDrop DEF MoveTar, TypeOK
  <2> QED BY <1>12, <2>2 DEF MoveTar, TypeOK
<1>13. CASE EndMove
  BY <1>13 DEF EndMove, TypeOK
<1>14. CASE RecordAndCommit
  <2> DEFINE S == {[arc |-> a, needed |-> TRUE, sum |-> ready[a]] :
                     a \in {b \in DOMAIN ready : b[1] = txn.coll}}
  <2>1. \A r \in S : IsChecksumRow(r)
    <3>1. ASSUME NEW a \in DOMAIN ready
          PROVE  IsChecksumRow([arc |-> a, needed |-> TRUE, sum |-> ready[a]])
      BY ChecksumRowType DEF TypeOK, IsStore
    <3> QED BY <3>1
  <2>2. db' = [txn EXCEPT !.archives = @ \cup S]
    BY <1>14 DEF RecordAndCommit
  <2> HIDE DEF S
  <2>3. IsDb(db')
    BY <1>0, <2>1, <2>2, AddArchives
  <2> QED BY <1>14, <2>3 DEF RecordAndCommit, TypeOK
<1>15. CASE CopyDb
  <2>1. IsIndex(index')
    BY <1>0, <1>15, IndexPut, EmptyDbType DEF CopyDb, os_copy, TypeOK
  <2> QED BY <1>15, <2>1, EndOperationType DEF CopyDb, TypeOK
<1> QED BY <1>1, <1>2, <1>3, <1>4, <1>5, <1>6, <1>7, <1>8, <1>9, <1>10, <1>11,
           <1>12, <1>13, <1>14, <1>15 DEF BackupStep

\* What compaction plans to delete are sets of contents ids, by archive.
LEMMA PlanTypes ==
    ASSUME TypeOK, NEW S \in SUBSET Archives(db), NEW k, NEW thorough
    PROVE  IsPartial([a \in S |-> old_individual_files(db, a, k, thorough)],
                     ArchiveId, SUBSET Nat)
<1>1. Archives(db) \subseteq ArchiveId
  BY DEF TypeOK, IsDb, IsPartial, Archives, sv_content_row
<1>2. \A a : old_individual_files(db, a, k, thorough) \subseteq Nat
  BY DEF TypeOK, IsDb, IsPartial, old_individual_files, Old
<1> QED BY <1>1, <1>2 DEF IsPartial

\* Shortening a plan keeps it typed.
LEMMA PlanDrop ==
    ASSUME NEW x, IsPlan(x), NEW a
    PROVE  /\ IsPlan([x EXCEPT !.remove = Drop(@, {a})])
           /\ IsPlan([x EXCEPT !.strip = Drop(@, {a})])
<1>1. /\ IsPartial(Drop(x.remove, {a}), ArchiveId, SUBSET Nat)
      /\ IsPartial(Drop(x.strip, {a}), ArchiveId, SUBSET Nat)
  BY DropType DEF IsPlan
<1>2. [x EXCEPT !.remove = Drop(@, {a})]
        = [cutoff |-> x.cutoff, remove |-> Drop(x.remove, {a}),
           strip |-> x.strip]
  BY DEF IsPlan
<1>3. [x EXCEPT !.strip = Drop(@, {a})]
        = [cutoff |-> x.cutoff, remove |-> x.remove,
           strip |-> Drop(x.strip, {a})]
  BY DEF IsPlan
<1> QED BY <1>1, <1>2, <1>3 DEF IsPlan

\* The steps of a compaction keep the types.
LEMMA CompactType == TypeOK /\ CompactStep => TypeOK'
<1> SUFFICES ASSUME TypeOK, CompactStep PROVE TypeOK'
  OBVIOUS
<1> USE DEF userVars, storeVars, walkVars, planVars, histVars, BackupPhases, CompactPhases
<1>0. IsDb(db) /\ IsPlan(plan)
  BY DEF TypeOK
<1>1. CASE RemoveRows
  <2> DEFINE d == svdb_contents_bulk_delete(db, UNION Range(plan.remove))
             S == {[arc |-> a, needed |-> FALSE, sum |-> EmptyFcn] :
                     a \in DOMAIN plan.remove}
  <2>1. IsDb(d)
    BY <1>0, BulkDeleteFacts
  <2>2. \A r \in S : IsChecksumRow(r)
    <3>1. ASSUME NEW a \in DOMAIN plan.remove
          PROVE  IsChecksumRow([arc |-> a, needed |-> FALSE, sum |-> EmptyFcn])
      BY <1>0, EmptyTypes, ChecksumRowType DEF IsPlan, IsPartial
    <3> QED BY <3>1
  <2>3. db' = [d EXCEPT !.archives = @ \cup S]
    BY <1>1 DEF RemoveRows
  <2> HIDE DEF d, S
  <2>4. IsDb(db')
    BY <2>1, <2>2, <2>3, AddArchives
  <2>5. floor' \in Nat
    BY <1>0, <1>1 DEF RemoveRows, IsPlan, TypeOK
  <2> QED BY <1>1, <2>4, <2>5 DEF RemoveRows, TypeOK
<1>2. CASE StripRows
  <2>1. IsDb(db')
    BY <1>0, <1>2, BulkDeleteFacts DEF StripRows
  <2> QED BY <1>2, <2>1 DEF StripRows, TypeOK
<1>3. CASE EndCompact
  BY <1>3, EndOperationType DEF EndCompact, TypeOK
<1>4. ASSUME NEW a \in DOMAIN plan.remove, RemoveTar(a) PROVE TypeOK'
  <2>1. IsStore(ready') /\ removed' \subseteq ArchiveId
    BY <1>0, <1>4, StoreDrop DEF RemoveTar, TypeOK, IsPlan, IsPartial
  <2>2. IsPlan(plan')
    BY <1>0, <1>4, PlanDrop DEF RemoveTar
  <2> QED BY <1>4, <2>1, <2>2 DEF RemoveTar, TypeOK
<1>5. ASSUME NEW a \in DOMAIN plan.strip, StripTar(a) PROVE TypeOK'
  <2>1. a \in ArchiveId
    BY <1>0 DEF IsPlan, IsPartial
  <2>2. IsPlan(plan') /\ pc' \in CompactPhases /\ stripped' \subseteq ArchiveId
    BY <1>0, <1>5, <2>1, PlanDrop DEF StripTar, TypeOK
  <2>3. a \in DOMAIN ready => IsTar(Drop(ready[a], plan.strip[a]))
    BY DropType DEF IsTar, TypeOK, IsStore
  <2>4. IsStore(ready')
    BY <1>5, <2>1, <2>3, StorePut DEF StripTar, TypeOK
  <2> QED BY <1>5, <2>2, <2>4 DEF StripTar, TypeOK
<1>6. ASSUME NEW a \in stripped, StripChecksum(a) PROVE TypeOK'
  <2>1. IsChecksumRow([arc |-> a, needed |-> TRUE, sum |-> ready[a]])
    BY <1>6, ChecksumRowType DEF StripChecksum, TypeOK, IsStore
  <2> DEFINE S == {[arc |-> a, needed |-> TRUE, sum |-> ready[a]]}
  <2>2. \A r \in S : IsChecksumRow(r)
    BY <2>1
  <2>3. db' = [db EXCEPT !.archives = @ \cup S]
    BY <1>6 DEF StripChecksum, write_archive_checksum, svdb_archives_write_checksum
  <2> HIDE DEF S
  <2>4. IsDb(db')
    BY <1>0, <2>2, <2>3, AddArchives
  <2> QED BY <1>6, <2>4 DEF StripChecksum, TypeOK
<1> QED BY <1>1, <1>2, <1>3, <1>4, <1>5, <1>6 DEF CompactStep

LEMMA StartType == TypeOK /\ StartStep => TypeOK'
<1> SUFFICES ASSUME TypeOK, StartStep PROVE TypeOK'
  OBVIOUS
<1> USE DEF userVars, storeVars, walkVars, planVars, histVars, BackupPhases, CompactPhases
<1>0. IsDb(db)
  BY DEF TypeOK
<1>1. CASE sv_backup
  <2>1. IsDb(txn')
    BY <1>0, <1>1, CollectionInsertFacts DEF sv_backup
  <2> QED BY <1>1, <2>1 DEF sv_backup, TypeOK, Group
<1>2. ASSUME NEW thorough \in CompactModes, NEW k \in 1..db.coll,
             NEW strip \in SUBSET MayStrip(db, k, thorough),
             sv_compact(thorough, k, strip)
      PROVE  TypeOK'
  <2>1. ToRemove(db, k) \subseteq Archives(db) /\ strip \subseteq Archives(db)
    BY DEF ToRemove, MayStrip
  <2> DEFINE r == [a \in ToRemove(db, k) |->
                              old_individual_files(db, a, k, thorough)]
             s == [a \in strip |-> old_individual_files(db, a, k, thorough)]
  <2>2. IsPartial(r, ArchiveId, SUBSET Nat) /\ IsPartial(s, ArchiveId, SUBSET Nat)
    BY <2>1, PlanTypes
  <2>3. plan' = [cutoff |-> k, remove |-> r, strip |-> s] /\ k \in Nat
    BY <1>0, <1>2 DEF sv_compact, IsDb
  <2> HIDE DEF r, s
  <2>4. IsPlan(plan')
    BY <2>2, <2>3 DEF IsPlan
  <2> QED BY <1>2, <2>4 DEF sv_compact, TypeOK
<1>3. ASSUME NEW k \in DOMAIN index, sv_app_findgroupnames(k) PROVE TypeOK'
  <2>1. IsDb(db')
    BY <1>3 DEF sv_app_findgroupnames, TypeOK, IsIndex
  <2> QED BY <1>3, <2>1 DEF sv_app_findgroupnames, TypeOK
<1> QED BY <1>1, <1>2, <1>3 DEF StartStep

LEMMA AbortType == TypeOK /\ Abort => TypeOK'
BY EndOperationType DEF Abort, TypeOK, userVars, storeVars

\* Every variable keeps its type, whatever the environment does.
THEOREM TypeCorrect == Spec => []TypeOK
<1>1. TypeOK /\ [Next]_vars => TypeOK'
  <2> SUFFICES ASSUME TypeOK, [Next]_vars PROVE TypeOK'
    OBVIOUS
  <2>1. CASE UNCHANGED vars
    BY <2>1 DEF vars, TypeOK
  <2> QED BY <2>1, BackupType, CompactType, AbortType, UserType, StartType DEF Next
<1> QED BY <1>1, InitTypeOK, PTL DEF Spec

-----------------------------------------------------------------------------
(* Facts about types that the steps below rest on. *)

\* Of the index and the open transaction.
LEMMA DbFacts ==
    ASSUME TypeOK
    PROVE  /\ IsDb(db) /\ IsDb(txn)
           /\ db.coll \in Nat /\ txn.coll \in Nat
           /\ db.next \in Nat /\ txn.next \in Nat
           /\ floor \in Nat
           /\ \A c \in DOMAIN db.contents :
                c \in Nat /\ db.contents[c].last \in Nat
           /\ \A c \in DOMAIN txn.contents :
                c \in Nat /\ txn.contents[c].last \in Nat
BY DEF TypeOK, IsDb, IsPartial, sv_content_row

LEMMA ArcFacts ==
    ASSUME TypeOK
    PROVE  /\ \A c \in DOMAIN db.contents :
                db.contents[c].arc \in ArchiveId /\ db.contents[c].arc[1] \in Nat
           /\ \A c \in DOMAIN txn.contents :
                txn.contents[c].arc \in ArchiveId /\ txn.contents[c].arc[1] \in Nat
           /\ \A a \in DOMAIN ready \cup DOMAIN away \cup DOMAIN staging \cup removed :
                a \in ArchiveId /\ a[1] \in Nat
<1>1. \A a \in ArchiveId : a[1] \in Nat
  BY DEF ArchiveId
<1> QED BY <1>1 DEF TypeOK, IsDb, IsPartial, sv_content_row, IsStore

LEMMA PlanFacts ==
    ASSUME TypeOK
    PROVE  /\ plan.cutoff \in Nat
           /\ \A a \in DOMAIN plan.remove : a \in ArchiveId /\ a[1] \in Nat
           /\ \A a \in DOMAIN plan.strip : a \in ArchiveId
BY DEF TypeOK, IsPlan, IsPartial, ArchiveId

\* Nothing is backed up yet.
LEMMA CoreInit == Init => CoreInv
<1> SUFFICES ASSUME Init PROVE CoreInv
  OBVIOUS
<1>1. /\ DOMAIN db.files = {} /\ DOMAIN db.contents = {} /\ db.coll = 0
      /\ DOMAIN index = {} /\ pc = "idle" /\ DOMAIN open = {}
  BY DEF Init, EmptyDb, EmptyFcn
<1> QED
  BY <1>1 DEF CoreInv, CommittedRows, FilesLive, RowIds, TxnKeeps, TxnTars,
              TxnFiles, OpenOnce, PlanExpired, InTxn, BackupPhases, CompactPhases

-----------------------------------------------------------------------------
(* CoreInv, which holds whatever happens around the program: first the steps   *)
(* that leave the committed index alone.                                       *)

LEMMA RowsKept ==
    ASSUME CoreInv, UNCHANGED <<db, index>>
    PROVE  CommittedRows'
BY DEF CoreInv, CommittedRows, FilesLive, RowIds

\* The transaction only marks contents as used in this collection.
Touched ==
    /\ txn'.coll = txn.coll /\ txn'.next \in Nat /\ txn'.next >= txn.next
    /\ DOMAIN txn'.contents = DOMAIN txn.contents
    /\ \A c \in DOMAIN txn.contents :
         /\ txn'.contents[c].arc = txn.contents[c].arc
         /\ \/ txn'.contents[c].last = txn.contents[c].last
            \/ txn'.contents[c].last = txn.coll

LEMMA TouchKeeps ==
    ASSUME TypeOK, CoreInv, Touched, UNCHANGED <<db, staging>>,
           InTxn, InTxn',
           pc \notin {"move", "sums"}, pc' \notin {"move", "sums"},
           pc \in {"queue", "manual"} <=> pc' \in {"queue", "manual"}
    PROVE  TxnKeeps' /\ TxnTars'
<1>1. TxnKeeps'
  BY DbFacts DEF CoreInv, TxnKeeps, CommittedRows, RowIds, Touched
<1>2. TxnTars'
  BY DbFacts DEF CoreInv, TxnTars, InNewTar, Touched
<1> QED BY <1>1, <1>2

\* A row that is complete and not rewritten stays complete.
LEMMA LiveKept ==
    ASSUME Touched, NEW p, Live(p), txn'.files[p] = txn.files[p]
    PROVE  Live(p)'
BY DEF Touched, Live

\* A step of a backup that touches the store not at all.
QuietStep ==
    /\ UNCHANGED <<db, staging, index>>
    /\ InTxn /\ InTxn'
    /\ pc \notin {"move", "sums"} /\ pc' \notin {"move", "sums"}
    /\ pc \in {"queue", "manual"} <=> pc' \in {"queue", "manual"}

LEMMA QuietKeeps ==
    ASSUME TypeOK, CoreInv, Touched, QuietStep, TxnFiles', OpenOnce'
    PROVE  CoreInv'
<1>1. CommittedRows'
  BY RowsKept DEF QuietStep
<1>2. TxnKeeps' /\ TxnTars'
  BY TouchKeeps DEF QuietStep
<1>3. PlanExpired'
  BY DEF QuietStep, InTxn, PlanExpired, BackupPhases, CompactPhases
<1> QED BY <1>1, <1>2, <1>3 DEF CoreInv
\* A file is queued: its row is refreshed, or waits for the queue pass.
LEMMA QueueKeeps ==
    ASSUME TypeOK, CoreInv, NEW p \in Path, QueueFile(p)
    PROVE  CoreInv'
<1> USE DEF userVars, storeVars, planVars, histVars
<1>0. /\ IsDb(txn) /\ txn.coll \in Nat /\ txn.next \in Nat
      /\ pc \in {"queue", "manual"} /\ pc' = pc
      /\ UNCHANGED <<db, staging, index, open>>
  BY DbFacts DEF QueueFile
<1>1. QuietStep
  BY <1>0 DEF QuietStep, InTxn, BackupPhases
<1>2. OpenOnce'
  BY <1>0 DEF CoreInv, OpenOnce
<1>3. /\ \A q \in DOMAIN txn.files : txn.files[q].mrc <= txn.coll
      /\ \A q \in DOMAIN txn.files :
           txn.files[q].complete /\ txn.files[q].mrc = txn.coll => Live(q)
  BY <1>0 DEF CoreInv, TxnFiles, InTxn, BackupPhases
<1>4. Touched /\ \A q \in DOMAIN txn'.files :
           /\ txn'.files[q].mrc <= txn'.coll
           /\ txn'.files[q].complete /\ txn'.files[q].mrc = txn'.coll => Live(q)'
  <2>0. ASSUME p \in DOMAIN txn.files PROVE txn.files[p] \in sv_file_row
    BY <1>0, <2>0 DEF IsDb, IsPartial
  <2>1. CASE txn' = txn
    BY <1>0, <1>3, <2>1 DEF Touched, Live
  <2>2. CASE Unchanged(p) /\ txn.files[p].contents \in DOMAIN txn.contents
             /\ txn' = svdb_contents_setlastreferenced(
                    svdb_filesupdate(txn, p, [txn.files[p] EXCEPT
                                                !.mrc = txn.coll]),
                    txn.files[p].contents, txn.coll)
    <3> DEFINE row == [txn.files[p] EXCEPT !.mrc = txn.coll]
               d == svdb_filesupdate(txn, p, row)
               c == txn.files[p].contents
    <3>1. row \in sv_file_row /\ row.mrc = txn.coll /\ row.contents = c
      BY <1>0, <2>0, <2>2 DEF Unchanged, sv_file_row
    <3>2. /\ IsDb(d) /\ d.contents = txn.contents
          /\ DOMAIN d.files = DOMAIN txn.files \cup {p} /\ d.files[p] = row
          /\ \A q \in DOMAIN txn.files : q # p => d.files[q] = txn.files[q]
          /\ d.coll = txn.coll /\ d.next = txn.next
      BY <1>0, <3>1, FilesUpdateFacts
    <3>3. c \in DOMAIN d.contents
      BY <2>2, <3>2
    <3> HIDE DEF row, d, c
    <3>4. /\ DOMAIN txn'.contents = DOMAIN d.contents
          /\ txn'.contents[c].last = txn.coll
          /\ \A x \in DOMAIN d.contents :
                /\ txn'.contents[x].arc = d.contents[x].arc
                /\ x # c => txn'.contents[x] = d.contents[x]
          /\ txn'.files = d.files /\ txn'.coll = d.coll /\ txn'.next = d.next
      <4>1. txn' = svdb_contents_setlastreferenced(d, c, txn.coll)
        BY <2>2 DEF row, d, c
      <4> QED BY <1>0, <3>2, <3>3, <4>1, SetLastFacts
    <3>5. Touched
      BY <1>0, <3>2, <3>4 DEF Touched
    <3>6. Live(p)'
      BY <2>2, <3>1, <3>2, <3>4 DEF Live, c
    <3>7. ASSUME NEW q \in DOMAIN txn'.files, q # p
          PROVE  /\ q \in DOMAIN txn.files /\ txn'.files[q] = txn.files[q]
                 /\ Live(q) => Live(q)'
      BY <3>2, <3>4, <3>5, <3>7, LiveKept
    <3> QED BY <1>0, <1>3, <3>1, <3>2, <3>4, <3>5, <3>6, <3>7
  <2>3. CASE p \in DOMAIN txn.files
             /\ txn' = svdb_filesupdate(txn, p, [txn.files[p] EXCEPT
                                             !.mrc = txn.coll,
                                             !.complete = FALSE])
    <3> DEFINE row == [txn.files[p] EXCEPT !.mrc = txn.coll, !.complete = FALSE]
    <3>1. row \in sv_file_row /\ row.mrc = txn.coll /\ row.complete = FALSE
      BY <1>0, <2>0, <2>3 DEF sv_file_row
    <3>2. txn' = svdb_filesupdate(txn, p, row)
      BY <2>3
    <3> HIDE DEF row
    <3>3. /\ txn'.contents = txn.contents
          /\ DOMAIN txn'.files = DOMAIN txn.files \cup {p} /\ txn'.files[p] = row
          /\ \A q \in DOMAIN txn.files : q # p => txn'.files[q] = txn.files[q]
          /\ txn'.coll = txn.coll /\ txn'.next = txn.next
      BY <1>0, <3>1, <3>2, FilesUpdateFacts
    <3>4. Touched
      BY <1>0, <3>3 DEF Touched
    <3>5. ASSUME NEW q \in DOMAIN txn'.files, q # p
          PROVE  /\ q \in DOMAIN txn.files /\ txn'.files[q] = txn.files[q]
                 /\ Live(q) => Live(q)'
      BY <3>3, <3>4, <3>5, LiveKept
    <3> QED BY <1>0, <1>3, <3>1, <3>3, <3>4, <3>5
  <2>4. CASE txn' = svdb_filesinsert(txn, p, 0)
    <3>1. /\ txn'.contents = txn.contents
          /\ DOMAIN txn'.files = DOMAIN txn.files \cup {p}
          /\ txn'.files[p] = NewFileRow(0)
          /\ \A q \in DOMAIN txn.files : q # p => txn'.files[q] = txn.files[q]
          /\ txn'.coll = txn.coll /\ txn'.next = txn.next
      BY <1>0, <2>4, FilesInsertFacts
    <3>2. txn'.files[p].mrc = 0 /\ txn'.files[p].complete = FALSE
      BY <3>1 DEF NewFileRow
    <3>3. Touched
      BY <1>0, <3>1 DEF Touched
    <3>4. ASSUME NEW q \in DOMAIN txn'.files, q # p
          PROVE  /\ q \in DOMAIN txn.files /\ txn'.files[q] = txn.files[q]
                 /\ Live(q) => Live(q)'
      BY <3>1, <3>3, <3>4, LiveKept
    <3> QED BY <1>0, <1>3, <3>1, <3>2, <3>3, <3>4
  <2> QED BY <2>1, <2>2, <2>3, <2>4 DEF QueueFile, sv_backup_addtoqueue_cb
<1>5. TxnFiles'
  BY <1>0, <1>4 DEF TxnFiles
<1> QED BY <1>1, <1>2, <1>4, <1>5, QuietKeeps

\* Steps of the walk and of the queue pass that leave the transaction alone.
LEMMA WalkKeeps ==
    ASSUME TypeOK, CoreInv, NEW p,
           \/ SkipFile(p) \/ ProcessNotFound(p) \/ ProcessOpen(p)
           \/ sv_backup_fromtextfile
    PROVE  CoreInv'
<1> USE DEF userVars, storeVars, planVars, histVars, BackupPhases
<1>0. txn.next \in Nat /\ Touched
  <2>1. txn.next \in Nat /\ txn' = txn
    BY DbFacts DEF SkipFile, ProcessNotFound, ProcessOpen, sv_backup_fromtextfile
  <2> QED BY <2>1 DEF Touched
<1>1. QuietStep
  BY DEF SkipFile, ProcessNotFound, ProcessOpen, sv_backup_fromtextfile,
         QuietStep, InTxn
<1>2. TxnFiles' /\ OpenOnce'
  <2>1. CASE SkipFile(p)
    BY <2>1 DEF CoreInv, TxnFiles, OpenOnce, InTxn, Live, SkipFile
  <2>2. CASE ProcessNotFound(p)
    BY <2>2 DEF CoreInv, TxnFiles, OpenOnce, InTxn, Live, ProcessNotFound
  <2>3. CASE ProcessOpen(p)
    <3>0. PICK o : open' = Put(EmptyFcn, p, o)
      BY <2>3 DEF ProcessOpen
    <3>1. DOMAIN open' = {p}
      BY <3>0 DEF Put, EmptyFcn
    <3>2. /\ pc = "process" /\ pc' = "hash" /\ txn' = txn /\ DOMAIN open = {}
          /\ todelete' = todelete /\ pending' = pending \ {p}
      BY <2>3 DEF CoreInv, OpenOnce, ProcessOpen
    <3> QED BY <3>1, <3>2 DEF CoreInv, TxnFiles, OpenOnce, InTxn, Live
  <2>4. CASE sv_backup_fromtextfile
    BY <2>4 DEF CoreInv, TxnFiles, OpenOnce, InTxn, Live, sv_backup_fromtextfile
  <2> QED BY <2>1, <2>2, <2>3, <2>4
<1> QED BY <1>0, <1>1, <1>2, QuietKeeps

\* A file that cannot be opened is dropped, or kept with what it last had.
LEMMA NoAccessKeeps ==
    ASSUME TypeOK, CoreInv, NEW p \in Path, ProcessNoAccess(p)
    PROVE  CoreInv'
<1> USE DEF userVars, storeVars, planVars, histVars, BackupPhases
<1>0. /\ IsDb(txn) /\ txn.coll \in Nat /\ txn.next \in Nat
      /\ pc = "process" /\ pc' = "process" /\ DOMAIN open = {}
      /\ UNCHANGED <<db, staging, index, open>>
  BY DbFacts DEF ProcessNoAccess, CoreInv, OpenOnce
<1>1. QuietStep
  BY <1>0 DEF QuietStep, InTxn
<1>2. OpenOnce'
  BY <1>0 DEF OpenOnce
<1>3. /\ \A q \in DOMAIN txn.files : txn.files[q].mrc <= txn.coll
      /\ \A q \in DOMAIN txn.files \ (pending \cup todelete) : Live(q)
  BY <1>0 DEF CoreInv, TxnFiles, InTxn
<1>4. CASE todelete' = todelete \cup {p} /\ txn' = txn
  <2>1. Touched
    BY <1>0, <1>4 DEF Touched
  <2>2. TxnFiles'
    BY <1>0, <1>3, <1>4 DEF TxnFiles, Live, ProcessNoAccess
  <2> QED BY <1>1, <1>2, <2>1, <2>2, QuietKeeps
<1>5. CASE /\ txn.files[p].contents \in DOMAIN txn.contents
           /\ txn' = svdb_contents_setlastreferenced(
                        txn, txn.files[p].contents, txn.coll)
           /\ UNCHANGED todelete
  <2>1. /\ DOMAIN txn'.contents = DOMAIN txn.contents
        /\ txn'.contents[txn.files[p].contents].last = txn.coll
        /\ \A x \in DOMAIN txn.contents :
              /\ txn'.contents[x].arc = txn.contents[x].arc
              /\ x # txn.files[p].contents => txn'.contents[x] = txn.contents[x]
        /\ txn'.files = txn.files /\ txn'.coll = txn.coll /\ txn'.next = txn.next
    BY <1>0, <1>5, SetLastFacts
  <2>2. Touched
    BY <1>0, <2>1 DEF Touched
  <2>3. Live(p)'
    BY <1>5, <2>1 DEF Live
  <2>4. \A q : Live(q) => Live(q)'
    BY <2>1, <2>2, LiveKept
  <2>5. TxnFiles'
    BY <1>0, <1>3, <1>5, <2>1, <2>3, <2>4 DEF TxnFiles, ProcessNoAccess
  <2> QED BY <1>1, <1>2, <2>2, <2>5, QuietKeeps
<1> QED BY <1>4, <1>5 DEF ProcessNoAccess

\* The file has contents already archived, or gets an id of its own for them.
LEMMA HashKeeps ==
    ASSUME TypeOK, CoreInv, NEW p \in Path, HashFile(p)
    PROVE  CoreInv'
<1> USE DEF userVars, storeVars, planVars, histVars, BackupPhases
<1>0. /\ IsDb(txn) /\ txn.coll \in Nat /\ txn.next \in Nat
      /\ pc = "hash" /\ DOMAIN open = {p} /\ open[p] \in OpenFile
      /\ UNCHANGED <<db, staging, index, pending,
                     todelete>>
  BY DbFacts DEF HashFile, CoreInv, OpenOnce, TypeOK, IsPartial
<1>1. /\ \A q \in DOMAIN txn.files : txn.files[q].mrc <= txn.coll
      /\ \A q \in DOMAIN txn.files \ (pending \cup todelete \cup {p}) : Live(q)
      /\ \A c \in DOMAIN txn.contents : c \in Nat /\ c < txn.next
  BY <1>0, DbFacts DEF CoreInv, TxnFiles, TxnTars, InTxn
<1>2. PICK h \in ReadHashes(p) : HashSeen(p, h) \/ HashNew(p, h)
  BY DEF HashFile
<1>3. CASE HashSeen(p, h)
  <2>1. PICK c \in svdb_contentsbyhash(txn, h, open[p].len) :
          txn' = svdb_filesupdate(
                    svdb_contents_setlastreferenced(txn, c, txn.coll),
                    p, FileRow(c, p))
    BY <1>3 DEF HashSeen
  <2> DEFINE d == svdb_contents_setlastreferenced(txn, c, txn.coll)
  <2>2. c \in DOMAIN txn.contents /\ c \in Nat
    BY <1>1 DEF svdb_contentsbyhash
  <2>3. /\ IsDb(d)
        /\ DOMAIN d.contents = DOMAIN txn.contents
        /\ d.contents[c].last = txn.coll
        /\ \A x \in DOMAIN txn.contents :
              /\ d.contents[x].arc = txn.contents[x].arc
              /\ x # c => d.contents[x] = txn.contents[x]
        /\ d.files = txn.files /\ d.coll = txn.coll /\ d.next = txn.next
    BY <1>0, <2>2, SetLastFacts
  <2>4. FileRow(c, p) \in sv_file_row
    BY <1>0, <2>2, FileRowType
  <2>5. FileRow(c, p).contents = c /\ FileRow(c, p).mrc = txn.coll
    BY DEF FileRow
  <2> HIDE DEF d
  <2>6. /\ DOMAIN txn'.files = DOMAIN txn.files \cup {p}
        /\ txn'.files[p] = FileRow(c, p)
        /\ \A q \in DOMAIN txn.files : q # p => txn'.files[q] = txn.files[q]
        /\ txn'.contents = d.contents
        /\ txn'.coll = txn.coll /\ txn'.next = txn.next
    <3>1. txn' = svdb_filesupdate(d, p, FileRow(c, p))
      BY <2>1 DEF d
    <3> QED BY <2>3, <2>4, <3>1, FilesUpdateFacts
  <2>7. Touched
    BY <1>0, <2>3, <2>6 DEF Touched
  <2>8. Live(p)'
    BY <2>2, <2>3, <2>5, <2>6 DEF Live
  <2>9. ASSUME NEW q \in DOMAIN txn'.files, q # p
        PROVE  /\ q \in DOMAIN txn.files /\ txn'.files[q] = txn.files[q]
               /\ Live(q) => Live(q)'
    BY <2>6, <2>7, <2>9, LiveKept
  <2>10. pc' = "process" /\ DOMAIN open' = {}
    BY <1>3, EmptyFacts DEF HashSeen
  <2>11. TxnFiles'
    BY <1>0, <1>1, <2>5, <2>6, <2>8, <2>9, <2>10 DEF TxnFiles
  <2>12. OpenOnce' /\ QuietStep
    BY <1>0, <2>10 DEF OpenOnce, QuietStep, InTxn
  <2> QED BY <2>7, <2>11, <2>12, QuietKeeps
<1>4. CASE HashNew(p, h)
  <2>1. /\ txn'.next = txn.next + 1
        /\ txn'.files = txn.files /\ txn'.contents = txn.contents
        /\ txn'.coll = txn.coll
    BY <1>0, <1>4, ContentsInsertFacts DEF HashNew
  <2>2. pc' = "add" /\ DOMAIN open' = {p} /\ open'[p].id = txn.next
    <3>1. open' = [open EXCEPT ![p] = [open[p] EXCEPT !.hash = h, !.id = txn.next]]
      BY <1>0, <1>4 DEF HashNew, TypeOK, IsPartial
    <3>2. [open[p] EXCEPT !.hash = h, !.id = txn.next].id = txn.next
      BY <1>0 DEF OpenFile
    <3>3. open'[p] = [open[p] EXCEPT !.hash = h, !.id = txn.next]
      BY <1>0, <3>1
    <3> QED BY <1>0, <1>4, <3>1, <3>2, <3>3 DEF HashNew
  <2>3. Touched
    BY <1>0, <2>1 DEF Touched
  <2>4. TxnFiles'
    BY <1>0, <1>1, <2>1, <2>2 DEF TxnFiles, Live
  <2>5. OpenOnce' /\ QuietStep
    BY <1>0, <2>2 DEF OpenOnce, QuietStep, InTxn
  <2> QED BY <2>3, <2>4, <2>5, QuietKeeps
<1> QED BY <1>2, <1>3, <1>4

\* Rows the queue pass does not visit are those this backup has refreshed.
LEMMA BeginKeeps ==
    ASSUME TypeOK, CoreInv, ar_manager_begin
    PROVE  CoreInv'
<1> USE DEF userVars, planVars, histVars, BackupPhases
<1>0. /\ txn.coll \in Nat /\ pc = "manual" /\ pc' = "process"
      /\ staging' = EmptyFcn /\ DOMAIN staging' = {}
      /\ UNCHANGED <<db, txn, index, open>>
      /\ DOMAIN open = {}
  BY DbFacts, EmptyFacts DEF ar_manager_begin, CoreInv, OpenOnce
<1>1. CommittedRows'
  BY <1>0, RowsKept
<1>2. TxnKeeps'
  BY <1>0 DEF CoreInv, TxnKeeps, InTxn
<1>3. TxnTars'
  BY <1>0 DEF CoreInv, TxnTars, InTxn, InNewTar
<1>4. ASSUME NEW p \in DOMAIN txn.files, p \notin pending'
      PROVE  Live(p)'
  <2>1. txn.files[p] \in sv_file_row
    BY DEF TypeOK, IsDb, IsPartial
  <2>2. txn.files[p].mrc \in Nat /\ txn.files[p].complete \in BOOLEAN
    BY <2>1 DEF sv_file_row
  <2>3. txn.files[p].mrc <= txn.coll
    BY <1>0 DEF CoreInv, TxnFiles, InTxn
  <2>4. /\ ~ (txn.files[p].mrc < txn.coll)
        /\ ~ (txn.files[p].mrc = txn.coll /\ ~ txn.files[p].complete)
    BY <1>4 DEF ar_manager_begin, svdb_files_iter
  <2>5. txn.files[p].mrc = txn.coll /\ txn.files[p].complete
    BY <1>0, <2>2, <2>3, <2>4
  <2>6. Live(p)
    BY <1>0, <2>5 DEF CoreInv, TxnFiles, InTxn
  <2> QED BY <1>0, <2>6 DEF Live
<1>5. TxnFiles'
  <2>1. \A p \in DOMAIN txn.files : txn.files[p].mrc <= txn.coll
    BY <1>0 DEF CoreInv, TxnFiles, InTxn
  <2> QED BY <1>0, <1>4, <2>1 DEF TxnFiles
<1>6. OpenOnce' /\ PlanExpired'
  BY <1>0 DEF OpenOnce, PlanExpired, CompactPhases
<1> QED BY <1>1, <1>2, <1>3, <1>5, <1>6 DEF CoreInv

\* New contents get a row and a member of an archive of this collection.
LEMMA ArchiveKeeps ==
    ASSUME TypeOK, CoreInv, NEW p \in Path, NEW n, ArchiveFile(p, n)
    PROVE  CoreInv'
<1> USE DEF userVars, planVars, histVars, BackupPhases
<1> DEFINE a == <<txn.coll, n>>
           c == open[p].id
           t == IF a \in DOMAIN staging THEN staging[a] ELSE EmptyFcn
           tar == Put(t, c, disk[p].data)
           row == [hash |-> open[p].hash, len |-> open[p].len, arc |-> a,
                   last |-> txn.coll]
           d == svdb_contentsupdate(txn, c, row)
<1>0. /\ IsDb(txn) /\ txn.coll \in Nat /\ txn.next \in Nat
      /\ pc = "add" /\ DOMAIN open = {p} /\ open[p] \in OpenFile
      /\ n \in Nat
  <2>1. p \in DOMAIN open /\ pc = "add" /\ n \in {archnum, archnum + 1}
    BY DEF ArchiveFile
  <2>2. DOMAIN open = {p} /\ open[p] \in OpenFile /\ archnum \in Nat
    BY <2>1 DEF CoreInv, OpenOnce, TypeOK, IsPartial
  <2> QED BY <2>1, <2>2, DbFacts
<1>1. /\ staging' = Put(staging, a, tar)
      /\ txn' = svdb_filesupdate(d, p, FileRow(c, p))
      /\ open' = EmptyFcn /\ pc' = "process"
      /\ UNCHANGED <<db, ready, index, pending, todelete>>
  BY DEF ArchiveFile
<1>2. a \in ArchiveId /\ c \in Nat /\ row \in sv_content_row
  BY <1>0 DEF ArchiveId, OpenFile, sv_content_row
<1>3. FileRow(c, p) \in sv_file_row
  BY <1>0, <1>2, FileRowType
<1>4. FileRow(c, p).contents = c /\ FileRow(c, p).mrc = txn.coll
  BY DEF FileRow
<1>5. row.arc = a /\ row.last = txn.coll /\ a[1] = txn.coll
  OBVIOUS
<1>6. c < txn.next /\ c \notin DOMAIN txn.contents
  BY <1>0 DEF CoreInv, TxnFiles, InTxn
<1>7. /\ DOMAIN t \subseteq DOMAIN tar /\ c \in DOMAIN tar
      /\ a \in DOMAIN staging => t = staging[a]
  BY DEF Put
<1> HIDE DEF a, c, t, tar, row
<1>8. /\ IsDb(d)
      /\ DOMAIN d.contents = DOMAIN txn.contents \cup {c}
      /\ d.contents[c] = row
      /\ \A x \in DOMAIN txn.contents : x # c => d.contents[x] = txn.contents[x]
      /\ d.files = txn.files /\ d.coll = txn.coll /\ d.next = txn.next
  BY <1>0, <1>2, ContentsUpdateFacts
<1> HIDE DEF d
<1>9. /\ DOMAIN txn'.files = DOMAIN txn.files \cup {p}
      /\ txn'.files[p] = FileRow(c, p)
      /\ \A q \in DOMAIN txn.files : q # p => txn'.files[q] = txn.files[q]
      /\ txn'.contents = d.contents
      /\ txn'.coll = txn.coll /\ txn'.next = txn.next
  BY <1>1, <1>3, <1>8, FilesUpdateFacts
<1>10. CommittedRows'
  BY <1>1, RowsKept
<1>11. TxnKeeps'
  BY <1>0, <1>1, <1>6, <1>8, <1>9 DEF CoreInv, TxnKeeps, InTxn
<1>12. /\ \A x \in DOMAIN txn.contents :
            /\ x < txn.next /\ txn.contents[x].last <= txn.coll
            /\ x \in DOMAIN db.contents \/ InNewTar(x)
       /\ \A b \in DOMAIN staging : b[1] = txn.coll
  BY <1>0 DEF CoreInv, TxnTars, InTxn
<1>13. /\ DOMAIN staging' = DOMAIN staging \cup {a} /\ staging'[a] = tar
       /\ \A b \in DOMAIN staging : b # a => staging'[b] = staging[b]
  BY <1>1 DEF Put
<1>14. ASSUME NEW x \in DOMAIN txn'.contents
       PROVE  /\ x < txn'.next /\ txn'.contents[x].last <= txn'.coll
              /\ x \in DOMAIN db'.contents \/ InNewTar(x)'
  <2>1. CASE x = c
    <3>1. txn'.contents[x].arc = a /\ txn'.contents[x].last = txn.coll
      BY <1>5, <1>8, <1>9, <2>1
    <3>2. InNewTar(x)'
      BY <1>1, <1>5, <1>7, <1>9, <1>13, <2>1, <3>1 DEF InNewTar
    <3> QED BY <1>0, <1>6, <1>9, <2>1, <3>1, <3>2
  <2>2. CASE x # c
    <3>1. x \in DOMAIN txn.contents /\ txn'.contents[x] = txn.contents[x]
      BY <1>8, <1>9, <2>2
    <3>2. ASSUME InNewTar(x) PROVE InNewTar(x)'
      <4>1. LET b == txn.contents[x].arc
            IN  b[1] = txn.coll /\ b \in DOMAIN staging /\ x \in DOMAIN staging[b]
        BY <1>0, <3>2 DEF InNewTar
      <4> QED BY <1>1, <1>7, <1>9, <1>13, <3>1, <4>1 DEF InNewTar
    <3> QED BY <1>1, <1>9, <1>12, <3>1, <3>2
  <2> QED BY <2>1, <2>2
<1>15. TxnTars'
  BY <1>1, <1>5, <1>9, <1>12, <1>13, <1>14 DEF TxnTars
<1>16. /\ \A q \in DOMAIN txn.files : txn.files[q].mrc <= txn.coll
       /\ \A q \in DOMAIN txn.files \ (pending \cup todelete \cup {p}) : Live(q)
  BY <1>0 DEF CoreInv, TxnFiles, InTxn
<1>17. Live(p)'
  BY <1>4, <1>5, <1>8, <1>9 DEF Live
<1>18. ASSUME NEW q \in DOMAIN txn.files, q # p, Live(q) PROVE Live(q)'
  BY <1>6, <1>8, <1>9, <1>18 DEF Live
<1>19. TxnFiles'
  <2>1. \A q \in DOMAIN txn'.files : txn'.files[q].mrc <= txn'.coll
    BY <1>0, <1>4, <1>9, <1>16
  <2> QED BY <1>1, <1>9, <1>16, <1>17, <1>18, <2>1 DEF TxnFiles
<1>20. OpenOnce' /\ PlanExpired'
  BY <1>1, EmptyFacts DEF OpenOnce, PlanExpired, CompactPhases
<1> QED BY <1>10, <1>11, <1>15, <1>19, <1>20 DEF CoreInv

\* What is left of the queue is deleted: every row is complete.
LEMMA EndQueueKeeps ==
    ASSUME TypeOK, CoreInv, EndQueue
    PROVE  CoreInv'
<1> USE DEF userVars, storeVars, walkVars, planVars, histVars, BackupPhases
<1>0. /\ IsDb(txn) /\ txn.next \in Nat /\ pc = "process" /\ pending = {}
      /\ DOMAIN open = {} /\ pc' = "clean" /\ open' = open
  BY DbFacts DEF EndQueue, CoreInv, OpenOnce
<1>1. /\ DOMAIN txn'.files = DOMAIN txn.files \ todelete
      /\ \A q \in DOMAIN txn.files \ todelete : txn'.files[q] = txn.files[q]
      /\ txn'.contents = txn.contents
      /\ txn'.coll = txn.coll /\ txn'.next = txn.next
  BY <1>0, FilesDeleteFacts DEF EndQueue
<1>2. Touched
  BY <1>0, <1>1 DEF Touched
<1>3. /\ \A q \in DOMAIN txn.files : txn.files[q].mrc <= txn.coll
      /\ \A q \in DOMAIN txn.files \ todelete : Live(q)
  BY <1>0 DEF CoreInv, TxnFiles, InTxn
<1>4. \A q \in DOMAIN txn'.files : Live(q)'
  BY <1>1, <1>2, <1>3, LiveKept
<1>5. TxnFiles'
  BY <1>0, <1>1, <1>3, <1>4 DEF TxnFiles
<1>6. OpenOnce' /\ QuietStep
  BY <1>0 DEF OpenOnce, QuietStep, InTxn, EndQueue
<1> QED BY <1>2, <1>5, <1>6, QuietKeeps

-----------------------------------------------------------------------------
(* Finishing a backup. *)

\* Every new row still is in staging when readytoupload is cleaned.
LEMMA CleanKeeps ==
    ASSUME TypeOK, CoreInv, CleanReady
    PROVE  CoreInv'
<1> USE DEF userVars, walkVars, planVars, histVars, BackupPhases
<1>0. /\ pc = "clean" /\ pc' = "move"
      /\ UNCHANGED <<db, txn, staging, index, open>>
  BY DEF CleanReady
<1>1. CommittedRows'
  BY <1>0, RowsKept
<1>2. TxnKeeps' /\ TxnTars'
  BY <1>0 DEF CoreInv, TxnKeeps, TxnTars, InTxn, InNewTar
<1>3. TxnFiles' /\ OpenOnce' /\ PlanExpired'
  BY <1>0 DEF CoreInv, TxnFiles, InTxn, Live, OpenOnce, PlanExpired, CompactPhases
<1> QED BY <1>1, <1>2, <1>3 DEF CoreInv

\* An archive moves from staging to readytoupload, over what may have its name.
LEMMA MoveKeeps ==
    ASSUME TypeOK, CoreInv, NEW a \in DOMAIN staging, MoveTar(a)
    PROVE  CoreInv'
<1> USE DEF userVars, walkVars, planVars, histVars, BackupPhases
<1>0. /\ pc = "move" /\ pc' = "move"
      /\ UNCHANGED <<db, txn, index, open>>
  BY DEF MoveTar
<1>1. /\ DOMAIN ready' = DOMAIN ready \cup {a} /\ ready'[a] = staging[a]
      /\ \A b \in DOMAIN ready : b # a => ready'[b] = ready[b]
      /\ DOMAIN staging' = DOMAIN staging \ {a}
      /\ \A b \in DOMAIN staging' : staging'[b] = staging[b]
  BY DEF MoveTar, Put, Drop, Restrict
<1>2. CommittedRows'
  BY <1>0, RowsKept
<1>3. \A c : InNewTar(c) => InNewTar(c)'
  BY <1>0, <1>1 DEF InNewTar
<1>4. TxnKeeps' /\ TxnTars'
  BY <1>0, <1>1, <1>3 DEF CoreInv, TxnKeeps, TxnTars, InTxn
<1>5. TxnFiles' /\ OpenOnce' /\ PlanExpired'
  BY <1>0 DEF CoreInv, TxnFiles, InTxn, Live, OpenOnce, PlanExpired, CompactPhases
<1> QED BY <1>2, <1>4, <1>5 DEF CoreInv

LEMMA EndMoveKeeps ==
    ASSUME TypeOK, CoreInv, EndMove
    PROVE  CoreInv'
<1> USE DEF userVars, storeVars, walkVars, planVars, histVars, BackupPhases
<1>0. /\ pc = "move" /\ pc' = "sums" /\ DOMAIN staging = {}
      /\ UNCHANGED <<db, txn, staging, ready, index, open>>
  BY EmptyFacts DEF EndMove
<1>1. CommittedRows'
  BY <1>0, RowsKept
<1>2. TxnKeeps' /\ TxnTars'
  BY <1>0 DEF CoreInv, TxnKeeps, TxnTars, InTxn, InNewTar
<1>3. TxnFiles' /\ OpenOnce' /\ PlanExpired'
  BY <1>0 DEF CoreInv, TxnFiles, InTxn, Live, OpenOnce, PlanExpired, CompactPhases
<1> QED BY <1>1, <1>2, <1>3 DEF CoreInv

\* The commit adds checksums and changes no row.
LEMMA CommitEffect ==
    ASSUME TypeOK, RecordAndCommit
    PROVE  /\ db'.files = txn.files /\ db'.contents = txn.contents
           /\ db'.coll = txn.coll /\ db'.next = txn.next
           /\ db'.archives = txn.archives \cup
                {[arc |-> a, needed |-> TRUE, sum |-> ready[a]] :
                     a \in {b \in DOMAIN ready : b[1] = txn.coll}}
<1> DEFINE S == {[arc |-> a, needed |-> TRUE, sum |-> ready[a]] :
                     a \in {b \in DOMAIN ready : b[1] = txn.coll}}
<1>1. db' = [txn EXCEPT !.archives = @ \cup S]
  BY DEF RecordAndCommit
<1>2. IsDb(txn)
  BY DEF TypeOK
<1> HIDE DEF S
<1>3. txn = [files |-> txn.files, contents |-> txn.contents,
             archives |-> txn.archives, coll |-> txn.coll, next |-> txn.next]
  BY <1>2 DEF IsDb
<1> QED BY <1>1, <1>3 DEF S

\* A row of the transaction is of a finished archive or of one of its own, which
\* has been moved before the commit.
LEMMA CommitArcs ==
    ASSUME TypeOK, CoreInv, RecordAndCommit, NEW c \in DOMAIN txn.contents
    PROVE  /\ c < txn.next /\ txn.contents[c].last <= txn.coll
           /\ \/ /\ c \in DOMAIN db.contents
                 /\ txn.contents[c].arc = db.contents[c].arc
                 /\ txn.contents[c].last >= db.contents[c].last
                 /\ txn.contents[c].arc[1] <= db.coll
              \/ /\ txn.contents[c].arc[1] = txn.coll
                 /\ txn.contents[c].arc \in DOMAIN ready
                 /\ c \in DOMAIN ready[txn.contents[c].arc]
<1>0. pc = "sums"
  BY DEF RecordAndCommit
<1>1. /\ c < txn.next /\ txn.contents[c].last <= txn.coll
      /\ c \in DOMAIN db.contents \/ InNewTar(c)
      /\ DOMAIN staging = {}
  BY <1>0 DEF CoreInv, TxnTars, InTxn, BackupPhases
<1>2. CASE c \in DOMAIN db.contents
  <2>1. /\ txn.contents[c].arc = db.contents[c].arc
        /\ txn.contents[c].last >= db.contents[c].last
    BY <1>0, <1>2 DEF CoreInv, TxnKeeps, InTxn, BackupPhases
  <2>2. db.contents[c].arc[1] <= db.coll
    BY <1>2 DEF CoreInv, CommittedRows, RowIds
  <2> QED BY <1>1, <1>2, <2>1, <2>2
<1>3. CASE InNewTar(c)
  BY <1>1, <1>3 DEF InNewTar
<1> QED BY <1>1, <1>2, <1>3

\* The transaction becomes the index.
LEMMA CommitKeeps ==
    ASSUME TypeOK, CoreInv, RecordAndCommit
    PROVE  CoreInv'
<1> USE DEF userVars, storeVars, walkVars, planVars, histVars, BackupPhases
<1>0. /\ pc = "sums" /\ pc' = "copydb"
      /\ db.coll \in Nat /\ txn.coll = db.coll + 1
      /\ UNCHANGED <<index, open>>
  BY DbFacts DEF RecordAndCommit, CoreInv, TxnKeeps, InTxn
<1>1. FilesLive(db)'
  <2>1. \A q \in DOMAIN txn.files : txn.files[q].mrc <= txn.coll /\ Live(q)
    BY <1>0 DEF CoreInv, TxnFiles, InTxn
  <2> QED BY <2>1, CommitEffect DEF FilesLive, Live
<1>2. RowIds(db)'
  <2>1. ASSUME NEW c \in DOMAIN txn.contents
        PROVE  txn.contents[c].arc[1] <= txn.coll
    BY <1>0, CommitArcs, ArcFacts
  <2> QED BY <2>1, CommitArcs, CommitEffect DEF RowIds
<1>3. CommittedRows'
  BY <1>0, <1>1, <1>2 DEF CoreInv, CommittedRows, FilesLive, RowIds
<1>4. TxnKeeps' /\ TxnTars' /\ TxnFiles' /\ PlanExpired'
  BY <1>0 DEF TxnKeeps, TxnTars, TxnFiles, InTxn, PlanExpired, CompactPhases
<1>5. OpenOnce'
  BY <1>0 DEF CoreInv, OpenOnce
<1> QED BY <1>3, <1>4, <1>5 DEF CoreInv

\* Nothing runs: only the parts about the committed index are left to show.
LEMMA IdleKeeps ==
    ASSUME pc' = "idle", DOMAIN open' = {}, CommittedRows'
    PROVE  CoreInv'
BY DEF CoreInv, TxnKeeps, TxnTars, TxnFiles, OpenOnce, PlanExpired, InTxn,
       BackupPhases, CompactPhases

LEMMA EndIdle ==
    ASSUME EndOperation PROVE pc' = "idle" /\ DOMAIN open' = {}
BY EmptyFacts DEF EndOperation

\* The copy is of the index, or has nothing in it when it is torn.
LEMMA CopyEffect ==
    ASSUME CopyDb
    PROVE  \E d \in {db, EmptyDb} :
              /\ d = EmptyDb => "torn_copy" \in Events \/ d = db
              /\ DOMAIN index' = DOMAIN index \cup {db.coll}
              /\ index'[db.coll] = d
              /\ \A k \in DOMAIN index : k # db.coll => index'[k] = index[k]
BY DEF CopyDb, os_copy, Put

LEMMA CopyKeeps ==
    ASSUME TypeOK, CoreInv, CopyDb
    PROVE  CoreInv'
<1>0. db' = db
  BY DEF CopyDb
<1>1. FilesLive(EmptyDb) /\ RowIds(EmptyDb)
  BY EmptyFacts DEF EmptyDb, FilesLive, RowIds
<1>2. PICK d \in {db, EmptyDb} :
        /\ DOMAIN index' = DOMAIN index \cup {db.coll}
        /\ index'[db.coll] = d
        /\ \A k \in DOMAIN index : k # db.coll => index'[k] = index[k]
  BY CopyEffect
<1>3. FilesLive(d) /\ RowIds(d)
  BY <1>1 DEF CoreInv, CommittedRows
<1>4. \A k \in DOMAIN index' : FilesLive(index'[k]) /\ RowIds(index'[k])
  BY <1>2, <1>3 DEF CoreInv, CommittedRows
<1>5. CommittedRows'
  BY <1>0, <1>4 DEF CoreInv, CommittedRows, FilesLive, RowIds
<1> QED BY <1>5, IdleKeeps, EndIdle DEF CopyDb

\* The transaction is rolled back.
LEMMA AbortKeeps ==
    ASSUME CoreInv, Abort
    PROVE  CoreInv'
<1>1. CommittedRows'
  BY RowsKept DEF Abort, userVars, storeVars
<1> QED BY <1>1, IdleKeeps, EndIdle DEF Abort

-----------------------------------------------------------------------------
(* The user, and the start of an operation. *)

\* An archive changes places: nothing else does, and of a collection not yet
\* committed what is in readytoupload stays.
LEMMA MoveEffect ==
    ASSUME NEW a, \/ a \in DOMAIN ready /\ EvictTar(a)
                  \/ a \in DOMAIN away /\ FetchTar(a)
    PROVE  /\ MayMove
           /\ UNCHANGED <<userVars, db, pc, txn, planVars, staging, removed, index,
                          walkVars, histVars>>
           /\ \A b : Tar(b)' = Tar(b)
           /\ DOMAIN ready' \cup DOMAIN away' = DOMAIN ready \cup DOMAIN away
           /\ \A b \in DOMAIN ready : ~ (b[1] <= db.coll) =>
                 b \in DOMAIN ready' /\ ready'[b] = ready[b]
<1>1. CASE EvictTar(a) /\ a \in DOMAIN ready
  <2>1. /\ DOMAIN ready' = DOMAIN ready \ {a}
        /\ \A b \in DOMAIN ready' : ready'[b] = ready[b]
        /\ DOMAIN away' = DOMAIN away \cup {a} /\ away'[a] = ready[a]
        /\ \A b \in DOMAIN away : b # a => away'[b] = away[b]
        /\ a[1] <= db.coll
    BY <1>1 DEF EvictTar, Put, Drop, Restrict
  <2>2. \A b : Tar(b)' = Tar(b)
    BY <1>1, <2>1 DEF Tar
  <2> QED BY <1>1, <2>1, <2>2 DEF EvictTar
<1>2. CASE FetchTar(a) /\ a \in DOMAIN away
  <2>1. /\ DOMAIN away' = DOMAIN away \ {a}
        /\ \A b \in DOMAIN away' : away'[b] = away[b]
        /\ DOMAIN ready' = DOMAIN ready \cup {a} /\ ready'[a] = away[a]
        /\ \A b \in DOMAIN ready : b # a => ready'[b] = ready[b]
        /\ a \notin DOMAIN ready
    BY <1>2 DEF FetchTar, Put, Drop, Restrict
  <2>2. \A b : Tar(b)' = Tar(b)
    BY <1>2, <2>1 DEF Tar
  <2> QED BY <1>2, <2>1, <2>2 DEF FetchTar
<1> QED BY <1>1, <1>2

\* What the user does to files is no concern of the index, nor is where he keeps
\* archives of finished backups.
LEMMA UserKeeps ==
    ASSUME TypeOK, CoreInv, UserStep
    PROVE  CoreInv'
<1> USE DEF userVars, storeVars, walkVars, planVars, histVars
<1>1. ASSUME UNCHANGED <<db, txn, staging, index, pc, pending, todelete, open, plan>>,
             \A b \in DOMAIN ready : ~ (b[1] <= db.coll) =>
                 b \in DOMAIN ready' /\ ready'[b] = ready[b]
      PROVE  CoreInv'
  <2>1. CommittedRows'
    BY <1>1, RowsKept
  <2>2. ASSUME InTxn, NEW c, InNewTar(c) PROVE InNewTar(c)'
    <3>1. txn.coll = db.coll + 1 /\ db.coll \in Nat
      BY <2>2, DbFacts DEF CoreInv, TxnKeeps
    <3> QED BY <1>1, <2>2, <3>1 DEF InNewTar
  <2>3. TxnTars'
    BY <1>1, <2>2 DEF CoreInv, TxnTars, InTxn
  <2>4. TxnKeeps' /\ TxnFiles' /\ OpenOnce' /\ PlanExpired'
    BY <1>1 DEF CoreInv, TxnKeeps, TxnFiles, Live, OpenOnce, PlanExpired, Expired, InTxn
  <2> QED BY <2>1, <2>3, <2>4 DEF CoreInv
<1>2. CASE UNCHANGED ready
  BY <1>1, <1>2 DEF UserStep, WriteFile, DeleteFile, EditGroup, EvictTar, FetchTar
<1>3. ASSUME NEW a, \/ a \in DOMAIN ready /\ EvictTar(a)
                    \/ a \in DOMAIN away /\ FetchTar(a)
      PROVE  CoreInv'
  BY <1>1, <1>3, MoveEffect
<1> QED BY <1>2, <1>3 DEF UserStep, WriteFile, DeleteFile, EditGroup

\* A transaction starts from the index, one collection further.
LEMMA StartBackupKeeps ==
    ASSUME TypeOK, CoreInv, sv_backup
    PROVE  CoreInv'
<1> USE DEF userVars, storeVars, planVars, histVars, BackupPhases
<1>0. /\ pc = "idle" /\ pc' = "queue" /\ db.coll \in Nat /\ db.next \in Nat
      /\ UNCHANGED <<db, index, open>>
  BY DbFacts DEF sv_backup
<1>1. /\ txn'.files = db.files /\ txn'.contents = db.contents
      /\ txn'.coll = db.coll + 1 /\ txn'.next = db.next
  BY DbFacts, CollectionInsertFacts DEF sv_backup
<1>2. CommittedRows'
  BY <1>0, RowsKept
<1>3. \A c \in DOMAIN db.contents :
        db.contents[c].last \in Nat /\ db.contents[c].last <= db.coll /\ c < db.next
  BY DbFacts DEF CoreInv, CommittedRows, RowIds
<1>4. \A p \in DOMAIN db.files : db.files[p].mrc \in Nat /\ db.files[p].mrc <= db.coll
  BY DEF CoreInv, CommittedRows, FilesLive, TypeOK, IsDb, IsPartial, sv_file_row
<1>5. TxnKeeps'
  BY <1>0, <1>1, <1>3 DEF TxnKeeps
<1>6. TxnTars'
  BY <1>0, <1>1, <1>3 DEF TxnTars
<1>7. TxnFiles'
  BY <1>0, <1>1, <1>4 DEF TxnFiles
<1>8. OpenOnce' /\ PlanExpired'
  BY <1>0 DEF CoreInv, OpenOnce, PlanExpired, CompactPhases
<1> QED BY <1>2, <1>5, <1>6, <1>7, <1>8 DEF CoreInv

-----------------------------------------------------------------------------
(* Compaction. *)

\* The rows a transaction of a compaction deletes.
LEMMA RemoveRowsEffect ==
    ASSUME TypeOK, RemoveRows
    PROVE  /\ DOMAIN db'.contents = DOMAIN db.contents \ UNION Range(plan.remove)
           /\ \A c \in DOMAIN db'.contents : db'.contents[c] = db.contents[c]
           /\ db'.files = db.files /\ db'.coll = db.coll /\ db'.next = db.next
           /\ db.archives \subseteq db'.archives
<1> DEFINE X == UNION Range(plan.remove)
           S == {[arc |-> a, needed |-> FALSE, sum |-> EmptyFcn] :
                     a \in DOMAIN plan.remove}
           d == svdb_contents_bulk_delete(db, X)
<1>1. db' = [d EXCEPT !.archives = @ \cup S]
  BY DEF RemoveRows
<1> HIDE DEF X
<1>2. /\ IsDb(d) /\ DOMAIN d.contents = DOMAIN db.contents \ X
      /\ \A c \in DOMAIN db.contents \ X : d.contents[c] = db.contents[c]
      /\ d.files = db.files /\ d.coll = db.coll /\ d.next = db.next
      /\ d.archives = db.archives
  BY DbFacts, BulkDeleteFacts
<1> HIDE DEF d, S
<1>3. d = [files |-> d.files, contents |-> d.contents,
           archives |-> d.archives, coll |-> d.coll, next |-> d.next]
  BY <1>2 DEF IsDb
<1>4. /\ db'.contents = d.contents /\ db'.files = d.files
      /\ db'.coll = d.coll /\ db'.next = d.next
      /\ db'.archives = d.archives \cup S
  BY <1>1, <1>3
<1> QED BY <1>2, <1>4 DEF X

LEMMA StripRowsEffect ==
    ASSUME TypeOK, StripRows
    PROVE  /\ DOMAIN db'.contents = DOMAIN db.contents
                \ UNION {plan.strip[a] : a \in DOMAIN plan.strip \cap DOMAIN ready}
           /\ \A c \in DOMAIN db'.contents : db'.contents[c] = db.contents[c]
           /\ db'.files = db.files /\ db'.coll = db.coll /\ db'.next = db.next
           /\ db'.archives = db.archives
<1> DEFINE X == UNION {plan.strip[a] : a \in DOMAIN plan.strip \cap DOMAIN ready}
<1>1. db' = svdb_contents_bulk_delete(db, X)
  BY DEF StripRows
<1> HIDE DEF X
<1>2. /\ DOMAIN db'.contents = DOMAIN db.contents \ X
      /\ \A c \in DOMAIN db.contents \ X : db'.contents[c] = db.contents[c]
      /\ db'.files = db.files /\ db'.coll = db.coll /\ db'.next = db.next
      /\ db'.archives = db.archives
  BY <1>1, DbFacts, BulkDeleteFacts
<1> QED BY <1>2 DEF X

\* Only a checksum is added.
LEMMA StripChecksumEffect ==
    ASSUME TypeOK, NEW a, StripChecksum(a)
    PROVE  /\ db'.contents = db.contents /\ db'.files = db.files
           /\ db'.coll = db.coll /\ db'.next = db.next
           /\ db.archives \subseteq db'.archives
<1> DEFINE r == [arc |-> a, needed |-> TRUE, sum |-> ready[a]]
<1>1. db' = [db EXCEPT !.archives = @ \cup {r}]
  BY DEF StripChecksum, write_archive_checksum, svdb_archives_write_checksum
<1>2. db = [files |-> db.files, contents |-> db.contents,
            archives |-> db.archives, coll |-> db.coll, next |-> db.next]
  BY DbFacts DEF IsDb
<1> HIDE DEF r
<1> QED BY <1>1, <1>2

\* A compaction deletes rows of contents and adds checksums.
LEMMA CompactEffect ==
    ASSUME TypeOK, CompactStep
    PROVE  /\ DOMAIN db'.contents \subseteq DOMAIN db.contents
           /\ \A c \in DOMAIN db'.contents : db'.contents[c] = db.contents[c]
           /\ db'.files = db.files /\ db'.coll = db.coll /\ db'.next = db.next
           /\ db.archives \subseteq db'.archives
<1>1. CASE RemoveRows
  BY <1>1, RemoveRowsEffect
<1>2. CASE StripRows
  BY <1>2, StripRowsEffect
<1>3. ASSUME NEW a, StripChecksum(a)
      PROVE  /\ db'.contents = db.contents /\ db'.files = db.files
             /\ db'.coll = db.coll /\ db'.next = db.next
             /\ db.archives \subseteq db'.archives
  BY <1>3, StripChecksumEffect
<1>4. CASE EndCompact \/ (\E a \in DOMAIN plan.remove : RemoveTar(a))
           \/ \E a \in DOMAIN plan.strip : StripTar(a)
  BY <1>4 DEF EndCompact, RemoveTar, StripTar
<1> QED BY <1>1, <1>2, <1>3, <1>4 DEF CompactStep

\* What is left of a plan is what was planned.
LEMMA PlanEffect ==
    ASSUME TypeOK, CompactStep, ~ EndCompact
    PROVE  /\ plan'.cutoff = plan.cutoff
           /\ DOMAIN plan'.remove \subseteq DOMAIN plan.remove
           /\ \A a \in DOMAIN plan'.remove : plan'.remove[a] = plan.remove[a]
           /\ DOMAIN plan'.strip \subseteq DOMAIN plan.strip
           /\ \A a \in DOMAIN plan'.strip : plan'.strip[a] = plan.strip[a]
<1>0. plan = [cutoff |-> plan.cutoff, remove |-> plan.remove, strip |-> plan.strip]
  BY DEF TypeOK, IsPlan
<1>1. ASSUME NEW a, RemoveTar(a)
      PROVE  /\ plan'.cutoff = plan.cutoff /\ plan'.strip = plan.strip
             /\ plan'.remove = Drop(plan.remove, {a})
  <2>1. plan' = [plan EXCEPT !.remove = Drop(@, {a})]
    BY <1>1 DEF RemoveTar
  <2> QED BY <1>0, <2>1
<1>2. ASSUME NEW a, StripTar(a)
      PROVE  /\ plan'.cutoff = plan.cutoff /\ plan'.remove = plan.remove
             /\ plan'.strip = Drop(plan.strip, {a})
  <2>1. plan' = [plan EXCEPT !.strip = Drop(@, {a})]
    BY <1>2 DEF StripTar
  <2> QED BY <1>0, <2>1
<1>3. CASE plan' = plan
  BY <1>3
<1>4. CASE RemoveRows \/ StripRows \/ \E a : StripChecksum(a)
  BY <1>3, <1>4 DEF RemoveRows, StripRows, StripChecksum, planVars
<1>5. CASE \E a : RemoveTar(a)
  <2>1. PICK a : RemoveTar(a)
    BY <1>5
  <2> QED BY <1>1, <2>1 DEF Drop, Restrict
<1>6. CASE \E a : StripTar(a)
  <2>1. PICK a : StripTar(a)
    BY <1>6
  <2> QED BY <1>2, <2>1 DEF Drop, Restrict
<1> QED BY <1>4, <1>5, <1>6 DEF CompactStep

\* Rows that go were last referenced by the cutoff collection or before.
LEMMA DeletedExpired ==
    ASSUME TypeOK, CoreInv, CompactStep,
           NEW c \in DOMAIN db.contents, c \notin DOMAIN db'.contents
    PROVE  db.contents[c].last <= plan.cutoff
<1>0. pc \in CompactPhases
  BY DEF CompactStep, RemoveRows, StripRows, EndCompact, RemoveTar, StripTar,
         StripChecksum, CompactPhases
<1>1. /\ \A a \in DOMAIN plan.remove : Expired(plan.remove[a])
      /\ \A a \in DOMAIN plan.strip : Expired(plan.strip[a])
  BY <1>0 DEF CoreInv, PlanExpired
<1>2. CASE RemoveRows
  <2>1. PICK a \in DOMAIN plan.remove : c \in plan.remove[a]
    BY <1>2, RemoveRowsEffect DEF Range
  <2> QED BY <1>1, <2>1 DEF Expired
<1>3. CASE StripRows
  <2>1. PICK a \in DOMAIN plan.strip : c \in plan.strip[a]
    BY <1>3, StripRowsEffect
  <2> QED BY <1>1, <2>1 DEF Expired
<1>4. CASE ~ RemoveRows /\ ~ StripRows
  <2>1. ASSUME NEW a, StripChecksum(a) PROVE FALSE
    BY <2>1, StripChecksumEffect
  <2>2. db' = db
    BY <1>4, <2>1 DEF CompactStep, EndCompact, RemoveTar, StripTar
  <2> QED BY <2>2
<1> QED BY <1>2, <1>3, <1>4

\* A compaction leaves the transaction of a backup alone: there is none.
LEMMA CompactKeepsBackup ==
    ASSUME CoreInv, pc \notin BackupPhases, pc' \in CompactPhases, open' = open
    PROVE  TxnKeeps' /\ TxnTars' /\ TxnFiles' /\ OpenOnce'
BY DEF CoreInv, TxnKeeps, TxnTars, TxnFiles, OpenOnce, InTxn, BackupPhases,
       CompactPhases

\* What is chosen was last referenced by the cutoff collection or before.
LEMMA PlanChosen ==
    ASSUME TypeOK, NEW thorough, NEW k \in Nat, NEW strip,
           sv_compact(thorough, k, strip)
    PROVE  /\ plan'.cutoff = k /\ k < db.coll
           /\ DOMAIN plan'.remove = ToRemove(db, k) /\ DOMAIN plan'.strip = strip
           /\ \A a \in ToRemove(db, k) :
                plan'.remove[a] = old_individual_files(db, a, k, thorough)
           /\ \A a \in strip :
                plan'.strip[a] = old_individual_files(db, a, k, thorough)
           /\ \A a \in ToRemove(db, k) :
                \E c \in DOMAIN db.contents : a = db.contents[c].arc
BY DEF sv_compact, old_individual_files, Old, ToRemove, Archives

LEMMA StartCompactKeeps ==
    ASSUME TypeOK, CoreInv,
           NEW thorough, NEW k \in Nat, NEW strip, sv_compact(thorough, k, strip)
    PROVE  CoreInv'
<1> USE DEF storeVars, walkVars, CompactPhases
<1>0. pc = "idle" /\ pc' = "rm_db" /\ UNCHANGED <<db, index, open>>
  BY DEF sv_compact
<1>1. CommittedRows'
  BY <1>0, RowsKept
<1>2. \A a \in ToRemove(db, k) : a[1] <= db.coll
  BY PlanChosen DEF CoreInv, CommittedRows, RowIds
<1>3. PlanExpired'
  <2>1. /\ plan'.cutoff = k /\ k < db.coll
        /\ DOMAIN plan'.remove = ToRemove(db, k) /\ DOMAIN plan'.strip = strip
    BY PlanChosen
  <2>2. ASSUME NEW a \in ToRemove(db, k), NEW c \in plan'.remove[a]
        PROVE  c \in DOMAIN db.contents /\ db.contents[c].last <= k
    <3>1. c \in old_individual_files(db, a, k, thorough)
      BY PlanChosen
    <3> QED BY <3>1 DEF old_individual_files, Old
  <2>3. ASSUME NEW a \in strip, NEW c \in plan'.strip[a]
        PROVE  c \in DOMAIN db.contents /\ db.contents[c].last <= k
    <3>1. c \in old_individual_files(db, a, k, thorough)
      BY PlanChosen
    <3> QED BY <3>1 DEF old_individual_files, Old
  <2> QED BY <1>0, <1>2, <2>1, <2>2, <2>3 DEF PlanExpired, Expired
<1>4. TxnKeeps' /\ TxnTars' /\ TxnFiles' /\ OpenOnce'
  BY <1>0, CompactKeepsBackup DEF BackupPhases
<1> QED BY <1>1, <1>3, <1>4 DEF CoreInv

\* Live rows are newer than what a compaction deletes.
LEMMA CompactKeeps ==
    ASSUME TypeOK, CoreInv, CompactStep
    PROVE  CoreInv'
<1>0. /\ pc \in CompactPhases /\ index' = index
      /\ EndCompact \/ (pc' \in CompactPhases /\ open' = open)
  BY DEF CompactStep, RemoveRows, StripRows, EndCompact, RemoveTar, StripTar,
         StripChecksum, CompactPhases, storeVars, walkVars
<1>1. plan.cutoff \in Nat /\ plan.cutoff < db.coll /\ db.coll \in Nat
  BY <1>0, PlanFacts, DbFacts DEF CoreInv, PlanExpired
<1>2. CommittedRows'
  <2>1. \A c \in DOMAIN db.contents :
          db.contents[c].last = db.coll => c \in DOMAIN db'.contents
    BY <1>1, DeletedExpired
  <2>2. FilesLive(db)'
    BY <2>1, CompactEffect DEF CoreInv, CommittedRows, FilesLive
  <2>3. RowIds(db)'
    BY CompactEffect DEF CoreInv, CommittedRows, RowIds
  <2> QED BY <1>0, <2>2, <2>3 DEF CoreInv, CommittedRows, FilesLive, RowIds
<1>3. CASE EndCompact
  BY <1>2, <1>3, IdleKeeps, EndIdle DEF EndCompact
<1>4. CASE ~ EndCompact
  <2>1. ASSUME NEW X, Expired(X)
        PROVE  \A c \in X \cap DOMAIN db'.contents :
                  db'.contents[c].last <= plan'.cutoff
    BY <1>4, <2>1, PlanEffect, CompactEffect DEF Expired
  <2>2. /\ \A a \in DOMAIN plan.remove : Expired(plan.remove[a]) /\ a[1] <= db.coll
        /\ \A a \in DOMAIN plan.strip : Expired(plan.strip[a])
    BY <1>0 DEF CoreInv, PlanExpired
  <2>3. \A a \in DOMAIN plan'.remove :
           /\ a[1] <= db'.coll
           /\ \A c \in plan'.remove[a] \cap DOMAIN db'.contents :
                db'.contents[c].last <= plan'.cutoff
    BY <1>4, <2>1, <2>2, PlanEffect, CompactEffect
  <2>4. \A a \in DOMAIN plan'.strip :
           \A c \in plan'.strip[a] \cap DOMAIN db'.contents :
              db'.contents[c].last <= plan'.cutoff
    BY <1>4, <2>1, <2>2, PlanEffect
  <2>5. plan'.cutoff < db'.coll
    BY <1>1, <1>4, PlanEffect, CompactEffect
  <2>6. PlanExpired'
    BY <2>3, <2>4, <2>5 DEF PlanExpired, Expired
  <2>7. TxnKeeps' /\ TxnTars' /\ TxnFiles' /\ OpenOnce'
    BY <1>0, <1>4, CompactKeepsBackup DEF BackupPhases, CompactPhases
  <2> QED BY <1>2, <2>6, <2>7 DEF CoreInv
<1> QED BY <1>3, <1>4

\* A copy of the index has all that the index has.
LEMMA RecoverKeeps ==
    ASSUME TypeOK, CoreInv, NEW k, sv_app_findgroupnames(k)
    PROVE  CoreInv'
<1>0. k \in DOMAIN index /\ db' = index[k] /\ pc = "idle"
      /\ UNCHANGED <<pc, index, open>>
  BY DEF sv_app_findgroupnames, storeVars, walkVars
<1>1. CommittedRows'
  BY <1>0 DEF CoreInv, CommittedRows, FilesLive, RowIds
<1>2. DOMAIN open' = {}
  BY <1>0 DEF CoreInv, OpenOnce
<1> QED BY <1>0, <1>1, <1>2, IdleKeeps

-----------------------------------------------------------------------------
(* The invariant of every configuration. *)

LEMMA CoreNext ==
    ASSUME TypeOK, CoreInv, Next
    PROVE  CoreInv'
<1>1. CASE BackupStep
  <2>1. CASE \E p \in Path :
               \/ QueueFile(p) \/ SkipFile(p) \/ ProcessNoAccess(p)
               \/ ProcessNotFound(p) \/ ProcessOpen(p) \/ HashFile(p)
               \/ \E n \in {archnum, archnum + 1} : ArchiveFile(p, n)
    BY <2>1, QueueKeeps, WalkKeeps, NoAccessKeeps, HashKeeps, ArchiveKeeps
  <2>2. CASE sv_backup_fromtextfile \/ ar_manager_begin \/ EndQueue
    BY <2>2, WalkKeeps, BeginKeeps, EndQueueKeeps
  <2>3. CASE CleanReady \/ (\E a \in DOMAIN staging : MoveTar(a)) \/ EndMove
    BY <2>3, CleanKeeps, MoveKeeps, EndMoveKeeps
  <2>4. CASE RecordAndCommit \/ CopyDb
    BY <2>4, CommitKeeps, CopyKeeps
  <2> QED BY <1>1, <2>1, <2>2, <2>3, <2>4 DEF BackupStep
<1>2. CASE StartStep
  <2>1. \A k \in 1..db.coll : k \in Nat
    BY DbFacts
  <2> QED BY <1>2, <2>1, StartBackupKeeps, StartCompactKeeps, RecoverKeeps
       DEF StartStep
<1> QED BY <1>1, <1>2, CompactKeeps, AbortKeeps, UserKeeps DEF Next

\* Whatever fails, is lost, is moved or is edited, and with either compaction: the
\* files that the index and its copies list have contents rows that were referenced
\* by that very collection, and bytes come before the rows that describe them.
THEOREM CoreInductive == Spec => []CoreInv
<1>1. TypeOK /\ CoreInv /\ [Next]_vars => CoreInv'
  <2> SUFFICES ASSUME TypeOK, CoreInv, [Next]_vars PROVE CoreInv'
    OBVIOUS
  <2>1. CASE UNCHANGED vars
    BY <2>1 DEF vars, CoreInv, CommittedRows, FilesLive, RowIds, TxnKeeps, TxnTars,
       InNewTar, TxnFiles, Live, OpenOnce, PlanExpired, Expired, InTxn
  <2> QED BY <2>1, CoreNext
<1> QED BY <1>1, CoreInit, TypeCorrect, PTL DEF Spec
=============================================================================
