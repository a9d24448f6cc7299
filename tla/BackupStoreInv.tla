--------------------------- MODULE BackupStoreInv ---------------------------
(***************************************************************************)
(* The inductive invariants of BackupStore.                                *)
(*                                                                         *)
(* CoreInv holds whatever happens around the program.  A committed backup  *)
(* leaves every row of the files table with contents that were referenced  *)
(* by that very collection (FilesLive), in the index and in every copy of  *)
(* it; a transaction adds to the rows (TxnKeeps), ids of aborted           *)
(* collections, which are used again, are newer than anything committed,   *)
(* and bytes come before the rows that describe them (TxnTars); the cutoff *)
(* of a compaction is older, so a live row is never expired (PlanExpired). *)
(*                                                                         *)
(* IInv adds what makes everything restorable while compactions run: rows  *)
(* go before the bytes they describe (PlanSafe).  It holds when compaction *)
(* is thorough, when nobody moves archives during an operation and the     *)
(* main index is not replaced by an older copy (SafeConfig).               *)
(*                                                                         *)
(* HoardInv does so when nobody compacts (KeepsAll): then the index may be *)
(* lost and archives may be moved at any time.                             *)
(***************************************************************************)
EXTENDS BackupStore

SafeConfig == /\ CompactModes \subseteq {TRUE}
              /\ "move_busy" \notin Events
              /\ "lose_index" \notin Events

KeepsAll == CompactModes = {} /\ "torn_copy" \notin Events

KeepsIndex == "lose_index" \notin Events

\* Rows of an index: live contents, ids below what will be given out.
FilesLive(d) ==
    \A p \in DOMAIN d.files :
        /\ d.files[p].contents \in DOMAIN d.contents
        /\ d.contents[d.files[p].contents].last = d.coll
        /\ d.files[p].mrc <= d.coll

RowIds(d) ==
    \A c \in DOMAIN d.contents : /\ c < d.next
                                 /\ d.contents[c].arc[1] <= d.coll
                                 /\ d.contents[c].last <= d.coll

CommittedRows ==
    /\ FilesLive(db) /\ RowIds(db)
    /\ \A k \in DOMAIN index : FilesLive(index[k]) /\ RowIds(index[k])

InTxn == pc \in BackupPhases \ {"copydb"}

\* The transaction of a running backup adds to the committed rows ...
TxnKeeps ==
    InTxn =>
        /\ txn.coll = db.coll + 1
        /\ \A c \in DOMAIN db.contents :
             /\ c \in DOMAIN txn.contents
             /\ txn.contents[c].arc = db.contents[c].arc
             /\ txn.contents[c].last >= db.contents[c].last

\* ... and what it adds is in the archives of this collection.
InNewTar(c) ==
    LET a == txn.contents[c].arc
    IN  /\ pc \notin {"queue", "manual"}
        /\ a[1] = txn.coll
        /\ IF a \in DOMAIN staging
           THEN c \in DOMAIN staging[a]
           ELSE /\ pc \in {"move", "sums"}
                /\ a \in DOMAIN ready /\ c \in DOMAIN ready[a]

TxnTars ==
    InTxn =>
        /\ \A c \in DOMAIN txn.contents : /\ c < txn.next
                                          /\ txn.contents[c].last <= txn.coll
                                          /\ c \in DOMAIN db.contents \/ InNewTar(c)
        /\ pc \notin {"queue", "manual"} => \A a \in DOMAIN staging : a[1] = txn.coll
        /\ pc = "sums" => DOMAIN staging = {}

\* At most one file is open, while it is hashed and archived.
OpenOnce == /\ pc \notin {"hash", "add"} => DOMAIN open = {}
            /\ \A p, q \in DOMAIN open : p = q

\* Rows of the transaction that no later step will touch are complete.
Live(p) == /\ txn.files[p].contents \in DOMAIN txn.contents
           /\ txn.contents[txn.files[p].contents].last = txn.coll

TxnFiles ==
    InTxn =>
        /\ \A p \in DOMAIN txn.files : txn.files[p].mrc <= txn.coll
        /\ pc \in {"queue", "manual"} =>
             \A p \in DOMAIN txn.files :
                txn.files[p].complete /\ txn.files[p].mrc = txn.coll => Live(p)
        /\ pc \in {"process", "hash", "add"} =>
             \A p \in DOMAIN txn.files \ (pending \cup todelete \cup DOMAIN open) :
                Live(p)
        /\ pc \in {"clean", "move", "sums"} =>
             \A p \in DOMAIN txn.files : Live(p)
        /\ pc = "add" => \A p \in DOMAIN open : open[p].id < txn.next
                              /\ open[p].id \notin DOMAIN txn.contents

\* What a compaction has decided to delete is expired ...
Expired(ids) == \A c \in ids \cap DOMAIN db.contents :
                    db.contents[c].last <= plan.cutoff

PlanExpired ==
    pc \in CompactPhases =>
        /\ plan.cutoff < db.coll
        /\ \A a \in DOMAIN plan.remove : Expired(plan.remove[a]) /\ a[1] <= db.coll
        /\ \A a \in DOMAIN plan.strip : Expired(plan.strip[a])

CoreInv == /\ CommittedRows /\ TxnKeeps /\ TxnTars /\ TxnFiles /\ OpenOnce
           /\ PlanExpired

\* ... and is deleted from the index before it is deleted from the archives.
PlanSafe ==
    pc \in CompactPhases =>
        /\ pc = "rm_db" =>
             \A a \in DOMAIN plan.remove : \A c \in DOMAIN db.contents :
                db.contents[c].arc = a => c \in plan.remove[a]
        /\ pc # "rm_db" => plan.cutoff <= floor
        /\ pc = "rm_disk" =>
             \A a \in DOMAIN plan.remove : \A c \in DOMAIN db.contents :
                db.contents[c].arc # a
        /\ pc \in {"strip_disk", "strip_sum"} =>
             \A a \in DOMAIN plan.strip \cap DOMAIN ready :
                plan.strip[a] \cap DOMAIN db.contents = {}

\* What the user has on other disks is committed, and he has one of each.
AwayOnce ==
    /\ \A a \in removed \cup DOMAIN away : a[1] <= db.coll
    /\ DOMAIN ready \cap DOMAIN away = {}

\* A file of a copy that is still covered has its contents row in the index.
PastRows ==
    \A k \in DOMAIN index :
        /\ k <= db.coll
        /\ k > floor =>
             \A p \in DOMAIN index[k].files :
                LET c == index[k].files[p].contents
                IN  /\ c \in DOMAIN index[k].contents
                    /\ c \in DOMAIN db.contents
                    /\ db.contents[c].arc = index[k].contents[c].arc
                    /\ db.contents[c].last >= k

Stored == RowsBacked /\ PastRows /\ PlanSafe

\* The inductive invariant: a reachable state of sv_backup and sv_compact under
\* SafeConfig satisfies every part of the argument above.
IInv == CoreInv /\ AwayOnce /\ Stored

\* Without compactions every copy of the index is backed by the archives, those of
\* a collection whose commit was lost with the index are newer than all copies.
Backed(d) == \A c \in DOMAIN d.contents : c \in DOMAIN Tar(d.contents[c].arc)

Hoarded ==
    /\ pc \notin CompactPhases /\ removed = {}
    /\ Backed(db)
    /\ \A k \in DOMAIN index : index[k].coll = k /\ k <= db.coll /\ Backed(index[k])

HoardInv == CoreInv /\ Hoarded

-----------------------------------------------------------------------------
(* The invariants behind DedupUnique, VerifyExplained, ContentsMatchHash,      *)
(* NoMissedChange and SnapshotComplete: what the rows of the index say is so.  *)

\* No two rows are for the same hash and length.
Unique(d) == \A c, e \in DOMAIN d.contents :
                /\ d.contents[c].hash = d.contents[e].hash
                /\ d.contents[c].len = d.contents[e].len
                => c = e

\* While a file is archived there is no row yet for what was read of it.
DedupInv ==
    /\ Unique(db)
    /\ \A k \in DOMAIN index : Unique(index[k])
    /\ InTxn => Unique(txn)
    /\ OpenOnce
    /\ pc = "add" => \A p \in DOMAIN open :
                        svdb_contentsbyhash(txn, open[p].hash, open[p].len) = {}

\* An archive of a finished backup has nothing but what a recorded checksum is of.
VerifyInv ==
    /\ InTxn => txn.archives = db.archives
    /\ \A a \in DOMAIN ready \cup DOMAIN away : a[1] <= db.coll =>
         \E r \in db.archives : r.arc = a /\ IsRestriction(Tar(a), r.sum)

\* Nobody writes to a file between hashing and archiving it.
Undisturbed == MandatoryLock \/ "edit_busy" \notin Events

\* A new row has the hash of its member of a new archive.
NewMatch ==
    pc \in {"process", "hash", "add", "clean", "move", "sums"} =>
        \A c \in DOMAIN txn.contents \ DOMAIN db.contents :
            LET row == txn.contents[c]
            IN  IF row.arc \in DOMAIN staging
                THEN c \in DOMAIN staging[row.arc] =>
                        TrueHash(row.hash, staging[row.arc][c])
                ELSE /\ pc \in {"move", "sums"}
                     /\ row.arc \in DOMAIN ready /\ c \in DOMAIN ready[row.arc]
                     => TrueHash(row.hash, ready[row.arc][c])

\* The index, and every copy that may replace it, has the hashes of what is archived.
RowsMatch(d) ==
    \A c \in DOMAIN d.contents :
        LET t == Tar(d.contents[c].arc)
        IN  c \in DOMAIN t => TrueHash(d.contents[c].hash, t[c])

CopiesMatch ==
    "lose_index" \in Events => \A k \in DOMAIN index : RowsMatch(index[k])

MatchInv ==
    /\ RowsMatch(db) /\ CopiesMatch
    /\ InTxn => \A c \in DOMAIN db.contents :
                    txn.contents[c].hash = db.contents[c].hash
    /\ NewMatch
    /\ \A p \in DOMAIN open : /\ p \in DOMAIN disk
                              /\ disk[p].data = open[p].data
                              /\ pc = "add" => TrueHash(open[p].hash, open[p].data)

\* No time is ahead of the file system's, and the file is as it was at this time.
NotAhead(lmt, p) == /\ lmt <= clock
                    /\ p \in DOMAIN disk => lmt <= disk[p].lmt
                    /\ p \notin DOMAIN disk => lmt < clock

Settled(lmt, p) == p \in DOMAIN disk /\ disk[p].lmt = lmt /\ ~ disk[p].twice

Shows(h, p) == /\ TrueHash(h, disk[p].data)
               /\ p \in Audio \/ h = sv_hasher_wholefile(disk[p].data)

RowTrue(d, p) ==
    LET row == d.files[p]
    IN  row.complete =>
           /\ row.contents \in DOMAIN d.contents
           /\ NotAhead(row.lmt, p)
           /\ Settled(row.lmt, p) => Shows(d.contents[row.contents].hash, p)

\* So do the copies of the index, which may replace it.
CopiesTrue == \A k \in DOMAIN index : \A p \in DOMAIN index[k].files :
                RowTrue(index[k], p)

ChangeInv ==
    /\ \A p \in DOMAIN disk : disk[p].lmt <= clock
    /\ \A p \in DOMAIN db.files : RowTrue(db, p)
    /\ CopiesTrue
    /\ InTxn => \A p \in DOMAIN txn.files : RowTrue(txn, p)
    /\ \A p \in DOMAIN open :
         /\ NotAhead(open[p].lmt, p)
         /\ Settled(open[p].lmt, p) =>
               /\ disk[p].data = open[p].data
               /\ pc = "add" => Shows(open[p].hash, p)

\* The row of a file that no step has yet to visit is that of the file as it is.
UpToDate(d, p) == /\ p \in DOMAIN disk
                  /\ d.files[p].complete
                  /\ d.files[p].lmt = disk[p].lmt

InScope(p) == p \in (grp.roots \cup ManualList) \ grp.excluded /\ p \in DOMAIN disk

SeenInv ==
    /\ InTxn =>
         /\ \A p \in Path \ excused : InScope(p) =>
              \/ p \in DOMAIN txn.files
              \/ pc \in {"queue", "manual"} /\ p \in unseen
              \/ pc = "queue" /\ p \in ManualList
         /\ pc \in {"queue", "manual"} =>
              /\ todelete = {}
              /\ \A p \in DOMAIN txn.files \ excused :
                    txn.files[p].complete /\ txn.files[p].mrc = txn.coll
                        => UpToDate(txn, p)
         /\ pc \in {"process", "hash", "add"} =>
              \A p \in DOMAIN txn.files
                         \ (excused \cup pending \cup todelete \cup DOMAIN open) :
                  UpToDate(txn, p)
         /\ pc \in {"clean", "move", "sums"} =>
              \A p \in DOMAIN txn.files \ excused : UpToDate(txn, p)
         /\ \A p \in todelete \ excused : p \notin DOMAIN disk
         /\ \A p \in DOMAIN open \ excused :
              p \in DOMAIN disk /\ open[p].lmt = disk[p].lmt
    /\ pc = "idle" => todelete = {}
    /\ pc = "copydb" =>
         /\ \A p \in Path \ excused : InScope(p) => p \in DOMAIN db.files
         /\ \A p \in DOMAIN db.files \ excused : UpToDate(db, p)

-----------------------------------------------------------------------------
(* The backup program as a keeper of snapshots. *)

\* The bytes a restore finds for the files of an index.
Bytes(d) == [p \in {q \in DOMAIN d.files : Restorable(d, q)} |->
                LET c == d.files[p].contents IN Tar(d.contents[c].arc)[c]]

\* The collections of which there is a good copy of the index that no compaction
\* has reached, and the newest one.
Kept == {k \in DOMAIN index : k > floor /\ index[k].coll = k}
            \cup ({db.coll} \ {0})

Snapshot(k) == IF k = db.coll THEN Bytes(db) ELSE Bytes(index[k])

Keeper == INSTANCE Snapshots WITH Collection <- 1..MaxCollections,
                                  snapshots <- [k \in Kept |-> Snapshot(k)]

\* sv_backup and sv_compact, with everything that can fail in them, keep snapshots:
\* a committed collection is a snapshot that never changes, until a compaction with
\* a later cutoff drops it.
KeepsSnapshots == Keeper!Spec

\* Backups are counted, and the copy made of the newest index lists its files.
CopyInv ==
    /\ db.coll <= MaxCollections
    /\ InTxn => txn.coll <= MaxCollections
    /\ pc = "copydb" => db.coll > 0
    /\ \A k \in DOMAIN index :
         k = db.coll /\ index[k].coll = k => index[k].files = db.files
=============================================================================
