----------------------------- MODULE BackupStore -----------------------------
(***************************************************************************)
(* One backup group: the files of the user, the index database, the tar    *)
(* archives in readytoupload, and the two operations that write them,      *)
(* sv_backup and sv_compact (operations.c, util_archiver.c).               *)
(*                                                                         *)
(* The program is one process (os_detect_other_instances), so operations   *)
(* never overlap; but the user writes files while a backup reads them,     *)
(* moves archives to other disks, and the process may fail or be killed    *)
(* between any two steps.  An operation is therefore a sequence of         *)
(* actions, cut where the disk, the committed index or the user's files    *)
(* are touched, and Abort can end it after each of them.                   *)
(***************************************************************************)
EXTENDS IndexDb

CONSTANTS
    Audio,            \* paths whose extension is one of an audio file
    GroupChoices,     \* values the settings of the group may be given
    ManualList,      \* paths of manual-file-list.txt
    MandatoryLock,   \* TRUE: an open file cannot be written (CreateFileW);
                     \* FALSE: flock is advisory
    CompactModes,    \* allowed compactions: TRUE thorough, FALSE quick
    Events,          \* what may happen around the program, see Event
    MaxCollections,  \* bound on completed backups
    MaxEdits,        \* bound on the times of writes to files
    MaxArchives      \* bound on the tars of one backup

Event ==
    {"edit_busy",   \* the user changes files while an operation runs
     "same_second", \* a write within the second of an earlier one
     "relisted",    \* a directory is listed again after a part of it
     "bad_ffmpeg",  \* ffmpeg fails or finds no sound where there is some
     "move",        \* the user moves archives between operations
     "move_busy",   \* the user moves archives while an operation runs
     "lose_index",  \* the main index is lost and taken from a copy
     "torn_copy",   \* a copy of the index is left truncated
     "unlisted",    \* a directory or file cannot be listed
     "no_access",   \* a file cannot be opened
     "stuck_tar",   \* an archive cannot be moved or rewritten
     "abort"}       \* a check fails, or the process is killed

ASSUME SizeType == Size \in [Data -> Nat] /\ DOMAIN Sound \subseteq Data

Group == [roots : SUBSET Path, excluded : SUBSET Path, separate_metadata : BOOLEAN]

ASSUME GroupType == GroupChoices \subseteq Group /\ Audio \subseteq Path
ASSUME ManualType == ManualList \subseteq Path
ASSUME FlagTypes == /\ MandatoryLock \in BOOLEAN
                    /\ CompactModes \subseteq BOOLEAN
                    /\ Events \subseteq Event
ASSUME BoundTypes == /\ MaxCollections \in Nat
                     /\ MaxEdits \in Nat
                     /\ MaxArchives \in Nat

VARIABLES
    \* what survives the process
    disk,       \* the user's files: path |-> [data, lmt] and, as history,
                \* whether it was written twice with this time
    clock,      \* last modification time given out
    grp,        \* root_directories (as the files below them), exclusions,
                \* "Skip metadata changes"
    db,         \* the index database as last committed
    staging,    \* tars under construction
    ready,      \* readytoupload/*.tar
    away,       \* archives the user keeps on another disk
    removed,    \* archives declared deletable in readytoremove
    index,      \* readytoupload/NNNNN_index.db: collection |-> database
    \* what a running operation keeps
    pc,         \* the step the operation has reached
    txn,        \* the database as its open transaction sees it
    unseen,     \* files a directory walk or the manual list has yet to reach
    pending,    \* rows svdb_files_iter has yet to return
    todelete,   \* rows_to_delete
    open,       \* the locked file handle: path |-> what was read through it
    archnum,    \* currentarchivenum
    plan,       \* archives_to_remove, archives_to_strip and their cutoff
    stripped,   \* the archive just rebuilt, its checksum not yet recorded
    \* history, for the properties only
    floor,      \* highest cutoff a compaction has deleted below
    excused     \* files this backup could not see, or that changed under it

userVars == <<disk, clock, grp>>
storeVars == <<staging, ready, away, removed, index>>
walkVars == <<unseen, pending, todelete, open, archnum>>
planVars == <<plan, stripped>>
histVars == <<floor, excused>>
vars == <<disk, clock, grp, db, staging, ready, away, removed, index, pc, txn,
          unseen, pending, todelete, open, archnum, plan, stripped, floor, excused>>

BackupPhases == {"queue", "manual", "process", "hash", "add", "clean", "move",
                 "sums", "copydb"}
CompactPhases == {"rm_db", "rm_disk", "strip_disk", "strip_sum"}

NoPlan == [cutoff |-> 0, remove |-> EmptyFcn, strip |-> EmptyFcn]

\* Archives by name, and copies of the index by collection.
IsStore(t) == /\ DOMAIN t \subseteq ArchiveId
              /\ t = [a \in DOMAIN t |-> t[a]]
              /\ \A a \in DOMAIN t : IsTar(t[a])

IsIndex(x) == /\ DOMAIN x \subseteq Nat
              /\ x = [k \in DOMAIN x |-> x[k]]
              /\ \A k \in DOMAIN x : IsDb(x[k])

IsPlan(x) == /\ x = [cutoff |-> x.cutoff, remove |-> x.remove,
                     strip |-> x.strip]
             /\ x.cutoff \in Nat
             /\ IsPartial(x.remove, ArchiveId, SUBSET Nat)
             /\ IsPartial(x.strip, ArchiveId, SUBSET Nat)

FileOnDisk == [data : Data, lmt : Nat, twice : BOOLEAN]
OpenFile == [data : Data, hash : Hash, len : Nat, lmt : Nat, id : Nat]

TypeOK ==
    /\ IsPartial(disk, Path, FileOnDisk)
    /\ clock \in Nat
    /\ grp \in Group
    /\ IsDb(db) /\ IsDb(txn)
    /\ IsStore(staging) /\ IsStore(ready) /\ IsStore(away)
    /\ removed \subseteq ArchiveId
    /\ IsIndex(index)
    /\ pc \in {"idle"} \cup BackupPhases \cup CompactPhases
    /\ unseen \subseteq Path /\ pending \subseteq Path
    /\ todelete \subseteq Path /\ excused \subseteq Path
    /\ IsPartial(open, Path, OpenFile)
    /\ archnum \in Nat
    /\ IsPlan(plan) /\ stripped \subseteq ArchiveId
    /\ floor \in Nat

Init ==
    /\ disk \in UNION {[S -> [data : Data, lmt : {0}, twice : {FALSE}]] : S \in SUBSET Path}
    /\ clock = 0
    /\ grp \in GroupChoices
    /\ db = EmptyDb /\ txn = EmptyDb
    /\ staging = EmptyFcn /\ ready = EmptyFcn /\ away = EmptyFcn
    /\ removed = {} /\ index = EmptyFcn
    /\ pc = "idle"
    /\ unseen = {} /\ pending = {} /\ todelete = {}
    /\ open = EmptyFcn /\ archnum = 0
    /\ plan = NoPlan /\ stripped = {}
    /\ floor = 0 /\ excused = {}

-----------------------------------------------------------------------------
(* The user. *)

\* Fault: the file is opened for shared writing.
MayEdit_shared(p) == pc = "idle" \/ "edit_busy" \in Events

MayEdit(p) == /\ pc = "idle" \/ "edit_busy" \in Events
              /\ MandatoryLock => p \notin DOMAIN open

\* Linux reports modification times in seconds, so two writes may share one.
WriteFile(p, d) ==
    /\ MayEdit(p)
    /\ clock < MaxEdits
    /\ \/ clock' = clock + 1
       \/ "same_second" \in Events /\ clock' = clock
    /\ disk' = Put(disk, p, [data |-> d, lmt |-> clock',
                             twice |-> p \in DOMAIN disk /\ disk[p].lmt = clock'])
    /\ excused' = IF pc = "idle" THEN excused ELSE excused \cup {p}
    /\ UNCHANGED <<grp, db, pc, txn, planVars, floor, storeVars, walkVars>>

DeleteFile(p) ==
    /\ MayEdit(p)
    /\ p \in DOMAIN disk
    /\ clock < MaxEdits
    /\ clock' = clock + 1
    /\ disk' = Drop(disk, {p})
    /\ excused' = IF pc = "idle" THEN excused ELSE excused \cup {p}
    /\ UNCHANGED <<grp, db, pc, txn, planVars, floor, storeVars, walkVars>>

\* A directory is added to the group or removed from it.
app_menu_edit_grp_dirs_impl(g) ==
    g.roots # grp.roots /\ g = [grp EXCEPT !.roots = g.roots]

\* An exclusion pattern is added or removed.
app_menu_edit_grp_patterns(g) ==
    g.excluded # grp.excluded /\ g = [grp EXCEPT !.excluded = g.excluded]

\* "Skip metadata changes" is turned on or off.
sv_set_separate_metadata_enabled(g) ==
    g = [grp EXCEPT !.separate_metadata = ~ @]

\* The menu runs one operation at a time.
EditGroup(g) ==
    /\ pc = "idle"
    /\ \/ app_menu_edit_grp_dirs_impl(g)
       \/ app_menu_edit_grp_patterns(g)
       \/ sv_set_separate_metadata_enabled(g)
    /\ grp' = g
    /\ UNCHANGED <<disk, clock, db, pc, txn, planVars, storeVars, walkVars, histVars>>

MayMove == \/ pc = "idle" /\ "move" \in Events
           \/ pc # "idle" /\ "move_busy" \in Events

\* The user moves an archive of a finished backup to another disk, or back.
EvictTar(a) ==
    /\ MayMove
    /\ a \in DOMAIN ready
    /\ a[1] <= db.coll
    /\ away' = Put(away, a, ready[a])
    /\ ready' = Drop(ready, {a})
    /\ UNCHANGED <<userVars, db, pc, txn, planVars, staging, removed, index,
                   walkVars, histVars>>

FetchTar(a) ==
    /\ MayMove
    /\ a \in DOMAIN away \ DOMAIN ready
    /\ ready' = Put(ready, a, away[a])
    /\ away' = Drop(away, {a})
    /\ UNCHANGED <<userVars, db, pc, txn, planVars, staging, removed, index,
                   walkVars, histVars>>

-----------------------------------------------------------------------------
(* sv_backup. *)

EndOperation ==
    /\ pc' = "idle"
    /\ txn' = EmptyDb
    /\ unseen' = {} /\ pending' = {} /\ todelete' = {}
    /\ open' = EmptyFcn /\ archnum' = 0
    /\ plan' = NoPlan /\ stripped' = {}
    /\ excused' = {}

\* Connect, open the transaction, insert the collection, walk the directories.
sv_backup ==
    /\ pc = "idle"
    /\ db.coll < MaxCollections
    /\ pc' = "queue"
    /\ txn' = svdb_collectioninsert(db)
    /\ unseen' = grp.roots
    /\ UNCHANGED <<userVars, db, storeVars, pending, todelete, open, archnum,
                   planVars, histVars>>

\* Fault: the extension of the file does not matter.
separate_any(p) == grp.separate_metadata

separate(p) == grp.separate_metadata /\ p \in Audio

Unchanged(p) ==
    /\ p \in DOMAIN txn.files
    /\ txn.files[p].len = adjustfilesize_if_audio_file(disk[p].data, separate(p))
    /\ txn.files[p].lmt = disk[p].lmt
    /\ txn.files[p].mrc = txn.coll - 1
    /\ txn.files[p].complete

\* The whole callback: excluded, unchanged, changed or new.
sv_backup_addtoqueue_cb(p) ==
    \/ /\ p \in grp.excluded
       /\ txn' = txn
    \/ /\ p \notin grp.excluded
       /\ Unchanged(p)
       /\ txn.files[p].contents \in DOMAIN txn.contents
       /\ txn' = svdb_contents_setlastreferenced(
                    svdb_filesupdate(txn, p, [txn.files[p] EXCEPT
                                                !.mrc = txn.coll]),
                    txn.files[p].contents, txn.coll)
    \/ /\ p \notin grp.excluded
       /\ ~ Unchanged(p)
       /\ p \in DOMAIN txn.files
       /\ txn' = svdb_filesupdate(txn, p, [txn.files[p] EXCEPT
                                             !.mrc = txn.coll,
                                             !.complete = FALSE])
    \/ /\ p \notin grp.excluded
       /\ p \notin DOMAIN txn.files
       /\ txn' = svdb_filesinsert(txn, p, 0)

\* A directory whose listing fails is listed again from its start, up to
\* max_tries, and the callback runs again for what was reached before.
os_recurse_again(p) == "relisted" \in Events /\ pc = "queue" /\ p \in grp.roots

QueueFile(p) ==
    /\ pc \in {"queue", "manual"}
    /\ p \in unseen \/ os_recurse_again(p)
    /\ p \in DOMAIN disk
    /\ sv_backup_addtoqueue_cb(p)
    /\ unseen' = unseen \ {p}
    /\ UNCHANGED <<userVars, db, pc, storeVars, pending, todelete, open,
                   archnum, planVars, histVars>>

\* A directory that cannot be listed, and is given up after max_tries, or a file
\* that cannot be stat'ed is only a message.
os_recurse_impl == pc = "queue" /\ "unlisted" \in Events

\* The file is not there, and the walk says nothing of it; or it is there and the
\* walk has a message.  For an entry of the manual list that is not there, the user
\* answers "continue?" with yes.
SkipFile(p) ==
    /\ p \notin DOMAIN disk \/ os_recurse_impl
    /\ pc \in {"queue", "manual"}
    /\ p \in unseen
    /\ unseen' = unseen \ {p}
    /\ excused' = excused \cup ({p} \cap DOMAIN disk)
    /\ UNCHANGED <<userVars, db, pc, txn, storeVars, pending, todelete, open,
                   archnum, planVars, floor>>

\* Fault: the manual list is ignored.
sv_backup_fromtextfile_empty ==
    /\ pc = "queue"
    /\ unseen = {}
    /\ pc' = "manual"
    /\ UNCHANGED <<userVars, db, txn, storeVars, walkVars, planVars, histVars>>

sv_backup_fromtextfile ==
    /\ pc = "queue"
    /\ unseen = {}
    /\ pc' = "manual"
    /\ unseen' = ManualList
    /\ UNCHANGED <<userVars, db, txn, storeVars, pending, todelete, open,
                   archnum, planVars, histVars>>

\* Clear staging, start the first archive, start iterating over the queue.
ar_manager_begin ==
    /\ pc = "manual"
    /\ unseen = {}
    /\ pc' = "process"
    /\ staging' = EmptyFcn
    /\ archnum' = 1
    /\ pending' = svdb_files_iter(txn, txn.coll)
    /\ UNCHANGED <<userVars, db, txn, ready, away, removed, index, unseen,
                   todelete, open, planVars, histVars>>

\* Cases 1 and 2 of sv_backup_processqueue_cb: the file cannot be opened.
ProcessNoAccess(p) ==
    /\ "no_access" \in Events
    /\ pc = "process"
    /\ p \in pending
    /\ pending' = pending \ {p}
    /\ \/ /\ txn.files[p].contents = 0
          /\ todelete' = todelete \cup {p}
          /\ txn' = txn
       \/ /\ txn.files[p].contents \in DOMAIN txn.contents
          /\ txn' = svdb_contents_setlastreferenced(
                        txn, txn.files[p].contents, txn.coll)
          /\ UNCHANGED todelete
    /\ excused' = excused \cup {p}
    /\ UNCHANGED <<userVars, db, pc, storeVars, unseen, open, archnum, planVars,
                   floor>>

\* Fault: the iteration does not advance past a missing file.
ProcessNotFound_again(p) ==
    /\ pc = "process"
    /\ p \in pending
    /\ p \notin DOMAIN disk
    /\ todelete' = todelete \cup {p}
    /\ UNCHANGED <<userVars, db, pc, txn, storeVars, unseen, pending, open,
                   archnum, planVars, histVars>>

\* Case 3: the file is no longer there.
ProcessNotFound(p) ==
    /\ pc = "process"
    /\ p \in pending
    /\ p \notin DOMAIN disk
    /\ pending' = pending \ {p}
    /\ todelete' = todelete \cup {p}
    /\ UNCHANGED <<userVars, db, pc, txn, storeVars, unseen, open, archnum,
                   planVars, histVars>>

\* Case 4: the handle is opened and stat'ed.
ProcessOpen(p) ==
    /\ pc = "process"
    /\ p \in pending
    /\ p \in DOMAIN disk
    /\ pending' = pending \ {p}
    /\ open' = Put(EmptyFcn, p,
                   [data |-> disk[p].data, hash |-> hash256zeros,
                    len |-> adjustfilesize_if_audio_file(disk[p].data, separate(p)),
                    lmt |-> disk[p].lmt, id |-> 0])
    /\ pc' = "hash"
    /\ UNCHANGED <<userVars, db, txn, storeVars, unseen, todelete, archnum,
                   planVars, histVars>>

\* What reading the open file now can return: the contents it was opened with
\* (the path was replaced since) or the current ones (it was written to).
Readable(p) == {open[p].data} \cup {disk[q].data : q \in {p} \cap DOMAIN disk}

\* What hash_of_file can return.  For the sound, ffmpeg opens the path instead of
\* the handle; when it fails, the bytes are hashed; when it has given the md5 of
\* nothing max_tries times, that is the hash.
ReadHashes(p) ==
    LET bytes == {sv_hasher_wholefile(d) : d \in Readable(p)}
        sounds == IF separate(p) THEN get_audio_hash_without_tags(disk[p].data) ELSE {}
        bad == separate(p) /\ "bad_ffmpeg" \in Events
    IN  sounds \cup {h \in bytes \cup {md5empty} : bad}
               \cup {h \in bytes : sounds = {}}

\* Fault: the time is taken from the file system once the file has been read.
FileRow_late(c, p) ==
    [contents |-> c, len |-> open[p].len,
     lmt |-> IF p \in DOMAIN disk THEN disk[p].lmt ELSE open[p].lmt,
     mrc |-> txn.coll, complete |-> TRUE]

FileRow(c, p) == [contents |-> c, len |-> open[p].len, lmt |-> open[p].lmt,
                  mrc |-> txn.coll, complete |-> TRUE]

\* sv_backup_addfile, contents already in an archive.
HashSeen(p, h) ==
    \E c \in svdb_contentsbyhash(txn, h, open[p].len) :
        /\ txn' = svdb_filesupdate(
                    svdb_contents_setlastreferenced(txn, c, txn.coll),
                    p, FileRow(c, p))
        /\ open' = EmptyFcn
        /\ pc' = "process"

\* sv_backup_addfile, new contents: reserve a row, then archive the file.
HashNew(p, h) ==
    /\ svdb_contentsbyhash(txn, h, open[p].len) = {}
    /\ txn' = svdb_contentsinsert(txn)
    /\ open' = [open EXCEPT ![p].hash = h, ![p].id = txn.next]
    /\ pc' = "add"

HashFile(p) ==
    /\ pc = "hash"
    /\ p \in DOMAIN open
    /\ separate(p) => p \in DOMAIN disk
    /\ \E h \in ReadHashes(p) : HashSeen(p, h) \/ HashNew(p, h)
    /\ UNCHANGED <<userVars, db, storeVars, unseen, pending, todelete, archnum,
                   planVars, histVars>>

\* ar_manager_add reads the path again, moves on to the next archive when this
\* one is full, and the content row is written.  A missing file is an error.
ArchiveFile(p, n) ==
    /\ pc = "add"
    /\ p \in DOMAIN open
    /\ p \in DOMAIN disk
    /\ n \in {archnum, archnum + 1} /\ n <= MaxArchives
    /\ LET a == <<txn.coll, n>>
           c == open[p].id
           t == IF a \in DOMAIN staging THEN staging[a] ELSE EmptyFcn
       IN  /\ staging' = Put(staging, a, Put(t, c, disk[p].data))
           /\ txn' = svdb_filesupdate(
                       svdb_contentsupdate(txn, c,
                          [hash |-> open[p].hash, len |-> open[p].len,
                           arc |-> a, last |-> txn.coll]),
                       p, FileRow(c, p))
    /\ archnum' = n
    /\ open' = EmptyFcn
    /\ pc' = "process"
    /\ UNCHANGED <<userVars, db, ready, away, removed, index, unseen, pending,
                   todelete, planVars, histVars>>

\* Fault: rows_to_delete is never used.
EndQueue_keeprows ==
    /\ pc = "process"
    /\ pending = {}
    /\ pc' = "clean"
    /\ UNCHANGED <<userVars, db, txn, storeVars, walkVars, planVars, histVars>>

\* The queue is exhausted: delete rows_to_delete, record the statistics, finish
\* and verify the last archive.
EndQueue ==
    /\ pc = "process"
    /\ pending = {}
    /\ pc' = "clean"
    /\ txn' = svdb_files_delete(txn, todelete)
    /\ UNCHANGED <<userVars, db, storeVars, walkVars, planVars, histVars>>

\* Fault: the archives of the last committed collection are cleared.
CleanReady_previous ==
    /\ pc = "clean"
    /\ pc' = "move"
    /\ ready' = Drop(ready, {a \in DOMAIN ready : a[1] = db.coll})
    /\ UNCHANGED <<userVars, db, txn, staging, away, removed, index, walkVars,
                   planVars, histVars>>

\* ar_manager_finish: delete what an aborted backup with this id left behind ...
CleanReady ==
    /\ pc = "clean"
    /\ pc' = "move"
    /\ ready' = Drop(ready, {a \in DOMAIN ready : a[1] = txn.coll})
    /\ UNCHANGED <<userVars, db, txn, staging, away, removed, index, walkVars,
                   planVars, histVars>>

\* ... and move the new archives, one by one.
MoveTar(a) ==
    /\ pc = "move"
    /\ a \in DOMAIN staging
    /\ ready' = Put(ready, a, staging[a])
    /\ staging' = Drop(staging, {a})
    /\ UNCHANGED <<userVars, db, pc, txn, away, removed, index, walkVars, planVars,
                   histVars>>

\* Fault: the backup goes on before its archives are in place.
EndMove_early ==
    /\ pc = "move"
    /\ pc' = "sums"
    /\ UNCHANGED <<userVars, db, txn, storeVars, walkVars, planVars, histVars>>

EndMove ==
    /\ pc = "move"
    /\ staging = EmptyFcn
    /\ pc' = "sums"
    /\ UNCHANGED <<userVars, db, txn, storeVars, walkVars, planVars, histVars>>

\* Fault: the commit comes before the checksums.
RecordAndCommit_nosums ==
    /\ pc = "sums"
    /\ pc' = "copydb"
    /\ db' = txn
    /\ UNCHANGED <<userVars, txn, storeVars, walkVars, planVars, histVars>>

\* sv_backup_record_data_checksums, then COMMIT.
RecordAndCommit ==
    /\ pc = "sums"
    /\ pc' = "copydb"
    /\ db' = [txn EXCEPT !.archives = @ \cup
                {[arc |-> a, needed |-> TRUE, sum |-> ready[a]] :
                   a \in {b \in DOMAIN ready : b[1] = txn.coll}}]
    /\ UNCHANGED <<userVars, txn, storeVars, walkVars, planVars, histVars>>

\* What a copy of d can come out as: os_copy truncates the destination first, and
\* a truncated file opens as an empty database.
os_copy(d) == {d} \cup {EmptyDb : e \in {"torn_copy"} \cap Events}

\* sv_backup_makecopyofdb: a failure is only logged.
CopyDb ==
    /\ pc = "copydb"
    /\ \E copy \in os_copy(db) : index' = Put(index, db.coll, copy)
    /\ EndOperation
    /\ UNCHANGED <<userVars, db, staging, ready, away, removed, floor>>

\* The errors the code itself runs into: the file to be archived, the file ffmpeg
\* should read or the tar just rebuilt is gone, or a row refers to contents that
\* have no row.
Failed ==
    \/ pc = "add" /\ DOMAIN open \cap DOMAIN disk = {}
    \/ pc = "hash" /\ \E p \in DOMAIN open \ DOMAIN disk : separate(p)
    \/ pc = "strip_sum" /\ stripped \cap DOMAIN ready = {}
    \/ /\ pc \in {"queue", "manual"}
       /\ \E p \in unseen \cap DOMAIN disk :
            Unchanged(p) /\ txn.files[p].contents \notin DOMAIN txn.contents

\* Any check() that fails, or the process being killed: the open transaction is
\* rolled back and what is in memory is lost; files stay as they are.
Abort ==
    /\ "abort" \in Events \/ Failed
    /\ pc # "idle"
    /\ EndOperation
    /\ UNCHANGED <<userVars, db, storeVars, floor>>

-----------------------------------------------------------------------------
(* sv_compact. *)

\* Fault: the cutoff collection is counted one too far.
Old_next(d, a, k) == {c \in DOMAIN d.contents : /\ d.contents[c].arc = a
                                                /\ d.contents[c].last <= k + 1}

Old(d, a, k) == {c \in DOMAIN d.contents : /\ d.contents[c].arc = a
                                           /\ d.contents[c].last <= k}
New(d, a, k) == {c \in DOMAIN d.contents : /\ d.contents[c].arc = a
                                           /\ d.contents[c].last > k}

Archives(d) == {d.contents[c].arc : c \in DOMAIN d.contents}

\* sv_compact_getarchivestats: the ids are collected in thorough mode only.
old_individual_files(d, a, k, thorough) == IF thorough THEN Old(d, a, k) ELSE {}

\* Fault: an archive goes although something in it is still needed.
ToRemove_mixed(d, k) == {a \in Archives(d) : Old(d, a, k) # {}}

\* sv_compact_see_what_to_remove_cb
ToRemove(d, k) == {a \in Archives(d) : Old(d, a, k) # {} /\ New(d, a, k) = {}}

\* Archives with enough old data; the threshold picks among these.
MayStrip(d, k, thorough) ==
    {a \in Archives(d) : thorough /\ Old(d, a, k) # {} /\ New(d, a, k) # {}}

\* "Quick Compaction", "Thorough Compaction" or back.
sv_compact_ask_user(thorough) == thorough \in CompactModes

\* Choose the mode and a cutoff older than the newest collection, read the
\* statistics, decide.  Nothing found: nothing happens.
sv_compact(thorough, k, strip) ==
    /\ pc = "idle"
    /\ sv_compact_ask_user(thorough)
    /\ k > 0 /\ k < db.coll
    /\ strip \subseteq MayStrip(db, k, thorough)
    /\ ToRemove(db, k) \cup strip # {}
    /\ plan' = [cutoff |-> k,
                remove |-> [a \in ToRemove(db, k) |->
                              old_individual_files(db, a, k, thorough)],
                strip |-> [a \in strip |->
                              old_individual_files(db, a, k, thorough)]]
    /\ UNCHANGED stripped
    /\ pc' = "rm_db"
    /\ UNCHANGED <<userVars, db, txn, storeVars, walkVars, histVars>>

\* sv_remove_entire_archives, the transaction.
RemoveRows ==
    /\ pc = "rm_db"
    /\ pc' = "rm_disk"
    /\ db' = [svdb_contents_bulk_delete(db, UNION Range(plan.remove))
                EXCEPT !.archives = @ \cup
                  {[arc |-> a, needed |-> FALSE, sum |-> EmptyFcn] :
                     a \in DOMAIN plan.remove}]
    /\ floor' = IF plan.cutoff > floor THEN plan.cutoff ELSE floor
    /\ UNCHANGED <<userVars, txn, storeVars, walkVars, planVars, excused>>

\* One archive goes to readytoremove, or a text file there says it may be
\* deleted, or the move fails and the archive stays.
RemoveTar(a) ==
    /\ pc = "rm_disk"
    /\ a \in DOMAIN plan.remove
    /\ plan' = [plan EXCEPT !.remove = Drop(@, {a})]
    /\ \/ ready' = Drop(ready, {a}) /\ removed' = removed \cup {a}
       \/ /\ a \in DOMAIN ready /\ "stuck_tar" \in Events
          /\ UNCHANGED <<ready, removed>>
    /\ UNCHANGED <<userVars, db, pc, txn, staging, away, index, walkVars,
                   stripped, histVars>>

\* sv_strip_archive_removing_old_files, the transaction: rows are deleted only
\* for archives that are present.
StripRows ==
    /\ pc = "rm_disk"
    /\ plan.remove = EmptyFcn
    /\ pc' = "strip_disk"
    /\ db' = svdb_contents_bulk_delete(db,
                UNION {plan.strip[a] : a \in DOMAIN plan.strip \cap DOMAIN ready})
    /\ UNCHANGED <<userVars, txn, storeVars, walkVars, planVars, histVars>>

\* ar_util_delete rebuilds the tar without the old members and renames it into
\* place; when it fails, or the archive is not there, the next one follows.
StripTar(a) ==
    /\ pc = "strip_disk"
    /\ a \in DOMAIN plan.strip
    /\ plan' = [plan EXCEPT !.strip = Drop(@, {a})]
    /\ \/ /\ a \in DOMAIN ready
          /\ ready' = Put(ready, a, Drop(ready[a], plan.strip[a]))
          /\ stripped' = {a}
          /\ pc' = "strip_sum"
       \/ /\ a \notin DOMAIN ready \/ "stuck_tar" \in Events
          /\ UNCHANGED <<ready, stripped, pc>>
    /\ UNCHANGED <<userVars, db, txn, staging, away, removed, index, walkVars,
                   histVars>>

\* The checksum of the new tar; reading a tar that is gone is an error.
StripChecksum(a) ==
    /\ pc = "strip_sum"
    /\ a \in stripped \cap DOMAIN ready
    /\ pc' = "strip_disk"
    /\ db' = write_archive_checksum(db, a, TRUE, ready[a])
    /\ stripped' = {}
    /\ UNCHANGED <<userVars, txn, storeVars, walkVars, plan, histVars>>

EndCompact ==
    /\ pc = "strip_disk"
    /\ plan.strip = EmptyFcn
    /\ EndOperation
    /\ UNCHANGED <<userVars, db, storeVars, floor>>

-----------------------------------------------------------------------------
(* Start-up without the main index. *)

\* sv_app_findgroupnames takes the last NNNNN_index.db as the new main index.
sv_app_findgroupnames(k) ==
    /\ "lose_index" \in Events
    /\ pc = "idle"
    /\ k \in DOMAIN index
    /\ \A j \in DOMAIN index : j <= k
    /\ db' = index[k]
    /\ db' # db
    /\ UNCHANGED <<userVars, pc, txn, storeVars, walkVars, planVars, histVars>>

-----------------------------------------------------------------------------
BackupStep ==
    \/ \E p \in Path : \/ QueueFile(p) \/ SkipFile(p)
                       \/ ProcessNoAccess(p) \/ ProcessNotFound(p)
                       \/ ProcessOpen(p) \/ HashFile(p)
                       \/ \E n \in {archnum, archnum + 1} : ArchiveFile(p, n)
    \/ sv_backup_fromtextfile \/ ar_manager_begin \/ EndQueue
    \/ CleanReady \/ (\E a \in DOMAIN staging : MoveTar(a)) \/ EndMove
    \/ RecordAndCommit \/ CopyDb

CompactStep ==
    \/ RemoveRows \/ StripRows \/ EndCompact
    \/ \E a \in DOMAIN plan.remove : RemoveTar(a)
    \/ \E a \in DOMAIN plan.strip : StripTar(a)
    \/ \E a \in stripped : StripChecksum(a)

UserStep ==
    \/ \E p \in Path : \/ \E d \in Data : WriteFile(p, d)
                       \/ DeleteFile(p)
    \/ \E g \in GroupChoices : EditGroup(g)
    \/ \E a \in DOMAIN ready : EvictTar(a)
    \/ \E a \in DOMAIN away : FetchTar(a)

StartStep ==
    \/ sv_backup
    \/ \E thorough \in CompactModes, k \in 1..db.coll :
         \E strip \in SUBSET MayStrip(db, k, thorough) :
           sv_compact(thorough, k, strip)
    \/ \E k \in DOMAIN index : sv_app_findgroupnames(k)

Next == BackupStep \/ CompactStep \/ Abort \/ UserStep \/ StartStep

Spec == Init /\ [][Next]_vars

\* A started operation goes on: the steps of the process are its own control
\* flow, and Abort stands for its failures.  Nothing obliges the user.
FairSpec == Spec /\ WF_vars(BackupStep \/ CompactStep \/ Abort)

-----------------------------------------------------------------------------
(* Properties. *)

\* The archive as a restore finds it, once its user has fetched it.
Tar(a) == IF a \in DOMAIN ready THEN ready[a]
          ELSE IF a \in DOMAIN away THEN away[a] ELSE EmptyFcn

\* The archive holds the bytes of contents c, and nobody was told to delete it.
Holds(a, c) ==
    /\ a \notin removed
    /\ \/ a \in DOMAIN ready /\ c \in DOMAIN ready[a]
       \/ a \in DOMAIN away /\ c \in DOMAIN away[a]

Restorable(d, p) ==
    LET c == d.files[p].contents
    IN  c \in DOMAIN d.contents /\ Holds(d.contents[c].arc, c)

\* "Restore": every file the committed index lists can be restored, at any
\* moment, whatever step of a backup or compaction was interrupted.
LatestRestorable == \A p \in DOMAIN db.files : Restorable(db, p)

\* "Restore from past": so can every file of an index copy newer than what
\* compaction was allowed to drop.
PastRestorable ==
    \A k \in DOMAIN index : k > floor =>
        \A p \in DOMAIN index[k].files : Restorable(index[k], p)

\* The index never points to data that is not there: content rows go before the
\* members or the tar they describe.
RowsBacked == \A c \in DOMAIN db.contents : Holds(db.contents[c].arc, c)

\* The hash belongs to d.  Nothing can be said when ffmpeg gave no sound.
TrueHash(h, d) == h = md5empty \/ Describes(h, d)

\* The index knows file p as having contents d; only an audio file may differ in
\* its tags.
Recorded(p, d) == LET h == db.contents[db.files[p].contents].hash
                  IN  TrueHash(h, d) /\ (p \in Audio \/ h = sv_hasher_wholefile(d))

\* What is archived under a content row is what was hashed, or sounds the same, so
\* that the check in sv_restore_file succeeds.
ContentsMatchHash ==
    \A c \in DOMAIN db.contents :
        LET t == Tar(db.contents[c].arc)
        IN  c \in DOMAIN t => TrueHash(db.contents[c].hash, t[c])

\* No contents are stored twice: one row for a hash and a length.
DedupUnique ==
    \A c, e \in DOMAIN db.contents :
        /\ db.contents[c].hash = db.contents[e].hash
        /\ db.contents[c].len = db.contents[e].len
        => c = e

\* A file that looks unchanged to the next backup (case 2 of
\* sv_backup_addtoqueue_cb) is unchanged, up to its tags: stat before hash, and a
\* write in between shows as a newer modification time, unless it falls within
\* the same unit of time as an earlier one.
NoMissedChange ==
    \A p \in DOMAIN db.files \cap DOMAIN disk :
        /\ db.files[p].complete
        /\ db.files[p].lmt = disk[p].lmt
        /\ ~ disk[p].twice
        => Recorded(p, disk[p].data)

\* A committed backup is a snapshot: every file in scope that the walk and the
\* backup could read and that did not change meanwhile is recorded with its current
\* contents, and no row is left for a file that was already gone when it began.
SnapshotComplete ==
    pc = "copydb" =>
        \A p \in Path \ excused :
            IF p \in DOMAIN disk
            THEN p \in (grp.roots \cup ManualList) \ grp.excluded =>
                   /\ p \in DOMAIN db.files
                   /\ db.files[p].lmt = disk[p].lmt
                   /\ disk[p].twice \/ Recorded(p, disk[p].data)
            ELSE p \notin DOMAIN db.files

\* An archive of a committed backup that fails verification is a stripped
\* version of one that passes: sv_verify_archives has a checksum to compare with
\* for every archive the index needs.
VerifyExplained ==
    pc = "idle" =>
        \A a \in DOMAIN ready :
            a[1] <= db.coll /\ archive_needed(db, a) =>
                \E r \in svdb_archives_get_checksums(db, a) :
                    a \in sv_verify_archives(db, ready) =>
                        IsRestriction(ready[a], r.sum)

\* A backup never deletes or overwrites an archive of a committed collection,
\* although collection ids of aborted backups are used again.
CommittedTarsKept ==
    [][(pc \in BackupPhases) =>
         \A a \in DOMAIN ready \cup DOMAIN away : a[1] <= db.coll =>
            \E t \in {ready', away'} : a \in DOMAIN t /\ t[a] = Tar(a)]_vars

\* Every operation comes to an end, however the user interferes.
OperationEnds == (pc # "idle") ~> (pc = "idle")
=============================================================================
