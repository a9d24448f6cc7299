# Verification of GlacialBackup

GlacialBackup (`src/`) is a command-line backup program in C. It keeps an
SQLite index of the user's files, stores new contents once in tar archives that
the user uploads or moves to other disks, and later drops what has expired.
This directory holds TLA+ modules that model the program, TLC configurations that
check them on small instances, and theorems checked by TLAPS.

## 1. The system

| Component | State | Operations | Talks to |
|---|---|---|---|
| Index database (`dbaccess.c`) | tables of files, contents, archives, collections, vaults; one open transaction | insert, update, iterate, look up by hash, bulk delete; commit, rollback | all operations |
| Backup (`operations.c:62-736`) | the transaction, rows to delete, the open file, the collection id | walk and queue, process the queue, finish, commit, copy the index | index, archive manager, the user's files |
| Compaction (`operations.c:738-1136`) | the cutoff, archives to remove and to strip | choose, remove archives, strip archives | index, readytoupload, readytoremove |
| Restore (`operations.c:1138-1476`) | a copy of the index of a past collection | choose, extract, check the hash, write | index copies, archives |
| Archive manager (`util_archiver.c`) | current archive number, its names, sizes; staging, readytoupload | begin, add, advance, finish, restore, delete members | file system, tar and xz |
| Recovery, groups, settings, verification (`user_config.c`) | group settings in the index, list of groups | create, load, edit, take the last index copy, verify checksums | index, readytoupload |
| Cloud upload (`op_sync_cloud.c`) | vaults and what was uploaded to them | find dirty files, upload, record | index, readytoupload, aws command line |
| File system wrappers (`util_files.c`, `util_os.c`) | none | locked open, walk, copy, move, retries | all |
| Utilities, logs, menus, audio tags, vendored libraries | | | |

The program is a single process: a second one refuses to start
(`os_detect_other_instances`), and the menu runs one operation at a time. What
makes it hard is everything around it:

* the user writes, deletes and locks files while a backup reads them, and moves
  archives between readytoupload and other disks at any time;
* an operation touches two stores that have no common transaction, the
  database and the directory of archives, and can fail or be killed between any
  two steps; a rolled-back backup leaves archives behind and its collection
  id is given out again;
* an archive is shared by all later collections through deduplication, so
  that what one compaction deletes can hurt a backup made years later;
* copies of the index live on after the index has moved on.

What makes the components correct: whatever the newest index or a covered
copy of it lists can be restored at every moment (backup, compaction, recovery); the
index describes bytes that exist and are the bytes that were hashed
(backup, archive manager); the next backup notices every change (backup);
contents are stored once (index); an archive of a finished backup is never
overwritten (archive manager); verification reports damage only (verification);
every operation ends; retention keeps what the settings promise (compaction);
the vault tables describe what was uploaded (cloud upload); a restored file is what was backed up
(restore).

`PROJECT.json` lists the hazards at their lines with the properties that cover them.

## 2. Modules

| Module | Models | Composed of |
|---|---|---|
| `AudioHash` | hash and length of a file with and without "Skip metadata changes" | |
| `IndexDb` | the queries of `dbaccess.c` and `sv_verify_archives` as operators on a database value | `AudioHash` |
| `BackupStore` | one group: the user's files, the index, the archives, and `sv_backup`, `sv_compact`, failures, recovery of the index | `IndexDb` |
| `Snapshots` | what a backup program promises (abstract specification) | |
| `BackupStoreInv` | the invariants behind the proofs, and the mapping of `BackupStore` to `Snapshots` | `BackupStore`, refines `Snapshots` |
| `Retention` | the setting for days, the times of backups, the cutoff in 32-bit arithmetic | |
| `Groups` | a group and its settings: creation, menus, rows, crashes; compaction with the days they hold | `Retention` |
| `Packing` | what a backup expects of the archive manager (abstract specification) | |
| `ArManager` | the archive manager in one backup | refines `Packing` |
| `Restore` | `sv_restore` with `ar_manager_restore` and the hash of audio files | `AudioHash` |
| `CloudSync` | `op_sync_cloud.c` and the vault tables | |
| `MC...` | values of the constants for TLC | |
| `BackupStoreProofs`, `BackupSafetyProofs`, `BackupRecordProofs` | lemmas about the operators of `IndexDb`, types, `CoreInv`; what can be restored; what the rows say, and the refinement | `BackupStoreInv` |
| `FoldLaws` | what a left fold over a sequence computes, for `ArManagerProofs` | |
| `RetentionProofs`, `RestoreProofs`, `ArManagerProofs`, `CloudSyncProofs` | theorems | `Groups` and the module they are named after |

Definitions marked `Fault:` in the comments are not part of any specification: each is a
plausible error in the definition beside it, which `PROJECT.json` pairs with the
property that notices it.

### IndexDb

A table is a partial function from its key to a row. `mrc` and `complete` are the two
halves of the `Status` column. The checksum of an archive is modelled by the archive's
members, so two checksums are equal exactly when the members are. Values of the database
are immutable; a transaction is a second value (`txn`) that replaces the first on commit
and is dropped on rollback.

### BackupStore

An operation is cut into actions where it touches the disk, commits, or reads a file of
the user; what lies between two such points is one action, because nothing else can see
it.

| `pc` | Code | Actions |
|---|---|---|
| `queue` | walk of the directories, `sv_backup_addtoqueue` | `QueueFile`, `SkipFile`, `sv_backup_fromtextfile` |
| `manual` | `sv_backup_fromtextfile` | `QueueFile`, `SkipFile`, `ar_manager_begin` |
| `process` | `svdb_files_iter`, `sv_backup_processqueue_cb` | `ProcessNoAccess`, `ProcessNotFound`, `ProcessOpen`, `EndQueue` |
| `hash` | `sv_backup_addfile` up to the lookup | `HashFile` (`HashSeen`, `HashNew`) |
| `add` | `ar_manager_add`, row of the contents | `ArchiveFile` |
| `clean`, `move` | `ar_manager_finish` | `CleanReady`, `MoveTar`, `EndMove` |
| `sums` | `sv_backup_record_data_checksums`, COMMIT | `RecordAndCommit` |
| `copydb` | `sv_backup_makecopyofdb` | `CopyDb` |
| `rm_db`, `rm_disk` | `sv_remove_entire_archives` | `RemoveRows`, `RemoveTar` |
| `strip_disk`, `strip_sum` | `sv_strip_archive_removing_old_files` | `StripRows`, `StripTar`, `StripChecksum`, `EndCompact` |

`Abort` ends an operation in any of these states. The user is `WriteFile`, `DeleteFile`,
`EditGroup`, `EvictTar` and `FetchTar`; `sv_app_findgroupnames` replaces a lost index.
The constant `Events` says which of the disturbances an instance has. The Linux and
Windows builds differ in one point that matters: an open file cannot be written on
Windows (`MandatoryLock`), while `flock` on Linux is advisory.

The history variables are `floor` (the latest cutoff of a compaction), `excused` (files
the user changed or a message was about during this operation; a file that is not there is
simply not listed, without a message, and is not excused) and the field `twice` of a
file (written twice at the modification time it has). `Tar(a)` is an archive wherever
it is.

Under `separate_metadata` an audio file is entered with the hash of its sound and the
length 1; ffmpeg takes the path and not the locked handle, so it reads what is there now, and with
the event `bad_ffmpeg` it fails or gives the md5 of nothing.

Abstractions: file names are model values; a hash stands for the data it was computed
from (no collisions); `Size` gives the length of each content; the target size of an
archive is a free choice of when to start the next one (`ArManager` has the real rule);
the cutoff of a compaction is any collection but the newest (`Retention` has the real
one); the threshold for stripping is a free choice. A write advances the modification
time of the file, except with the event `same_second`. The walk visits files in any
order, and visits some again when `os_recurse` lists a directory anew (`relisted`). The order in which compaction handles archives is free. Permissions, messages and
statistics are left out.

### Retention

Time passes in units of 128 seconds, which divide a day and 2^32 seconds exactly.
`app_edit_setting`, `sv_backup` (refreshes what a file still has, appends its time of
completion) and `sv_compact` are the actions, with `sv_compact_getcutoff` as the guard
of the last; `Seconds` is the product as the code computes it, modulo 2^32, and `Fatal`
the check in `cast32u32s` that ends the program. A compaction may drop any of what has
expired: the threshold and missing archives decide which.

### Groups

`sv_grp_persist` writes seven rows, each in a transaction of its own, and the program can be
killed or a write can fail between any two of them; `sv_app_creategroup` is cut at each
of its system calls too, and writes the rows twice. `sv_grp_load` reads a missing row as empty or 0,
so a creation that was interrupted leaves a group with 0 days and archives of 0 bytes;
a group whose directory exists without an index is neither listed nor created again. A
group without directories is still backed up: `sv_backup_addtoqueue` only says so.
Every operation of the menu begins with loading a listed group, which adds the schema
to an empty index. The variable `days` of `Retention` is
the row for the days, so its `sv_compact` is run with what was really written.

`chosen` is a history variable: what the user may take a setting to be. After an
interrupted edit that is the old or the new value, until a menu shows him which.

### Packing and ArManager

`Packing` has two steps: a content is placed in an archive whose number and size are
reported, and at the end the archives are delivered with exactly what was placed in
them. `ArManager` has the size and number limits, the lists `current_names` and
`current_sizes`, `filenames.txt`, `ar_util_verify` over the listing of the tar (in
order, repeated lines allowed as in the code), `xz` returning 1, files that change
between the call that measures them and tar, and `os_tryuntil_run` repeating a tar that
had appended. `may` fixes the mishaps one behaviour can have.

### Restore

| `pc` | Code | Actions |
|---|---|---|
| `menu` | `sv_restore_checkbinarypaths`, `sv_choosecollection` | `sv_choosecollection`, `app_edit_setting`, `MoveArchive` |
| `options` | `sv_restore_ask_user_options` | `sv_restore`, `Cancel` |
| `walk` | `svdb_files_iter`, `sv_restore_cb` | `sv_restore_cb`, `EndRestore` |
| `extract`, `unxz`, `move` | `ar_manager_restore` | `Extract`, `Decompress`, `MoveToDest` and their failures |
| `check` | `sv_restore_file` after it | `CheckFile`, `CheckFails` |
| `end` | `sv_restore_show_messages`, `sv_restore_state_close` | `NextRestore` |

The index, what is in the archives and which archives are present are inputs: `Init`
takes all that fit, damaged and exchanged members included. An index row carries the
hash and length the backup entered under the setting of its time (`ContentRow`): the
bytes and their number, or, for an audio file under "Skip metadata changes", the hash of
the sound and the placeholder 1. `Sound` says which data sound the same. `faulted` is a
history variable.

### CloudSync

`unseen` and `todo` are the walk of `sv_sync_finddirtyfiles_find`: the files the current
listing has yet to reach, and `sizes_and_files` with an entry for each listing (`attempt`)
that found the file dirty. A listing that fails starts again and calls the callback once
more for what it was called for before (`ListAgain`, up to `max_tries`), and is then given
up (`GiveUp`); a symbolic link and a file whose `stat` fails are left out (`SkipFile`). Both
leave a message in `params.messages`, which nobody is shown. An entry is not looked up in the
index again before its upload. `cur` is the file being uploaded.
Upload, checksum, deletion of the old record and insertion of the new one are separate
actions (`UploadOk`, `UploadFail`, `UploadLost`, `MarkCrc`, `MarkDelete`, `MarkInsert`),
because none is in a transaction with another. `CopyIndex` and `RecoverIndex` are the
copy a backup makes and the index that comes back from it. The aws program is external:
it may store an archive and report failure. While a sync runs, files are written, moved away
(`edit_busy`) or moved back (`back_busy`), by the user at the prompts or by another program.
History variables are `failed`, the files the user saw fail, `changed`, those touched during
this sync, `again`, those entered more than once, `unshown`, those the walk left out, and the
field `raced` of a record, whose file was touched between being uploaded and being recorded.

## 3. What is checked

| Run | Shows | Bounds |
|---|---|---|
| `store_compact` | Backups and thorough compactions with archives moved between operations, failures after every step, archives that cannot be moved, torn index copies: `LatestRestorable`, `PastRestorable`, `RowsBacked`, `VerifyExplained`, the invariant `IInv` of the proofs, and refinement of `Snapshots` (`KeepsSnapshots`) | 2 files, 2 contents, 3 collections, 2 writes, 1 archive each |
| `store_linux` | Files written while they are read, advisory locks, unreadable files and directories, directories listed again, a group that changes, a manual list that overlaps, an audio file: `NoMissedChange`, `SnapshotComplete`, `DedupUnique` | 2 files, 2 collections, 2 writes, 2 archives each |
| `store_windows` | Locked files, the audio setting turned on and off: `NoMissedChange`, `ContentsMatchHash`; under fairness `OperationEnds`, for quick and thorough compaction; the invariant `CoreInv` of the proofs, which both keep | 2 files, 2 collections, 2 writes, 1 archive each |
| `store_recover` | The index is lost at any time and taken from the last copy, archives move at any time, backups abort, writes share a second, ffmpeg fails: `LatestRestorable`, `PastRestorable`, `NoMissedChange`, `CommittedTarsKept`, and the invariant `HoardInv` of the proofs | 1 audio file, 3 collections, 2 writes, 1 archive each, no compaction |
| `quick_loses_data`, `recover_after_compact` | violations, see findings | 1 file, 3 collections, 3 writes |
| `retention_days` | `Groups` with `Retention`: `SettingsAsChosen`, `RootsApart`, `DroppedIsOld`, `NewestKept` | 0, 1, 30 days and 49711, which the code takes for 17.5 hours; a directory and one inside it; 3 backups; a day and a unit |
| `retention_wraps` | violation, see findings | 0, 30 and 49711 days; the rest as in `retention_days` |
| `tar_pack` | `NamesListed`, `VerifiedSizes`, `WholeMembers`, `ArchiveBounds`, and refinement of `Packing` (`PacksAsPromised`) | 4 contents of sizes 1 and 2, limits that force archives by size and by number |
| `restore_faults` | `RestoredOrReported`, `CountsTrue`, `ReportedForReason` | 2 files, one of them audio, 2 collections, 2 ids, 2 archives |
| `restore_drives` | violation, see findings | 2 paths with one target |
| `cloud_faults` | Failures, kills and changes at every step of a sync, listings that fail and files that are left out: `CleanIsUploaded`, `RowsTrue`, `SyncComplete`, `NoRedundantUpload`, and the invariant `IInv` of the proofs | 2 files, 2 vaults, 2 uploads, 1 write during or between syncs, 2 listings |

Every run has the type invariant or belongs to a module whose type invariant another run
checks. All runs set `CHECK_DEADLOCK FALSE`: when the bounds are used up and nothing is
running, the system may stop. Contents of one length are interchangeable (`SwapData`), and in
`CloudSync` files and vaults too (`SwapAll`); runs with a liveness property use no symmetry.

**Why the bounds are enough.** Every mechanism of the backup needs few
objects to show: two files with two contents give sharing, replacement and
exchange; three collections are a first backup, one that stops using a content
and one that uses it again, with compactions in between, which is the shape of
both known losses. A second archive in a collection matters where an archive is
moved or a manual list follows; `store_linux` has it. In `cloud_faults`
two uploads let one be repeated or both files and both vaults be served; `back_busy`
multiplies its states beyond reach and is left to the theorems, which have it. Of the
two listings (10 in the code) one fails and starts again and one is given up. The constraint
`SecondVault` keeps the run small: a walk knows one vault only, so the second is registered in
behaviours without such failures, and copies of the index that have both vaults, or one while a
file is written, are left to the theorems. In
`retention_days` a day and one unit more are the two sides of the comparison; 49711 days
are 493 units of 128 seconds in 32 bits, less than a day, so that what is dropped under
this setting can be younger than under any other of them; and
a directory with one inside it is what lists may get wrong. In
`tar_pack` archives hold up to three names before the number limit acts
(`limitperarchive` is exceeded by one, as in the code) and four contents fill
up to four archives. `restore_faults` has two files sharing an id or not, which is what
files can do to each other in the working directory. Where a theorem exists it
covers all bounds.

**Properties and code.** `LatestRestorable` and `PastRestorable` hold in every
state, not only between operations: a kill is then harmless at every step.
`VerifyExplained` says that `sv_verify_archives` flags an archive of a committed backup
only when it is a stripped version of one it accepts: a compaction stopped between
replacing the tar and recording its checksum leaves it so, and this is reported as
damage until the archive is stripped again. `NoMissedChange` is about the order of `stat` and hash in
`sv_backup_addfile`, and exempts files written twice at one modification time (`twice`); where
several hashes can be right for an audio file, `TrueHash` takes any of them, the md5 of
nothing included, which is why two files for which ffmpeg gives that are taken for one (see findings). `SnapshotComplete` is about both sides of the walk: a file that is
there is in the snapshot unless it is excused, and the row of a file that is gone
is dropped when the walk does not list it or the queue does not find it. `CommittedTarsKept` is about collection ids, which are given out
again after a rollback and name the archives that `ar_manager_finish` deletes.
`KeepsSnapshots` is the promise as a whole: what can be restored of a committed collection
is the same bytes from the commit on, through rebuilt and moved archives, until a
compaction with a later cutoff drops it; the newest collection becomes a past one only when its
copy of the index came out whole. `SettingsAsChosen` would fail if a group were written
that had not been loaded, or a setting were read before its row is there.
`ReportedForReason` excludes a contagion through the working directory, and lists as
a reason the audio setting of today differing from that of the backup.
`OperationEnds` takes the rows to process as a set fixed when `svdb_files_iter` starts; that
SQLite ends an iteration over rows that are rewritten meanwhile is taken from it.

Three promises of the code hold only with an exception, and each is stated twice. The weaker
form names the exception, is checked by a run that passes and proved without premises:
`SyncComplete` exempts what the walk left out (`unshown`), `NoRedundantUpload` what it
entered twice (`again`), `DroppedIsOld` settings whose seconds do not fit in 32 bits. The full form
(`OmissionsShown`, `NoSecondArchive`, `KeptAsLongAsSet`) is violated, the last in a run of
its own, and is a theorem where the exception cannot occur, which shows that it is the only one.

**Fairness.** `FairSpec` of `BackupStore` assumes weak fairness of one disjunction, the
steps of the running operation: the process runs its own control flow to the end
unless it is aborted, which ends it too. Nothing is assumed of the user, of the
times archives come back, or of starting any operation; no loop of the code waits for
another party.

### Findings

The four runs that expect a violation show code that does other than it says.

* `quick_loses_data`: quick compaction removes archives and keeps the rows of their
  contents (`operations.c:804`, `operations.c:970`), against the comment at
  `operations.c:958`. A later backup of the same contents refers to the
  removed archive.
* `recover_after_compact`: the index copies predate compaction
  (`operations.c:110`), and `user_config.c:136` makes the last one the main index.
  Removed rows are back, and a later backup refers to them.
* `restore_drives`: paths that differ only in their drive are restored to one file
  (`operations.c:1223`), and both are counted.
* `retention_wraps`: `days * 60 * 60 * 24` wraps at 49711 days (`operations.c:756`), below the
  100000 the menu accepts: from there to 74565 days and from 99421 days on contents are dropped
  too early, and the products between, above 2^31, end the program (`cast32u32s`).

Met while modelling, and kept in the models without a run of their own:

* A write of the same length within the second of the recorded modification
  time is not seen by the next backup; `NoMissedChange` and `SnapshotComplete` exempt `twice`.
* An archive that the user fetches back in a version from before it was stripped
  is accepted by verification and simply holds more.
* A directory taken off the list does not age: `sv_backup_processqueue_cb`
  (`operations.c:481`) processes every row of the files table that is not marked
  for this collection, and refreshes those whose files exist. The menu
  (`user_config.c:407`) says that such files begin to age out.
* What was deleted yesterday can be dropped today: the cutoff is the newest
  collection that is old enough (`operations.c:763`), and what it was the last to
  use has expired, however recently the file was deleted. `DroppedIsOld` therefore
  counts from the last backup that had the content.
* A second archive of a name can come to be when the index is replaced after a commit
  whose copy was not made: the id is given out again and `ar_manager_finish` deletes
  the archive of the committed collection (`util_archiver.c:169`). The copy
  that is then the index does not name it; `CommittedTarsKept` is about the index in use.
* A copy of the index torn by a failure opens as an empty index, and
  taking it (`user_config.c:136`) starts from nothing. Recovery also reverts the settings.
* An archive may hold one name more than its limit (`util_archiver.c:107`).
* When tar is repeated after it appended, the archive lists a name twice; the
  comparison in `ar_util_verify` lets repeated lines pass, so a second version of
  a file that grew in between can pass too: an earlier line has the recorded size,
  and tar extracts the later member (`util_archiver.c:341`). TLC finds `VerifiedSizes` violated
  when one backup meets both "changed" and "retry"; the run `tar_pack` and two of
  the theorems keep them apart.
* An archive the user brings back to readytoupload between the transaction of
  `sv_strip_archive_removing_old_files`, which skips it because it is not there
  (`operations.c:889`), and the loop over the tars, which finds it
  (`operations.c:914`), loses its expired members while their rows stay. A later backup of
  the same contents refers to them. TLC finds `RowsBacked` violated with the events
  `move` and `move_busy`; this is why `SafeConfig` excludes moves during an operation.
* Ids given out again after the index was lost name archives of another history;
  `VerifyExplained` does not survive that, which is why its theorem assumes `KeepsIndex`.
* A vault gets a second archive for a path whose contents changed: the record is
  deleted, the archive is not (`op_sync_cloud.c:556`).
* `continue` in `do { } while (false)` does not try again (`op_sync_cloud.c:605`): both
  answers to "Try again?" give the file up, and `AfterFailure` has one outcome.
* The messages of the walk over readytoupload are dropped (`op_sync_cloud.c:275`), and "Sync
  complete." is printed with files that were neither uploaded nor mentioned. TLC finds
  `OmissionsShown` violated when a listing is given up.
* A directory that is listed again enters its files again (`op_sync_cloud.c:247`), and
  contents just recorded are stored a second time, although "it's up to the application to
  prevent having two archives with the same path" (`op_sync_cloud.c:32`). TLC finds
  `NoSecondArchive` violated when one listing fails.
* A file changed between its upload and the reading of its checksum and time is
  recorded with what it has afterwards (`op_sync_cloud.c:556`) and taken for uploaded
  from then on; the properties of `CloudSync` exempt exactly these records (`raced`).
* A restore compares audio files under the setting of today (`operations.c:1264`);
  files backed up under the other setting are reported though they are right.
* After `max_tries` the md5 of nothing is a hash like any other
  (`util_audio_tags.c:109`), and all audio files have the length 1 in the index, so
  two files for which ffmpeg gives it are taken for one. `ContentRow` of `Restore` has no rows with that hash.
* An entry whose type the file system does not report (`DT_UNKNOWN`) is neither listed
  nor mentioned by `os_recurse_impl_dir` (`util_files.c:606`); the models have file systems
  that report it.
* A directory inside readytoupload ends every sync: its size reaches the callback as
  `UINT64_MAX`, and the check for `INT_MAX` (`op_sync_cloud.c:240`) fails.

## 4. What is proved

All theorems hold for every value of the constants that satisfies the stated
assumptions; TLC checks the same formulas on the instances above.

| Theorem | Says | Premise |
|---|---|---|
| `TypeCorrect` | `TypeOK` of `BackupStore` | none |
| `CoreInductive` | `CoreInv` | none |
| `Inductive` | `IInv` | `SafeConfig` |
| `HoardInductive` | `HoardInv` | `KeepsAll` |
| `IndexBacked`, `LatestSafe`, `PastSafe` | `RowsBacked`, `LatestRestorable`, `PastRestorable` | `SafeConfig` or `KeepsAll` |
| `TarsKept` | `CommittedTarsKept` | none |
| `StoredOnce` | `DedupUnique` | none |
| `ChangesSeen`, `BackupComplete` | `NoMissedChange`, `SnapshotComplete` | none |
| `FailuresExplained` | `VerifyExplained` | `KeepsIndex` |
| `HashesMatch` | `ContentsMatchHash` | `Undisturbed`, and `KeepsIndex` or `KeepsAll` |
| `SnapshotsKept` | `KeepsSnapshots`: `BackupStore` implements `Snapshots` | `SafeConfig` |
| `RetentionTypes`, `NewestIsKept` | types; the newest backup loses nothing, wrapped settings included | none |
| `DroppedAreOld` | `DroppedIsOld` | none |
| `KeptWhenItFits` | `KeptAsLongAsSet` | `Fits` |
| `GroupTypes`, `SettingsKept`, `DirectoriesApart` | `GroupTypeOK`, `SettingsAsChosen`, `RootsApart` | none |
| `GroupsRetain` | `Groups` implements `Retention` | none |
| `RestoreTypes` | types of `Restore` | finitely many files |
| `RestoreSound` | `RestoredOrReported` | `OwnTargets` |
| `CountsAreTrue` | `CountsTrue` | `OwnTargets`, finitely many files |
| `NoContagion` | `ReportedForReason` | none |
| `ArManagerTypes`, `DeliveredWhole` | types; `WholeMembers` | none |
| `DeliveredListed`, `DeliveredBounds` | `NamesListed`, `ArchiveBounds` | none |
| `DeliveredSizes` | `VerifiedSizes` | no backup meets both "changed" and "retry" |
| `ArManagerImplementsPacking` | `PacksAsPromised`: `ArManager` implements `Packing` | the same, finitely many contents |
| `FoldEmpty`, `FoldAppend` | the laws of `FoldLeft` of the community modules | none |
| `CloudTypes` | types of `CloudSync` | none |
| `CloudInductive`, `CleanUploaded`, `CloudRowsTrue`, `CompleteIsComplete`, `UploadedOnce` | `IInv`, `CleanIsUploaded`, `RowsTrue`, `SyncComplete`, `NoRedundantUpload` | none |
| `OnlyTheWalkOmits` | `OmissionsShown` | no listing and no `stat` fails, and there is no link |
| `OnlyListingsRepeat` | `NoSecondArchive` | no listing fails |

The premises are configurations, each with a run or a note above that shows what happens
without it.

* `SafeConfig`: compaction is thorough, the main index is never replaced by a copy,
  archives are not moved during an operation (as in `store_compact`).
* `KeepsAll`: nobody compacts and copies of the index come out whole; the index may be
  lost and archives moved at any time (as in `store_recover`).
* `KeepsIndex`: the main index is never replaced by a copy; either compaction may run.
* `Undisturbed`: an open file cannot be written, as on Windows, or nobody does.
* `Fits`: the days of every setting offered, times 86400, are below 2^32.
* `OwnTargets`: different paths have different targets, as on Linux.

**BackupStore.** `LatestRestorable` is not inductive: a compaction that starts
with a wrong plan destroys it later, and so does an archive made under an id that is in use.
The argument has two layers.

`CoreInv` holds in every configuration. A committed backup leaves every
row of the files table with contents referenced by that very collection (`FilesLive` in
`CommittedRows`); this is a statement about one index, so it also holds for each copy, and an
index that was lost comes back with it. Ids are below what is given out next (`RowIds`). A
transaction adds to the rows and takes nothing away (`TxnKeeps`); what it adds is in the
archives of its own collection, bytes before rows (`TxnTars`), and rows that no later step
will visit are complete (`TxnFiles`). The cutoff of a compaction is older than the newest collection, so
what is to be deleted is never in use (`PlanExpired`). This alone gives
`CommittedTarsKept`: a backup only touches archives with an id newer than anything
committed.

On top of it come two reasons why bytes stay. With thorough compactions, `Stored`: every row has
its bytes (`RowsBacked`), rows go before their bytes (`PlanSafe`), and copies of the index
keep their rows in the main index until a cutoff passes them (`PastRows`); `AwayOnce` says
that what the user moved away is committed and exists once. `IInv` is `CoreInv`,
`AwayOnce` and `Stored`. Without compactions, `Hoarded`: the main index and every copy are
`Backed` by the archives, so it does not matter which of them becomes the main index;
`HoardInv` is `CoreInv` and `Hoarded`. The two do not combine: `recover_after_compact` is
the counterexample. The proof has a lemma for each phase of an operation and one step for
each action; the database operators are used through lemmas that say what they return and
leave alone.

**What the rows say.** Each of the properties of `BackupRecordProofs` has an invariant on
top of `CoreInv`. `DedupInv`: while a file is archived no row has its hash, since at most one
file is open (`OpenOnce`). `VerifyInv`: an archive of a finished backup has nothing but
what a recorded checksum is of, because no step adds to it (`TarsOnlyShrink`).
`MatchInv`: what is open is what was hashed, and every copy of the index that may be
taken has the hashes of what is archived (`CopiesMatch`).
`ChangeInv`: no recorded time is ahead of the
file system's (`NotAhead`), and a file with the recorded time shows what was hashed,
unless it was written twice at it (`Settled`); as time only goes forward, this is true of
older copies too (`CopiesTrue`). `SeenInv`: a row that no step of
the running backup will visit is that of the file as it is, which combines with `ChangeInv` to `SnapshotComplete`.

**Snapshots.** A collection maps to the bytes a restore finds for it (`Bytes`), through
its own copy of the index if it is not the newest. Under `IInv` all rows of a
snapshot are live, so its bytes are those of its table of files in the archives of
the newest index (`SnapshotsHeld`), and a row that survives a step keeps its bytes
(`BytesStay`). Then a commit is `Take`, deleting rows is `Expire`, and everything else,
rebuilding and moving archives included, a stutter. `CopyInv` says that the copy of the newest index
lists its files, which makes it the same snapshot when it becomes a past one.

**Groups.** `GInv` ties the rows that were written to the group in memory and to
`chosen`, for each number of rows still to be written.

**CloudSync.** `IInv` says that records are true in the main index and in the copy, that a modification
time names one version of a file, how far the marking of an upload has come
(`Marking`), what becomes of each file in a sync (`Progress`), that what waits is still
dirty unless it waits twice or has changed (`Pending`), and that only a listing that fails
makes a file wait twice and only it or a `stat` that fails leaves one out (`Listing`). A
kill between two steps then leaves records that are true.

**Restore.** `Base` has types and the fact that the current row is one of the
chosen collection; `Through` says that what is in the working directory under the current id is
the archive's, unless a call failed for this file. The check is then right for
what is there: `RestoredReady` for soundness, `SamePasses` for the converse, which
needs `SoundType` (no sound in a file of one byte, so that a recorded length of 1 tells the setting).

`Counted` adds what the counters count: the rows visited, and those done without a note.

**ArManager.** `IInv` follows the current content from xz to tar: what is packed whole in
staging stays so until it is delivered. `PackInv` follows the lists. While archives are
filled (`Filling`), the names and sizes kept in memory are of what was placed in the
current archive (`InOrder`), the tar holds those names, perhaps with the one being added
(`Listed`), its members have the measured sizes unless files change (`SameSize`) and are one
for each name unless tar is repeated (`OneEach`), and all other archives are `Closed`: verified,
listed and within their limits. At the end everything is closed (`Delivered`).
The lists are built by folds. `FoldLeft` is a recursive function over subsets of the
positions, so `FoldLaws` proves by induction over a set of numbers, with the
well-ordering of the natural numbers, what it is for no element and for one more; from these the sum
of sizes and the removal of repeated names follow by appending. For the refinement of
`Packing`, `finish` is the one step that delivers, and everything placed before it is
in a closed archive at the size that was reported.

**Only model-checked**: `OperationEnds` (liveness under fairness is out of the
prover's reach). Every other property of a run that passes is also a theorem. The
full forms of three of them are theorems too, under their premises (`OnlyTheWalkOmits`,
`OnlyListingsRepeat`, `KeptWhenItFits`).

## 5. What is not modelled

* Collisions of hashes and checksums, a system clock that is set back, and files put
  in place with an old modification time.
* Vendored code (SQLite, bstrlib, SpookyHash, fnmatch): used through what it promises.
  A commit is atomic and durable.
* Menus, wording, logs and their rotation, statistics; the menus' operations are actions.
* Permissions, owners and modification times of restored files.
* The wrappers `os_tryuntil_*` and `os_recurse` beyond the outcomes they give their
  callers: in `BackupStore` and in `CloudSync` a directory listed again, a listing given
  up, a file left out; a tar or a hash tried again.
* Iteration over rows of the files table that are rewritten meanwhile.
* The versions of tar, xz and ffmpeg, and the start of processes.
* Several groups: they share no state but the application directory.
* Recovery of the index together with `Groups`, where it reverts the settings.

## 6. Plan

The order was: the store with backup and compaction and its invariant first, because
losing data is the worst a backup program can do; then what `BackupStore` leaves open
(retention, archives), then the operations that read what it made (restore, cloud), the
settings, the abstract specification and the proofs of what rows say. What is left:

1. `Restore` composed with `BackupStore`: the index copies and archives it takes as
   input are any that fit, of which those a run of backups and compactions leaves are
   some. `KeepsSnapshots` is the statement they meet in.
2. `Groups` with recovery of the index, and several groups.
