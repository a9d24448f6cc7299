------------------------------ MODULE CloudSync ------------------------------
(***************************************************************************)
(* Upload of the readytoupload directory to Amazon Glacier                 *)
(* (op_sync_cloud.c, the vault tables of dbaccess.c).                      *)
(*                                                                         *)
(* A vault does not know paths, so the program records each upload in the  *)
(* index and uploads what that record does not show to be there.  Upload,  *)
(* deleting the old record and inserting the new one are three steps with  *)
(* no common transaction: the upload can fail or succeed unnoticed, the    *)
(* process can be killed between any two of them, and the files and the    *)
(* index can be changed, moved or replaced by older copies meanwhile.      *)
(* The list of what to upload comes from a walk that starts again when a   *)
(* listing fails, and that may leave files out.                            *)
(***************************************************************************)
EXTENDS Naturals, FiniteSets, Functions

CONSTANTS
    File,         \* files of readytoupload
    Data,         \* contents; a CRC stands for the contents it is computed from
    Size,         \* length of each content
    Vault,        \* vaults by name
    max_tries,    \* how often the directory is listed at most
    Events,       \* what may go wrong around the program, see Event
    MaxEdits,     \* bound on the times files are written
    MaxUploads    \* bound on the archives in all vaults

Event ==
    {"fail",        \* an upload or describe-vault fails
     "lost_answer", \* an upload succeeds and is reported as failed
     "kill",        \* a check fails, or the process is killed
     "list_fails",  \* listing the directory fails before its end
     "no_stat",     \* stat of a file fails, or it is a symbolic link
     "old_index",   \* the index is lost and taken from a copy
     "edit_busy",   \* files are written or moved away while an upload runs
     "back_busy"}   \* files are moved back while an upload runs

ASSUME SizeType == Size \in [Data -> Nat]
ASSUME EventType == Events \subseteq Event
ASSUME BoundTypes == MaxEdits \in Nat /\ MaxUploads \in Nat
ASSUME TriesType == max_tries \in Nat \ {0}

VARIABLES
    ready,     \* readytoupload: file |-> [data, lmt]
    away,      \* files the user has moved elsewhere
    clock,     \* last modification time given out
    vaults,    \* TblKnownVaults
    rows,      \* TblKnownVaultArchives: <<vault, file>> |-> row
    copy,      \* the vault tables in the last NNNNN_index.db
    cloud,     \* archives in the vaults
    pc,
    vault,     \* the vault chosen in the menu
    attempt,   \* listings of the directory begun by this walk
    unseen,    \* files the current listing has yet to reach
    todo,      \* sizes_and_files: dirty files with the size seen by the walk, an
               \* entry for each listing that found it
    cur,       \* the file being uploaded and what is known of it
    again,     \* history: files this walk has entered in todo more than once
    unshown,   \* history: files this walk has left out, with a message in
               \* params.messages that nobody is shown
    changed,   \* history: files written or moved while this sync runs
    failed     \* history: files of this sync the user was told were not uploaded

fileVars == <<ready, away, clock>>
tableVars == <<vaults, rows>>
walkVars == <<attempt, unseen, again, unshown>>
syncVars == <<vault, walkVars, todo, cur, changed, failed>>
vars == <<ready, away, clock, vaults, rows, copy, cloud, pc, vault, attempt,
          unseen, again, unshown, todo, cur, changed, failed>>

EmptyFcn == [x \in {} |-> x]
Put(f, x, y) == [z \in DOMAIN f \cup {x} |-> IF z = x THEN y ELSE f[z]]
Drop(f, x) == Restrict(f, DOMAIN f \ {x})

\* History: a row is raced when its file changed between being uploaded and
\* being recorded.
Row == [id : Nat, size : Nat, crc : Data, lmt : Nat, raced : BOOLEAN]
Archive == [id : Nat, vault : Vault, file : File, data : Data]
Upload == [file : File \cup {"none"}, size : Nat, id : Nat,
           crc : Data \cup {"none"}, lmt : Nat, raced : BOOLEAN]

NoUpload == [file |-> "none", size |-> 0, id |-> 0, crc |-> "none", lmt |-> 0,
             raced |-> FALSE]

IsFiles(f) == /\ DOMAIN f \subseteq File
              /\ f \in [DOMAIN f -> [data : Data, lmt : Nat]]
IsTable(t) == /\ DOMAIN t \subseteq Vault \X File
              /\ t \in [DOMAIN t -> Row]

TypeOK ==
    /\ IsFiles(ready) /\ IsFiles(away)
    /\ clock \in Nat
    /\ vaults \subseteq Vault /\ IsTable(rows)
    /\ copy = [vaults |-> copy.vaults, rows |-> copy.rows]
    /\ copy.vaults \subseteq Vault /\ IsTable(copy.rows)
    /\ cloud \subseteq Archive /\ IsFiniteSet(cloud)
    /\ pc \in {"menu", "find", "upload", "awscli", "crc", "mark", "insert", "done"}
    /\ vault \in Vault \cup {"none"}
    /\ pc # "menu" => vault \in Vault
    /\ attempt \in 0..max_tries
    /\ unseen \subseteq File /\ again \subseteq File /\ unshown \subseteq File
    /\ todo \subseteq [file : File, size : Nat, attempt : Nat]
    /\ cur \in Upload
    /\ pc \in {"awscli", "crc", "mark", "insert"} => cur.file \in File
    /\ pc \in {"mark", "insert"} => cur.crc \in Data
    /\ changed \subseteq File /\ failed \subseteq File

Init ==
    /\ ready \in [File -> [data : Data, lmt : {0}]]
    /\ away = EmptyFcn /\ clock = 0
    /\ vaults = {} /\ rows = EmptyFcn
    /\ copy = [vaults |-> {}, rows |-> EmptyFcn]
    /\ cloud = {}
    /\ pc = "menu"
    /\ vault = "none" /\ todo = {} /\ cur = NoUpload
    /\ attempt = 0 /\ unseen = {} /\ again = {} /\ unshown = {}
    /\ changed = {} /\ failed = {}

-----------------------------------------------------------------------------
(* The user, and backups and compactions, which also write readytoupload:    *)
(* the menu runs one operation at a time.                                    *)

May(event) == pc = "menu" \/ event \in Events

\* History: the running sync may have missed the change, and the record of an
\* upload in progress may not match it.
Changed(f) ==
    /\ changed' = IF pc = "menu" THEN changed ELSE changed \cup {f}
    /\ cur' = [cur EXCEPT !.raced =
                  cur.raced \/ (pc \in {"crc", "mark", "insert"} /\ f = cur.file)]

WriteFile(f, d) ==
    /\ May("edit_busy")
    /\ clock < MaxEdits
    /\ clock' = clock + 1
    /\ ready' = Put(ready, f, [data |-> d, lmt |-> clock + 1])
    /\ Changed(f)
    /\ UNCHANGED <<away, tableVars, copy, cloud, pc, vault, walkVars, todo,
                   failed>>

EvictFile(f) ==
    /\ May("edit_busy")
    /\ f \in DOMAIN ready
    /\ away' = Put(away, f, ready[f])
    /\ ready' = Drop(ready, f)
    /\ Changed(f)
    /\ UNCHANGED <<clock, tableVars, copy, cloud, pc, vault, walkVars, todo,
                   failed>>

\* The file comes back with the modification time it had.
FetchFile(f) ==
    /\ May("back_busy")
    /\ f \in DOMAIN away
    /\ ready' = Put(ready, f, away[f])
    /\ away' = Drop(away, f)
    /\ Changed(f)
    /\ UNCHANGED <<clock, tableVars, copy, cloud, pc, vault, walkVars, todo,
                   failed>>

\* A backup ends with a copy of the index (sv_backup_makecopyofdb).
CopyIndex ==
    /\ "old_index" \in Events
    /\ pc = "menu"
    /\ copy' = [vaults |-> vaults, rows |-> rows]
    /\ UNCHANGED <<fileVars, tableVars, cloud, pc, syncVars>>

\* The main index is lost and replaced by that copy (sv_app_findgroupnames).
RecoverIndex ==
    /\ "old_index" \in Events
    /\ pc = "menu"
    /\ vaults' = copy.vaults
    /\ rows' = copy.rows
    /\ UNCHANGED <<fileVars, copy, cloud, pc, syncVars>>

-----------------------------------------------------------------------------
(* sv_sync_cloud. *)

\* The Name of a vault is UNIQUE.
svdb_knownvaults_insert(v) == v \notin vaults /\ vaults' = vaults \cup {v}

\* describe-vault succeeds and the vault is recorded.
sv_sync_newvault(v) ==
    /\ pc = "menu"
    /\ svdb_knownvaults_insert(v)
    /\ UNCHANGED <<fileVars, rows, copy, cloud, pc, syncVars>>

sv_sync_main(v) ==
    /\ pc = "menu"
    /\ v \in vaults
    /\ pc' = "find"
    /\ vault' = v
    /\ attempt' = 1
    /\ unseen' = File
    /\ UNCHANGED <<fileVars, tableVars, copy, cloud, again, unshown, todo, cur,
                   changed, failed>>

\* The record of a file in a vault, if there is one.
svdb_vaultarchives_bypath(f, v) == {rows[k] : k \in {<<v, f>>} \cap DOMAIN rows}

\* Fault: the checksum is not consulted.
isdirty_nocrc(f, v) ==
    \A r \in svdb_vaultarchives_bypath(f, v) :
        ready[f].lmt # r.lmt \/ Size[ready[f].data] # r.size

\* Fault: only a newer modification time counts.
isdirty_newer(f, v) ==
    <<v, f>> \in DOMAIN rows => ready[f].lmt > rows[<<v, f>>].lmt

\* Fault: the query leaves KnownVaultsId out.
isdirty_anyvault(f, v) ==
    \A w \in vaults : <<w, f>> \in DOMAIN rows =>
        ready[f].lmt # rows[<<w, f>>].lmt /\ ready[f].data # rows[<<w, f>>].crc

\* Not recorded; or neither time and length nor the checksum agree.
isdirty(f, v) ==
    \A r \in svdb_vaultarchives_bypath(f, v) :
        /\ ready[f].lmt # r.lmt \/ Size[ready[f].data] # r.size
        /\ ready[f].data # r.crc

Queued == {e.file : e \in todo}

\* The walk of readytoupload under one read transaction; entries are appended.
FindFile(f) ==
    /\ pc = "find"
    /\ f \in unseen
    /\ unseen' = unseen \ {f}
    /\ unshown' = unshown \ {f}
    /\ \/ /\ f \in DOMAIN ready
          /\ isdirty(f, vault)
          /\ todo' = todo \cup {[file |-> f, size |-> Size[ready[f].data],
                                 attempt |-> attempt]}
          /\ again' = again \cup ({f} \cap Queued)
       \/ /\ f \in DOMAIN ready => ~ isdirty(f, vault)
          /\ UNCHANGED <<todo, again>>
    /\ UNCHANGED <<fileVars, tableVars, copy, cloud, pc, vault, attempt, cur,
                   changed, failed>>

\* The file is left out with a message for a caller that does not read it.
SkipFile(f) ==
    /\ "no_stat" \in Events
    /\ pc = "find"
    /\ f \in unseen \cap DOMAIN ready
    /\ unseen' = unseen \ {f}
    /\ unshown' = unshown \cup ({f} \ Queued)
    /\ UNCHANGED <<fileVars, tableVars, copy, cloud, pc, vault, attempt, again, todo,
                   cur, changed, failed>>

\* opendir or readdir fails: the directory is listed from its start, and the
\* callback is called once more for what it was called for before.
ListAgain ==
    /\ "list_fails" \in Events
    /\ pc = "find"
    /\ attempt < max_tries
    /\ attempt' = attempt + 1
    /\ unseen' = File
    /\ UNCHANGED <<fileVars, tableVars, copy, cloud, pc, vault, again, unshown, todo,
                   cur, changed, failed>>

\* The last listing fails too: the rest is left out, with a message for nobody.
GiveUp ==
    /\ "list_fails" \in Events
    /\ pc = "find"
    /\ attempt = max_tries
    /\ unseen # {}
    /\ unseen' = {}
    /\ unshown' = unshown \cup ((unseen \cap DOMAIN ready) \ Queued)
    /\ UNCHANGED <<fileVars, tableVars, copy, cloud, pc, vault, attempt, again, todo,
                   cur, changed, failed>>

\* Fault: the entries of sizes_and_files are taken for paths.
EndFind_entries ==
    /\ pc = "find"
    /\ unseen = {}
    /\ attempt' = 0
    /\ \/ pc' = "upload" /\ UNCHANGED <<todo, failed>>
       \/ pc' = "done" /\ todo' = {} /\ failed' = todo
    /\ UNCHANGED <<fileVars, tableVars, copy, cloud, vault, unseen, again, unshown,
                   cur, changed>>

\* "Upload the files now?": when the answer is no, the sync is complete too.
EndFind ==
    /\ pc = "find"
    /\ unseen = {}
    /\ attempt' = 0
    /\ \/ pc' = "upload" /\ UNCHANGED <<todo, failed>>
       \/ pc' = "done" /\ todo' = {} /\ failed' = {e.file : e \in todo}
    /\ UNCHANGED <<fileVars, tableVars, copy, cloud, vault, unseen, again, unshown,
                   cur, changed>>

\* Small files go first.  The length recorded later is the one read here.
sv_sync_uploadone(e) ==
    /\ pc = "upload"
    /\ e \in todo
    /\ \A o \in todo : e.size <= o.size
    /\ todo' = todo \ {e}
    /\ \/ /\ e.file \in DOMAIN ready
          /\ pc' = "awscli"
          /\ cur' = [NoUpload EXCEPT !.file = e.file,
                                     !.size = Size[ready[e.file].data]]
          /\ failed' = failed
       \/ /\ e.file \notin DOMAIN ready
          /\ failed' = failed \cup {e.file}
          /\ UNCHANGED <<pc, cur>>
    /\ UNCHANGED <<fileVars, tableVars, copy, cloud, vault, walkVars, changed>>

\* awscli has stored what it read of the file under a new archive id.
Stored == [id |-> Cardinality(cloud) + 1, vault |-> vault, file |-> cur.file,
           data |-> ready[cur.file].data]

UploadOk ==
    /\ pc = "awscli"
    /\ cur.file \in DOMAIN ready
    /\ Cardinality(cloud) < MaxUploads
    /\ cloud' = cloud \cup {Stored}
    /\ cur' = [cur EXCEPT !.id = Stored.id]
    /\ pc' = "crc"
    /\ UNCHANGED <<fileVars, tableVars, copy, vault, walkVars, todo, changed,
                   failed>>

\* Fault: the exit code of awscli is not looked at.
AfterFailure_unchecked == pc' = "crc" /\ UNCHANGED <<cur, failed>>

\* "Try again? y/n": both answers give the file up, since continue in
\* do { } while (false) leaves the loop.
AfterFailure ==
    /\ failed' = failed \cup {cur.file}
    /\ cur' = NoUpload
    /\ pc' = "upload"

UploadFail ==
    /\ pc = "awscli"
    /\ \/ "fail" \in Events
       \/ cur.file \notin DOMAIN ready
       \/ Cardinality(cloud) = MaxUploads
    /\ AfterFailure
    /\ UNCHANGED <<fileVars, tableVars, copy, cloud, vault, walkVars, todo, changed>>

\* The archive is stored and awscli fails, or its answer has no archive id.
UploadLost ==
    /\ "lost_answer" \in Events
    /\ pc = "awscli"
    /\ cur.file \in DOMAIN ready
    /\ Cardinality(cloud) < MaxUploads
    /\ cloud' = cloud \cup {Stored}
    /\ AfterFailure
    /\ UNCHANGED <<fileVars, tableVars, copy, vault, walkVars, todo, changed>>

\* sv_sync_marksuccessupload reads the file again, after the upload.
MarkCrc ==
    /\ pc = "crc"
    /\ cur.file \in DOMAIN ready
    /\ cur' = [cur EXCEPT !.crc = ready[cur.file].data]
    /\ pc' = "mark"
    /\ UNCHANGED <<fileVars, tableVars, copy, cloud, vault, walkVars, todo,
                   changed, failed>>

\* os_getmodifiedtime is 0 for a missing file.
MarkDelete ==
    /\ pc = "mark"
    /\ cur' = [cur EXCEPT !.lmt = IF cur.file \in DOMAIN ready
                                  THEN ready[cur.file].lmt ELSE 0]
    /\ rows' = Drop(rows, <<vault, cur.file>>)
    /\ pc' = "insert"
    /\ UNCHANGED <<fileVars, vaults, copy, cloud, vault, walkVars, todo, changed,
                   failed>>

MarkInsert ==
    /\ pc = "insert"
    /\ rows' = Put(rows, <<vault, cur.file>>,
                   [id |-> cur.id, size |-> cur.size, crc |-> cur.crc, lmt |-> cur.lmt,
                    raced |-> cur.raced])
    /\ cur' = NoUpload
    /\ pc' = "upload"
    /\ UNCHANGED <<fileVars, vaults, copy, cloud, vault, walkVars, todo, changed,
                   failed>>

\* "Sync complete."
EndUpload ==
    /\ pc = "upload"
    /\ todo = {}
    /\ pc' = "done"
    /\ UNCHANGED <<fileVars, tableVars, copy, cloud, syncVars>>

BackToMenu ==
    /\ pc' = "menu"
    /\ vault' = "none" /\ todo' = {} /\ cur' = NoUpload
    /\ attempt' = 0 /\ unseen' = {} /\ again' = {} /\ unshown' = {}
    /\ changed' = {} /\ failed' = {}
    /\ UNCHANGED <<fileVars, tableVars, copy, cloud>>

EndSync == pc = "done" /\ BackToMenu

\* Killed, or a check fails: rows are written without a transaction, so what
\* was done stays done.
Abort ==
    /\ pc # "menu"
    /\ \/ "kill" \in Events
       \/ pc = "crc" /\ cur.file \notin DOMAIN ready
    /\ BackToMenu

UserStep == \/ \E f \in File, d \in Data : WriteFile(f, d)
            \/ \E f \in File : EvictFile(f) \/ FetchFile(f)
            \/ CopyIndex \/ RecoverIndex

SyncStep == \/ \E v \in Vault : sv_sync_newvault(v) \/ sv_sync_main(v)
            \/ \E f \in File : FindFile(f) \/ SkipFile(f)
            \/ ListAgain \/ GiveUp \/ EndFind
            \/ \E e \in todo : sv_sync_uploadone(e)
            \/ UploadOk \/ UploadFail \/ UploadLost
            \/ MarkCrc \/ MarkDelete \/ MarkInsert
            \/ EndUpload \/ EndSync

Next == UserStep \/ SyncStep \/ Abort

Spec == Init /\ [][Next]_vars

-----------------------------------------------------------------------------
(* What the upload promises. *)

InCloud(f, v) == \E a \in cloud : a.vault = v /\ a.file = f /\ a.data = ready[f].data

\* The file changed after awscli had read it and before its checksum and time
\* were: what is then recorded may describe contents that no archive has.
Raced(f, v) == \E r \in svdb_vaultarchives_bypath(f, v) : r.raced

\* A file that the next sync will take for uploaded (cases 2 and 3 of
\* sv_sync_finddirtyfiles_isdirty) is in the vault with the contents it has
\* now.  Changes at any other moment of a sync than between the upload of the
\* same file and the reading of its checksum and time do no harm.
CleanIsUploaded ==
    \A v \in vaults, f \in DOMAIN ready :
        isdirty(f, v) \/ InCloud(f, v) \/ Raced(f, v)

\* A record names an archive that exists, of that vault and path, and, unless
\* the file changed in between, the contents of that archive.
TrueTable(t) ==
    \A k \in DOMAIN t :
        \E a \in cloud : /\ a.id = t[k].id
                         /\ <<a.vault, a.file>> = k
                         /\ t[k].raced \/ a.data = t[k].crc
RowsTrue == TrueTable(rows)

Unuploaded == {f \in DOMAIN ready : ~ InCloud(f, vault) /\ ~ Raced(f, vault)}

\* When sv_sync_main says "Sync complete.", every file in readytoupload that
\* nobody touched meanwhile is in the vault, except those whose upload failed or
\* was declined before the user, and those the walk left out with a message.
SyncComplete == pc = "done" => Unuploaded \subseteq failed \cup changed \cup unshown

\* The user is told of every file that "Sync complete." is not true of: the
\* messages of the walk count for nothing, since nobody reads them.
OmissionsShown == pc = "done" => Unuploaded \subseteq failed \cup changed

Recorded(a) == \E r \in svdb_vaultarchives_bypath(a.file, a.vault) : r.crc = a.data

\* Contents that are recorded for the path and vault are not uploaded again,
\* whatever happened to the file, its time or the index since they were, unless
\* the file has changed since the sync began or its directory was listed again.
NoRedundantUpload ==
    [][\A a \in cloud' \ cloud :
          a.file \in changed \cup again \/ ~ Recorded(a)]_vars

\* "It's up to the application to prevent having two archives with the same
\* path": what is recorded is not stored again, listed once or twice.
NoSecondArchive ==
    [][\A a \in cloud' \ cloud : a.file \in changed \/ ~ Recorded(a)]_vars

-----------------------------------------------------------------------------
(* The inductive invariant behind CleanIsUploaded, RowsTrue, SyncComplete and *)
(* NoRedundantUpload.                                                        *)

\* A modification time names one version of a file, wherever it is kept.
Stamped(fs) == \A f \in DOMAIN fs : fs[f].lmt <= clock
SameVersion(fs, t) ==
    \A k \in DOMAIN t :
        /\ t[k].lmt <= clock
        /\ k[2] \in DOMAIN fs /\ fs[k[2]].lmt = t[k].lmt =>
              t[k].raced \/ fs[k[2]].data = t[k].crc
Versions ==
    /\ Stamped(ready) /\ Stamped(away)
    /\ \A f \in DOMAIN ready \cap DOMAIN away :
          ready[f].lmt = away[f].lmt => ready[f].data = away[f].data
    /\ \A fs \in {ready, away}, t \in {rows, copy.rows} : SameVersion(fs, t)

\* Unless the file has changed since, what sv_sync_marksuccessupload has read is
\* what was uploaded.
Marking ==
    pc \in {"crc", "mark", "insert"} =>
        \E a \in cloud :
            /\ a.id = cur.id /\ a.vault = vault /\ a.file = cur.file
            /\ cur.lmt <= clock
            /\ ~ cur.raced =>
                /\ cur.file \in DOMAIN ready /\ a.data = ready[cur.file].data
                /\ pc # "crc" => cur.crc = ready[cur.file].data
                /\ pc = "insert" => cur.lmt = ready[cur.file].lmt

\* A file the running sync is done with is in the vault, or was given up, or left
\* out, or has changed.
Progress ==
    /\ pc \in {"menu", "find"} => failed = {}
    /\ pc = "awscli" => ~ cur.raced /\ cur.lmt = 0
    /\ pc \in {"crc", "mark", "insert"} /\ cur.raced => cur.file \in changed
    /\ pc # "menu" =>
        \A f \in DOMAIN ready :
            \/ InCloud(f, vault) \/ Raced(f, vault)
            \/ f \in failed \cup changed \cup unshown
            \/ pc = "find" /\ f \in unseen
            \/ pc # "done" /\ \E e \in todo : e.file = f
            \/ pc = "awscli" /\ f = cur.file

\* A file that waits to be uploaded waits once, unless listings that found it
\* failed, and is still dirty unless it was uploaded before its turn or has
\* changed.
Pending ==
    /\ pc \in {"menu", "done"} => todo = {}
    /\ \A e \in todo :
        /\ pc \in {"awscli", "crc", "mark", "insert"} /\ e.file = cur.file =>
              e.file \in again
        /\ \A o \in todo : o.file = e.file => o = e \/ e.file \in again
        /\ e.file \in DOMAIN ready \ (changed \cup again) => isdirty(e.file, vault)
    /\ pc = "awscli" /\ cur.file \in DOMAIN ready \ (changed \cup again) =>
          isdirty(cur.file, vault)

\* What a listing that fails and a stat that fails leave behind, and nothing else
\* does.
Listing ==
    /\ pc = "menu" => again = {}
    /\ pc = "find" => attempt >= 1
    /\ pc = "find" /\ attempt = 1 => again = {} /\ Queued \cap unseen = {}
    /\ "list_fails" \notin Events => again = {} /\ (pc = "find" => attempt = 1)
    /\ Events \cap {"list_fails", "no_stat"} = {} => unshown = {}

IInv == /\ TrueTable(rows) /\ TrueTable(copy.rows)
        /\ Versions /\ Marking /\ Progress /\ Pending /\ Listing
=============================================================================
