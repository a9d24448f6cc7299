------------------------------- MODULE Restore -------------------------------
(***************************************************************************)
(* sv_restore (operations.c) with ar_manager_restore (util_archiver.c): a  *)
(* collection is chosen, its files are taken out of the archives one by    *)
(* one, put under the destination directory and compared with the index.   *)
(*                                                                         *)
(* Archives may be missing, may come and go while the restore runs, and    *)
(* may hold something else than the index says; tar and xz can fail and    *)
(* leave a part of their output.  What sv_restore reports in the end must  *)
(* be what is on the disk.                                                 *)
(***************************************************************************)
EXTENDS AudioHash, FiniteSets, Functions

CONSTANTS
    Path,       \* paths listed by the collections
    Target,     \* path |-> path below the destination directory
    Id,         \* contents ids
    Audio,      \* paths whose extension is one of an audio file
    Torn,       \* a part of a file, as a failed program leaves it
    Compressed, \* ids stored as .xz, the others as .file
    ArchiveOf,  \* id |-> the tar its row names
    Events,     \* what may go wrong, see Event
    LastCollection, \* id of the newest collection
    Indexes,    \* what the collections may list: path |-> id for each
    Scopes      \* sets of paths a pattern of the user may match

Event == {"fail",      \* tar or xz fails and may leave a part of its output
          "move",      \* the user moves archives while the restore runs
          "setting",   \* "Skip metadata changes" is enabled or disabled
          "no_ffmpeg", \* ffmpeg is not installed
          "kill"}

ASSUME TargetType == Path # {} /\ DOMAIN Target = Path /\ Audio \subseteq Path
ASSUME DataType == /\ Torn \notin Data
                   /\ Size \in [Data \cup {Torn} -> Nat]
\* There is no sound in a single byte.
ASSUME SoundType == /\ DOMAIN Sound \subseteq Data \cup {Torn}
                    /\ \A d \in DOMAIN Sound : Size[d] # AudioFilesizePlaceholder
ASSUME IdType == Compressed \subseteq Id /\ DOMAIN ArchiveOf = Id
ASSUME CollectionType == LastCollection \in Nat \ {0}
ASSUME EventType == Events \subseteq Event
ASSUME ScopeType == Scopes \subseteq SUBSET Path

Collection == 1..LastCollection
Partial(A, B) == UNION {[D -> B] : D \in SUBSET A}
ASSUME IndexType == Indexes \subseteq [Collection -> Partial(Path, Id)]

VARIABLES
    index,       \* collection |-> path |-> id, as in NNNNN_index.db
    contents,    \* id |-> hash and length
    members,     \* id |-> what its archive holds under its name
    present,     \* archives in readytoupload
    separate_metadata, \* the setting, as it is now
    audiotag_binary,   \* ffmpeg was found, or the restore goes on without it
    pc,
    wanted,      \* collectionidwanted
    scope,
    todo,        \* rows the iteration has yet to reach
    path,        \* the row it is at
    work,        \* working_dir_archived: <<id, extension>> |-> data
    dest,        \* files below the destination directory
    messages,    \* paths reported in the notes
    faulted,     \* history: paths at which an archive was missing or a call failed
    countfilesmatch, countfilescomplete

storeVars == <<index, contents, members>>
audioVars == <<separate_metadata, audiotag_binary>>
vars == <<index, contents, members, present, separate_metadata, audiotag_binary,
          pc, wanted, scope, todo, path, work, dest, messages, faulted,
          countfilesmatch, countfilescomplete>>

Kind == {"file", "xz"}
File == Data \cup {Torn}
EmptyFcn == [x \in {} |-> x]
Put(f, x, y) == [z \in DOMAIN f \cup {x} |-> IF z = x THEN y ELSE f[z]]
Without(f, S) == Restrict(f, DOMAIN f \ S)

files == index[wanted]
id == files[path]
Archive == {ArchiveOf[i] : i \in Id}
extension == IF id \in Compressed THEN "xz" ELSE "file"

\* The row a backup made of contents d, under the setting it had then.
ContentRow(d, separate) == [hash |-> hash_of_file(d, separate),
                            len |-> adjustfilesize_if_audio_file(d, separate)]

ContentRows == {ContentRow(d, separate) : d \in Data, separate \in BOOLEAN}

\* Contents d are what the row of contents i was made from, or sound the same.
Equals(d, i) == Describes(contents[i].hash, d)

TypeOK ==
    /\ index \in [Collection -> Partial(Path, Id)]
    /\ contents \in [Id -> ContentRows]
    /\ members \in Partial(Id, Data)
    /\ present \subseteq Archive
    /\ separate_metadata \in BOOLEAN /\ audiotag_binary \in BOOLEAN
    /\ pc \in {"menu", "options", "walk", "extract", "unxz", "move", "check", "end"}
    /\ wanted \in Collection /\ scope \subseteq Path
    /\ todo \subseteq Path /\ path \in Path
    /\ DOMAIN work \subseteq Id \X Kind /\ work \in [DOMAIN work -> File]
    /\ dest \in Partial({Target[p] : p \in Path}, File)
    /\ messages \subseteq Path /\ faulted \subseteq Path
    /\ countfilesmatch \in 0..Cardinality(Path)
    /\ countfilescomplete \in 0..countfilesmatch

\* A member may be missing, and an archive made on Linux from a file that
\* changed meanwhile, or one that was damaged, may hold other contents.
Init ==
    /\ index \in Indexes
    /\ contents \in [Id -> ContentRows]
    /\ \A k \in Collection : \A p \in DOMAIN index[k] \ Audio :
         \E d \in Data : contents[index[k][p]] = ContentRow(d, FALSE)
    /\ members \in Partial(Id, Data)
    /\ separate_metadata \in IF "setting" \in Events THEN BOOLEAN ELSE {FALSE}
    /\ audiotag_binary = TRUE
    /\ present \in SUBSET Archive
    /\ pc = "menu" /\ wanted = LastCollection
    /\ scope = {} /\ todo = {} /\ path = CHOOSE p \in Path : TRUE
    /\ work \in {EmptyFcn, [k \in Id \X Kind |-> Torn]}
    /\ dest = EmptyFcn /\ messages = {} /\ faulted = {}
    /\ countfilesmatch = 0 /\ countfilescomplete = 0

-----------------------------------------------------------------------------

optionVars == <<wanted, scope>>
countVars == <<messages, faulted, countfilesmatch, countfilescomplete>>

\* The user moves an archive away or back.
MoveArchive(a) ==
    /\ pc = "menu" \/ "move" \in Events
    /\ present' = IF a \in present THEN present \ {a} ELSE present \cup {a}
    /\ UNCHANGED <<storeVars, audioVars, pc, optionVars, todo, path, work, dest, countVars>>

\* sv_set_separate_metadata_enabled, between restores; what is in the archives was
\* backed up under the setting of its time.
app_edit_setting ==
    /\ "setting" \in Events
    /\ pc = "menu"
    /\ separate_metadata' = ~ separate_metadata
    /\ UNCHANGED <<storeVars, audiotag_binary, present, pc, optionVars, todo, path, work,
                   dest, countVars>>

\* "Should we continue without installing ffmpeg (... file content verification
\* will be skipped)?"
sv_restore_checkbinarypaths ==
    audiotag_binary' \in {TRUE} \cup
        {FALSE : e \in IF separate_metadata THEN {"no_ffmpeg"} \cap Events ELSE {}}

\* Restore the latest version, or choose one; the menu asks again until it is
\* given a collection whose copy of the index is there.
sv_choosecollection(k) ==
    /\ pc = "menu"
    /\ sv_restore_checkbinarypaths
    /\ wanted' = k
    /\ pc' = "options"
    /\ UNCHANGED <<storeVars, separate_metadata, present, scope, todo, path, work, dest,
                   countVars>>

\* A pattern, an empty directory; the working directories are emptied and the
\* iteration over the rows starts.
sv_restore(s) ==
    /\ pc = "options"
    /\ scope' = s
    /\ todo' = DOMAIN files
    /\ work' = EmptyFcn
    /\ pc' = "walk"
    /\ UNCHANGED <<storeVars, audioVars, present, wanted, path, dest, countVars>>

Cancel ==
    /\ pc = "options"
    /\ pc' = "end"
    /\ UNCHANGED <<storeVars, audioVars, present, optionVars, todo, path, work, dest, countVars>>

\* Fault: matching files are not counted.
sv_restore_cb_uncounted(p) ==
    /\ pc = "walk"
    /\ p \in todo
    /\ todo' = todo \ {p}
    /\ IF p \in scope
       THEN /\ pc' = "extract" /\ path' = p
            /\ countfilescomplete' = countfilescomplete + 1
       ELSE UNCHANGED <<pc, path, countfilescomplete>>
    /\ UNCHANGED <<storeVars, audioVars, present, optionVars, work, dest, messages, faulted,
                   countfilesmatch>>

\* The next row; it is counted as complete until it fails.
sv_restore_cb(p) ==
    /\ pc = "walk"
    /\ p \in todo
    /\ todo' = todo \ {p}
    /\ IF p \in scope
       THEN /\ pc' = "extract" /\ path' = p
            /\ countfilesmatch' = countfilesmatch + 1
            /\ countfilescomplete' = countfilescomplete + 1
       ELSE UNCHANGED <<pc, path, countfilesmatch, countfilescomplete>>
    /\ UNCHANGED <<storeVars, audioVars, present, optionVars, work, dest, messages, faulted>>

\* Fault: the notes are filled and the count is left.
Report_uncounted ==
    /\ pc' = "walk"
    /\ messages' = messages \cup {path}
    /\ UNCHANGED <<countfilesmatch, countfilescomplete>>

\* sv_restore_file returned an error.
Report ==
    /\ pc' = "walk"
    /\ messages' = messages \cup {path}
    /\ countfilescomplete' = countfilescomplete - 1
    /\ UNCHANGED countfilesmatch

Fault == faulted' = faulted \cup {path}

\* Fault: nothing is removed before an extraction.
Cleared_kept == work

\* What an earlier extraction of this id left is removed before tar is run.
Cleared == Without(work, {id} \X Kind)

\* A .file is taken as it is; otherwise there is a .xz to decompress.
Extract ==
    /\ pc = "extract"
    /\ ArchiveOf[id] \in present /\ id \in DOMAIN members
    /\ work' = Put(Cleared, <<id, extension>>, members[id])
    /\ pc' = IF <<id, "file">> \in DOMAIN work' THEN "move" ELSE "unxz"
    /\ UNCHANGED <<storeVars, audioVars, present, optionVars, todo, path, dest, countVars>>

\* No archive: nothing is touched.  No member, or a failure: tar may leave a
\* part of the member.
ExtractFails ==
    /\ pc = "extract"
    /\ \/ ArchiveOf[id] \notin present /\ UNCHANGED work
       \/ ArchiveOf[id] \in present /\ id \notin DOMAIN members /\ work' = Cleared
       \/ /\ ArchiveOf[id] \in present /\ "fail" \in Events
          /\ work' = Put(Cleared, <<id, extension>>, Torn)
    /\ Fault /\ Report
    /\ UNCHANGED <<storeVars, audioVars, present, optionVars, todo, path, dest>>

\* xz writes beside the .xz file.
Decompress ==
    /\ pc = "unxz"
    /\ work' = Put(work, <<id, "file">>, work[<<id, "xz">>])
    /\ pc' = "move"
    /\ UNCHANGED <<storeVars, audioVars, present, optionVars, todo, path, dest, countVars>>

\* It fails with a part of the output written; its exit code 1 is taken for
\* success.
DecompressFails ==
    /\ pc = "unxz"
    /\ "fail" \in Events
    /\ work' = Put(work, <<id, "file">>, Torn)
    /\ Fault
    /\ \/ Report
       \/ pc' = "move" /\ UNCHANGED <<messages, countfilesmatch, countfilescomplete>>
    /\ UNCHANGED <<storeVars, audioVars, present, optionVars, todo, path, dest>>

\* os_tryuntil_move, overwriting.
MoveToDest ==
    /\ pc = "move"
    /\ dest' = Put(dest, Target[path], work[<<id, "file">>])
    /\ work' = Without(work, {<<id, "file">>})
    /\ pc' = "check"
    /\ UNCHANGED <<storeVars, audioVars, present, optionVars, todo, path, countVars>>

MoveFails ==
    /\ pc = "move"
    /\ "fail" \in Events
    /\ Fault /\ Report
    /\ UNCHANGED <<storeVars, audioVars, present, optionVars, todo, path, work, dest>>

is_separate_audio == separate_metadata /\ path \in Audio

\* Fault: without ffmpeg no file is hashed.
Restored_unhashed ==
    LET d == dest[Target[path]]
    IN  /\ is_separate_audio \/ contents[id].len = Size[d]
        /\ ~ audiotag_binary \/ contents[id].hash = hash_of_file(d, is_separate_audio)

\* The length, unless tags may have changed it, and the hash, unless it takes a
\* program that is not there.
Restored ==
    LET d == dest[Target[path]]
    IN  /\ is_separate_audio \/ contents[id].len = Size[d]
        /\ \/ is_separate_audio /\ ~ audiotag_binary
           \/ contents[id].hash = hash_of_file(d, is_separate_audio)

\* A file that fails stays where it is.
CheckFile ==
    /\ pc = "check"
    /\ IF Restored
       THEN pc' = "walk" /\ UNCHANGED <<messages, countfilesmatch, countfilescomplete>>
       ELSE Report
    /\ UNCHANGED <<storeVars, audioVars, present, optionVars, todo, path, work, dest, faulted>>

\* The file cannot be opened for its hash, ffmpeg fails and all bytes are hashed
\* instead, or the permissions cannot be set.
CheckFails ==
    /\ pc = "check"
    /\ "fail" \in Events
    /\ Fault /\ Report
    /\ UNCHANGED <<storeVars, audioVars, present, optionVars, todo, path, work, dest>>

EndRestore ==
    /\ pc = "walk"
    /\ todo = {}
    /\ pc' = "end"
    /\ UNCHANGED <<storeVars, audioVars, present, optionVars, todo, path, work, dest, countVars>>

\* The next restore needs another, empty directory.
NextRestore ==
    /\ pc = "end" \/ "kill" \in Events
    /\ pc' = "menu"
    /\ dest' = EmptyFcn /\ messages' = {} /\ faulted' = {}
    /\ scope' = {} /\ todo' = {}
    /\ countfilesmatch' = 0 /\ countfilescomplete' = 0
    /\ UNCHANGED <<storeVars, audioVars, present, wanted, path, work>>

Next ==
    \/ \E a \in Archive : MoveArchive(a)
    \/ app_edit_setting
    \/ \E k \in Collection : sv_choosecollection(k)
    \/ \E s \in Scopes : sv_restore(s)
    \/ Cancel
    \/ \E p \in Path : sv_restore_cb(p)
    \/ Extract \/ ExtractFails \/ Decompress \/ DecompressFails
    \/ MoveToDest \/ MoveFails \/ CheckFile \/ CheckFails \/ EndRestore \/ NextRestore

Spec == Init /\ [][Next]_vars

-----------------------------------------------------------------------------

Ready(p) == /\ Target[p] \in DOMAIN dest
            /\ Equals(dest[Target[p]], index[wanted][p])

\* The user was told that these are not verified.
Unverified(p) == separate_metadata /\ p \in Audio /\ ~ audiotag_binary

\* Rows the iteration is through with.
Handled == ((DOMAIN files \cap scope) \ todo) \
               (IF pc \in {"extract", "unxz", "move", "check"} THEN {path} ELSE {})

\* Whatever fails: a file the restore is through with is under the destination
\* as the chosen collection has it (an audio file up to its tags), or the notes
\* name it.
RestoredOrReported ==
    pc # "menu" => \A p \in Handled : p \in messages \/ Ready(p) \/ Unverified(p)

\* "Restore complete for %lld/%lld files.": so many were asked for, and so many of
\* them are there, none of those the notes name counted.
CountsTrue ==
    pc = "end" /\ scope # {} =>
        /\ countfilesmatch = Cardinality(DOMAIN files \cap scope)
        /\ countfilescomplete =
             Cardinality({p \in Handled \ messages : Ready(p) \/ Unverified(p)})

\* What goes wrong with one file does not spoil another: a file is reported when
\* its archive was missing, a call failed for it, the archive holds other
\* contents, or they were hashed under another setting than the present one, and
\* never for what an earlier file has left behind.
ReportedForReason ==
    \A p \in messages \ faulted :
        LET i == index[wanted][p]
            asAudio == contents[i].len = AudioFilesizePlaceholder
        IN  ~ Equals(members[i], i) \/ asAudio # (separate_metadata /\ p \in Audio)
=============================================================================
