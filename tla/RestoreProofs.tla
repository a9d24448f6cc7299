---------------------------- MODULE RestoreProofs ----------------------------
(***************************************************************************)
(* Proofs about Restore, for any number of files, collections, archives    *)
(* and failures: every file a restore is through with is right or          *)
(* reported, provided that different paths have different targets, and a   *)
(* file is reported only for its own reason.                               *)
(***************************************************************************)
EXTENDS Restore, FiniteSetTheorems, TLAPS

\* On Linux a target is the path without its leading slash.
OwnTargets == \A p, q \in Path : Target[p] = Target[q] => p = q

Busy == {"extract", "unxz", "move", "check"}

Base == /\ index \in [Collection -> Partial(Path, Id)]
        /\ wanted \in Collection
        /\ contents \in [Id -> ContentRows]
        /\ separate_metadata \in BOOLEAN
        /\ path \in Path
        /\ pc \in {"menu", "options", "walk", "end"} \cup Busy
        /\ pc \in {"menu", "options"} => scope = {} /\ messages = {}
        /\ pc \in Busy => path \in DOMAIN files
        /\ pc = "walk" => todo \subseteq DOMAIN files
        /\ pc \in Busy => todo \subseteq DOMAIN files
        /\ pc = "check" => Target[path] \in DOMAIN dest

\* The part of the work on the current file that is through is the archive's,
\* unless something failed for this file.
Through == /\ pc = "unxz" => work[<<id, "xz">>] = members[id]
           /\ pc = "move" /\ path \notin faulted => work[<<id, "file">>] = members[id]
           /\ pc = "check" /\ path \notin faulted => dest[Target[path]] = members[id]

LEMMA PutValue == ASSUME NEW f, NEW x, NEW y
                  PROVE  Put(f, x, y)[x] = y /\ x \in DOMAIN Put(f, x, y)
BY DEF Put

LEMMA PutOther == ASSUME NEW f, NEW x, NEW y, NEW z, z # x, z \in DOMAIN f
                  PROVE  Put(f, x, y)[z] = f[z] /\ z \in DOMAIN Put(f, x, y)
BY DEF Put

LEMMA InitBase == Init => Base /\ Through
<1> SUFFICES ASSUME Init PROVE Base /\ Through
  OBVIOUS
<1>1. LastCollection \in Collection
  BY CollectionType DEF Collection
<1>2. path \in Path /\ pc = "menu" /\ scope = {} /\ messages = {}
  BY TargetType DEF Init
<1>3. /\ wanted \in Collection /\ index \in [Collection -> Partial(Path, Id)]
      /\ contents \in [Id -> ContentRows] /\ separate_metadata \in BOOLEAN
  BY <1>1, IndexType DEF Init
<1> QED BY <1>2, <1>3 DEF Base, Through, Busy

\* The types and the part of the work on the current file, one action at a time.
LEMMA StepBase == Base /\ Through /\ [Next]_vars => Base' /\ Through'
<1> SUFFICES ASSUME Base, Through, [Next]_vars PROVE Base' /\ Through'
  OBVIOUS
<1> USE DEF Base, Through, Busy, files, id, storeVars, audioVars, optionVars, countVars
<1>1. ASSUME NEW a \in Archive, MoveArchive(a) PROVE Base' /\ Through'
  BY <1>1 DEF MoveArchive, id, files
<1>2. ASSUME NEW k \in Collection, sv_choosecollection(k) PROVE Base' /\ Through'
  BY <1>2 DEF sv_choosecollection
<1>3. ASSUME NEW s \in Scopes, sv_restore(s) PROVE Base' /\ Through'
  BY <1>3 DEF sv_restore
<1>4. CASE Cancel
  BY <1>4 DEF Cancel
<1>5. ASSUME NEW p \in Path, sv_restore_cb(p) PROVE Base' /\ Through'
  BY <1>5 DEF sv_restore_cb
<1>6. CASE Extract
  <2>1. id' = id /\ members' = members /\ path' = path /\ faulted' = faulted
    BY <1>6 DEF Extract, id, files
  <2>2. /\ work'[<<id, extension>>] = members[id]
        /\ <<id, extension>> \in DOMAIN work'
    BY <1>6, PutValue DEF Extract
  <2>3. pc' = "unxz" => work'[<<id, "xz">>] = members[id]
    BY <1>6, <2>2 DEF Extract, extension
  <2>4. pc' = "move" => work'[<<id, "file">>] = members[id]
    <3> SUFFICES ASSUME extension = "xz" PROVE <<id, "file">> \notin DOMAIN work'
      BY <1>6, <2>2 DEF Extract, extension
    <3>1. <<id, "file">> \notin DOMAIN Cleared
      BY DEF Cleared, Without, Restrict, Kind
    <3> QED BY <1>6, <3>1 DEF Extract, Put
  <2> QED BY <1>6, <2>1, <2>3, <2>4 DEF Extract
<1>7. CASE ExtractFails
  BY <1>7 DEF ExtractFails, Report, Fault
<1>8. CASE Decompress
  <2>1. id' = id /\ members' = members /\ path' = path /\ faulted' = faulted
    BY <1>8 DEF Decompress, id, files
  <2>2. work'[<<id, "file">>] = members[id]
    BY <1>8, PutValue DEF Decompress
  <2> QED BY <1>8, <2>1, <2>2 DEF Decompress
<1>9. CASE DecompressFails
  BY <1>9 DEF DecompressFails, Report, Fault
<1>10. CASE MoveToDest
  <2>1. id' = id /\ members' = members /\ path' = path /\ faulted' = faulted
    BY <1>10 DEF MoveToDest, id, files
  <2>2. /\ dest'[Target[path]] = work[<<id, "file">>]
        /\ Target[path] \in DOMAIN dest'
    BY <1>10, PutValue DEF MoveToDest
  <2> QED BY <1>10, <2>1, <2>2 DEF MoveToDest
<1>11. CASE MoveFails
  BY <1>11 DEF MoveFails, Report, Fault
<1>12. CASE CheckFile
  BY <1>12 DEF CheckFile, Report
<1>13. CASE CheckFails
  BY <1>13 DEF CheckFails, Report, Fault
<1>14. CASE EndRestore
  BY <1>14 DEF EndRestore
<1>15. CASE NextRestore
  BY <1>15 DEF NextRestore
<1>16. CASE UNCHANGED vars
  BY <1>16 DEF vars, id, files
<1>17. CASE app_edit_setting
  BY <1>17 DEF app_edit_setting
<1> QED BY <1>1, <1>2, <1>3, <1>4, <1>5, <1>6, <1>7, <1>8, <1>9, <1>10, <1>11,
           <1>12, <1>13, <1>14, <1>15, <1>16, <1>17 DEF Next

THEOREM BaseInv == Spec => [](Base /\ Through)
<1>1. Init => Base /\ Through
  BY InitBase
<1>2. Base /\ Through /\ [Next]_vars => (Base /\ Through)'
  BY StepBase
<1> QED BY <1>1, <1>2, PTL DEF Spec

-----------------------------------------------------------------------------

\* Both hashes of a file are the same only for files that are equal, or sound so.
LEMMA HashChoice ==
    ASSUME NEW d, NEW separate \in BOOLEAN
    PROVE  /\ hash_of_file(d, separate) \in
                 {sv_hasher_wholefile(d)} \cup get_audio_hash_without_tags(d)
           /\ ~ separate => hash_of_file(d, separate) = sv_hasher_wholefile(d)
BY DEF hash_of_file

\* The check of a file that is verified at all accepts only what it should.
LEMMA RestoredReady ==
    ASSUME Base, pc = "check", Restored
    PROVE  Ready(path) \/ Unverified(path)
<1>1. CASE is_separate_audio /\ ~ audiotag_binary
  BY <1>1 DEF is_separate_audio, Unverified
<1>2. CASE ~ (is_separate_audio /\ ~ audiotag_binary)
  <2>1. contents[id].hash = hash_of_file(dest[Target[path]], is_separate_audio)
    BY <1>2 DEF Restored
  <2>2. is_separate_audio \in BOOLEAN
    BY DEF is_separate_audio
  <2>3. Equals(dest[Target[path]], id)
    BY <2>1, <2>2, HashChoice DEF Equals, Describes
  <2> QED BY <2>3 DEF Ready, Base, id, files
<1> QED BY <1>1, <1>2

\* No step but the one that moves the file, a choice of another collection or the
\* next restore disturbs a file that is ready.
LEMMA ReadyKept ==
    ASSUME Base, [Next]_vars, OwnTargets, pc' # "menu", pc \notin {"menu", "options"},
           NEW p \in Path, p # path \/ pc # "move", Ready(p)
    PROVE  Ready(p)'
<1> USE DEF Ready, Equals, storeVars, audioVars, optionVars, countVars
<1>1. CASE MoveToDest
  <2>1. Target[p] # Target[path]
    BY <1>1 DEF MoveToDest, OwnTargets, Base
  <2> QED BY <1>1, <2>1, PutOther DEF MoveToDest
<1>2. CASE ~ MoveToDest
  <2>1. UNCHANGED <<dest, contents, index, wanted>>
    BY <1>2 DEF Next, vars, MoveArchive, app_edit_setting, sv_choosecollection, sv_restore, Cancel,
         sv_restore_cb, Extract, ExtractFails, Decompress, DecompressFails,
         MoveFails, CheckFile, CheckFails, EndRestore, NextRestore
  <2> QED BY <2>1
<1> QED BY <1>1, <1>2

\* A file the restore becomes through with in a step is the current one, and it
\* is ready or reported.
LEMMA NewlyHandled ==
    ASSUME Base, [Next]_vars, pc' # "menu", pc \notin {"menu", "options"},
           NEW p \in Handled'
    PROVE  \/ p \in Handled /\ ~ (p = path /\ pc = "move")
           \/ p \in messages'
           \/ Ready(p)' \/ Unverified(p)'
<1> USE DEF Handled, files, storeVars, audioVars, optionVars, countVars, Base, Busy
<1>1. ASSUME NEW a \in Archive, MoveArchive(a) PROVE Handled' = Handled /\ pc' = pc
  BY <1>1 DEF MoveArchive
<1>2. ASSUME NEW q \in Path, sv_restore_cb(q) PROVE Handled' = Handled
  BY <1>2 DEF sv_restore_cb
<1>3. CASE Extract \/ Decompress \/ MoveToDest
  BY <1>3 DEF Extract, Decompress, MoveToDest
<1>4. CASE ExtractFails \/ MoveFails \/ CheckFails
  BY <1>4 DEF ExtractFails, MoveFails, CheckFails, Report, Fault
<1>5. CASE DecompressFails
  BY <1>5 DEF DecompressFails, Report, Fault
<1>6. CASE CheckFile
  <2>1. CASE Restored
    <3>1. Ready(path)' \/ Unverified(path)'
      BY <1>6, <2>1, RestoredReady DEF CheckFile, Ready, Unverified, Equals
    <3> QED BY <1>6, <2>1, <3>1 DEF CheckFile
  <2>2. CASE ~ Restored
    BY <1>6, <2>2 DEF CheckFile, Report
  <2> QED BY <2>1, <2>2
<1>7. CASE EndRestore
  BY <1>7 DEF EndRestore
<1>8. CASE UNCHANGED vars
  BY <1>8 DEF vars
<1>9. ~ (\E k \in Collection : sv_choosecollection(k))
  BY DEF sv_choosecollection
<1>10. ~ (\E s \in Scopes : sv_restore(s)) /\ ~ Cancel
  BY DEF sv_restore, Cancel
<1>11. ~ NextRestore /\ ~ app_edit_setting
  BY DEF NextRestore, app_edit_setting
<1> QED BY <1>1, <1>2, <1>3, <1>4, <1>5, <1>6, <1>7, <1>8, <1>9, <1>10, <1>11 DEF Next

LEMMA MessagesGrow ==
    ASSUME Base, [Next]_vars, pc' # "menu"
    PROVE  messages \subseteq messages'
BY DEF Next, vars, MoveArchive, app_edit_setting, sv_choosecollection, sv_restore, Cancel,
       sv_restore_cb, Extract, ExtractFails, Decompress, DecompressFails, MoveToDest,
       MoveFails, CheckFile, CheckFails, EndRestore, NextRestore, Report, Fault, countVars

\* Neither the setting nor the programs found change while a restore runs.
LEMMA AudioKept ==
    ASSUME [Next]_vars, pc \notin {"menu", "options"}
    PROVE  UNCHANGED audioVars
BY DEF Next, vars, audioVars, MoveArchive, app_edit_setting, sv_choosecollection,
       sv_restore, Cancel, sv_restore_cb, Extract, ExtractFails, Decompress,
       DecompressFails, MoveToDest, MoveFails, CheckFile, CheckFails, EndRestore,
       NextRestore

LEMMA StepRestored ==
    ASSUME OwnTargets, Base, RestoredOrReported, [Next]_vars
    PROVE  RestoredOrReported'
<1> SUFFICES ASSUME pc' # "menu", NEW p \in Handled'
             PROVE  p \in messages' \/ Ready(p)' \/ Unverified(p)'
  BY DEF RestoredOrReported
<1>1. CASE pc \in {"menu", "options"}
  <2>1. scope = {}
    BY <1>1 DEF Base
  <2>2. pc' \in {"options", "walk", "end"}
    BY <1>1 DEF Next, vars, MoveArchive, app_edit_setting, sv_choosecollection, sv_restore, Cancel, sv_restore_cb,
       Extract, ExtractFails, Decompress, DecompressFails, MoveToDest, MoveFails,
       CheckFile, CheckFails, EndRestore, NextRestore
  <2>3. CASE \E s \in Scopes : sv_restore(s)
    BY <2>3 DEF sv_restore, Handled, files, storeVars
  <2>4. CASE ~ \E s \in Scopes : sv_restore(s)
    <3>1. scope' = scope
      BY <1>1, <2>4 DEF Next, vars, MoveArchive, app_edit_setting, sv_choosecollection, Cancel, sv_restore_cb,
       Extract, ExtractFails, Decompress, DecompressFails, MoveToDest, MoveFails,
       CheckFile, CheckFails, EndRestore, NextRestore, optionVars
    <3> QED BY <2>1, <3>1 DEF Handled
  <2> QED BY <2>3, <2>4
<1>2. CASE pc \notin {"menu", "options"}
  <2>1. CASE p \in Handled /\ ~ (p = path /\ pc = "move")
    <3>1. p \in Path
      BY <2>1 DEF Handled, files, Base, Partial
    <3>2. p \in messages \/ Ready(p) \/ Unverified(p)
      BY <1>2, <2>1 DEF RestoredOrReported
    <3>3. Unverified(p) => Unverified(p)'
      BY <1>2, AudioKept DEF audioVars, Unverified
    <3> QED BY <1>2, <2>1, <3>1, <3>2, <3>3, ReadyKept, MessagesGrow
  <2> QED BY <1>2, <2>1, NewlyHandled
<1> QED BY <1>1, <1>2

\* When different paths have different targets, a file the restore is through
\* with is there as the chosen collection lists it, or it is reported.
THEOREM RestoreSound == OwnTargets => (Spec => []RestoredOrReported)
<1> SUFFICES ASSUME OwnTargets PROVE Spec => []RestoredOrReported
  OBVIOUS
<1>1. Init => RestoredOrReported
  BY DEF Init, RestoredOrReported
<1>2. Base /\ RestoredOrReported /\ [Next]_vars => RestoredOrReported'
  BY StepRestored
<1> QED BY <1>1, <1>2, BaseInv, PTL DEF Spec

-----------------------------------------------------------------------------

\* What p is reported for, without a fault of its own.
Reason(p) == LET i == index[wanted][p]
                 asAudio == contents[i].len = AudioFilesizePlaceholder
             IN  ~ Equals(members[i], i) \/ asAudio # (separate_metadata /\ p \in Audio)

\* Contents that are what was backed up, and are hashed as they were then, pass.
LEMMA SamePasses ==
    ASSUME Base, NEW i \in Id, NEW d, NEW separate \in BOOLEAN, Equals(d, i),
           (contents[i].len = AudioFilesizePlaceholder) = separate
    PROVE  /\ ~ separate => contents[i].len = Size[d]
           /\ contents[i].hash = hash_of_file(d, separate)
<1>1. PICK e \in Data, then \in BOOLEAN : contents[i] = ContentRow(e, then)
  BY DEF Base, ContentRows
<1>2. /\ contents[i].hash = hash_of_file(e, then)
      /\ contents[i].len = adjustfilesize_if_audio_file(e, then)
  BY <1>1 DEF ContentRow
<1> DEFINE Sounds(x) == get_audio_hash_without_tags(x)
<1>3. \A x : Sounds(x) # {} => Sounds(x) = {<<"sound", Sound[x]>>} /\ x \in DOMAIN Sound
  BY DEF get_audio_hash_without_tags
<1>4. ASSUME NEW x, NEW y, sv_hasher_wholefile(x) = sv_hasher_wholefile(y) PROVE x = y
  BY <1>4 DEF sv_hasher_wholefile
<1>5. ASSUME NEW x, NEW y PROVE sv_hasher_wholefile(x) \notin Sounds(y)
  BY DEF sv_hasher_wholefile, get_audio_hash_without_tags
<1>6. contents[i].hash \in {sv_hasher_wholefile(d)} \cup Sounds(d)
  BY DEF Equals, Describes
<1> HIDE DEF Sounds
<1>7. CASE then /\ Sounds(e) # {}
  <2>1. contents[i].hash \in Sounds(e)
    BY <1>2, <1>7 DEF hash_of_file, Sounds
  <2>2. contents[i].hash \in Sounds(d)
    BY <1>5, <1>6, <2>1
  <2>3. separate
    BY <1>2, <1>7 DEF adjustfilesize_if_audio_file
  <2>4. hash_of_file(d, separate) \in Sounds(d)
    BY <2>2, <2>3 DEF hash_of_file, Sounds
  <2>5. Sounds(d) = {<<"sound", Sound[d]>>}
    BY <1>3, <2>2
  <2>6. contents[i].hash = hash_of_file(d, separate)
    BY <2>2, <2>4, <2>5
  <2> QED BY <2>3, <2>6
<1>8. CASE ~ (then /\ Sounds(e) # {})
  <2>1. contents[i].hash = sv_hasher_wholefile(e)
    BY <1>2, <1>8 DEF hash_of_file, Sounds
  <2>2. d = e
    BY <1>4, <1>5, <1>6, <2>1
  <2>3. ~ separate => contents[i].len = Size[d]
    BY <1>2, <2>2 DEF adjustfilesize_if_audio_file
  <2>4. separate => Sounds(e) = {}
    BY <1>2, <1>3, <1>8, SoundType DEF adjustfilesize_if_audio_file
  <2>5. contents[i].hash = hash_of_file(d, separate)
    BY <2>1, <2>2, <2>4 DEF hash_of_file, Sounds
  <2> QED BY <2>3, <2>5
<1> QED BY <1>7, <1>8

LEMMA CheckReason ==
    ASSUME Base, Through, pc = "check", ~ Restored, path \notin faulted,
           path \in DOMAIN files
    PROVE  Reason(path)
<1> SUFFICES ASSUME ~ Reason(path) PROVE FALSE
  OBVIOUS
<1>1. id = index[wanted][path] /\ id \in Id
  BY DEF id, files, Base, Partial
<1>2. dest[Target[path]] = members[id]
  BY DEF Through
<1>3. /\ Equals(members[id], id)
      /\ (contents[id].len = AudioFilesizePlaceholder) = is_separate_audio
      /\ is_separate_audio \in BOOLEAN
  BY <1>1 DEF Reason, is_separate_audio, Base
<1>4. Restored
  BY <1>1, <1>2, <1>3, SamePasses DEF Restored
<1> QED BY <1>4

LEMMA StepReason ==
    ASSUME Base, Through, ReportedForReason, [Next]_vars
    PROVE  ReportedForReason'
<1> SUFFICES ASSUME NEW p \in (messages \ faulted)'
             PROVE  Reason(p)'
  BY DEF ReportedForReason, Reason
<1> USE DEF storeVars, audioVars, optionVars, countVars
<1>1. CASE app_edit_setting \/ \E k \in Collection : sv_choosecollection(k)
  BY <1>1 DEF app_edit_setting, sv_choosecollection, Base
<1>2. CASE NextRestore
  BY <1>2 DEF NextRestore
<1>3. CASE CheckFile /\ ~ Restored
  <2>1. UNCHANGED <<index, wanted, contents, members, separate_metadata, faulted>>
    BY <1>3 DEF CheckFile
  <2>2. CASE p \in messages
    BY <2>1, <2>2 DEF ReportedForReason, Reason, Equals
  <2>3. CASE p \notin messages
    <3>1. p = path /\ pc = "check"
      BY <1>3, <2>3 DEF CheckFile, Report
    <3>2. path \notin faulted /\ path \in DOMAIN files
      BY <2>1, <3>1 DEF Base, Busy
    <3>3. Reason(p)
      BY <1>3, <3>1, <3>2, CheckReason
    <3> QED BY <2>1, <3>3 DEF Reason, Equals
  <2> QED BY <2>2, <2>3
<1>4. CASE ExtractFails \/ DecompressFails \/ MoveFails \/ CheckFails
  <2>1. UNCHANGED <<index, wanted, contents, members, separate_metadata>>
    BY <1>4 DEF ExtractFails, DecompressFails, MoveFails, CheckFails
  <2>2. p \in messages \ faulted
    BY <1>4 DEF ExtractFails, DecompressFails, MoveFails, CheckFails, Report, Fault
  <2> QED BY <2>1, <2>2 DEF ReportedForReason, Reason, Equals
<1>5. CASE UNCHANGED <<storeVars, separate_metadata, wanted, messages, faulted>>
  BY <1>5 DEF ReportedForReason, Reason, Equals
<1> QED BY <1>1, <1>2, <1>3, <1>4, <1>5 DEF Next, vars, MoveArchive, sv_restore, Cancel,
       sv_restore_cb, Extract, Decompress, MoveToDest, CheckFile, EndRestore

\* A failure of one file never spoils another.
THEOREM NoContagion == Spec => []ReportedForReason
<1>1. Init => ReportedForReason
  BY DEF Init, ReportedForReason
<1>2. Base /\ Through /\ ReportedForReason /\ [Next]_vars => ReportedForReason'
  BY StepReason
<1> QED BY <1>1, <1>2, BaseInv, PTL DEF Spec

-----------------------------------------------------------------------------
(* Types, and what is counted. *)

LEMMA PartialPut ==
    ASSUME NEW A, NEW B, NEW f \in Partial(A, B), NEW x \in A, NEW y \in B
    PROVE  Put(f, x, y) \in Partial(A, B)
<1>1. PICK D \in SUBSET A : f \in [D -> B]
  BY DEF Partial
<1>2. Put(f, x, y) \in [D \cup {x} -> B]
  BY <1>1 DEF Put
<1> QED BY <1>1, <1>2 DEF Partial

LEMMA PartialWithout ==
    ASSUME NEW A, NEW B, NEW f \in Partial(A, B), NEW S
    PROVE  Without(f, S) \in Partial(A, B)
<1>1. PICK D \in SUBSET A : f \in [D -> B]
  BY DEF Partial
<1>2. Without(f, S) \in [D \ S -> B]
  BY <1>1 DEF Without, Restrict
<1> QED BY <1>2 DEF Partial

LEMMA PartialValue ==
    ASSUME NEW A, NEW B, NEW f \in Partial(A, B), NEW x \in DOMAIN f
    PROVE  x \in A /\ f[x] \in B
BY DEF Partial

LEMMA PartialEmpty ==
    ASSUME NEW A, NEW B
    PROVE  EmptyFcn \in Partial(A, B)
<1>1. EmptyFcn \in [{} -> B] /\ {} \in SUBSET A
  BY DEF EmptyFcn
<1> QED BY <1>1 DEF Partial

\* Everything of TypeOK but the counts; and what is in the working directory while a
\* file is on its way.
Types ==
    /\ Base
    /\ members \in Partial(Id, Data)
    /\ present \subseteq Archive
    /\ audiotag_binary \in BOOLEAN
    /\ scope \subseteq Path
    /\ todo \subseteq Path
    /\ work \in Partial(Id \X Kind, File)
    /\ dest \in Partial({Target[p] : p \in Path}, File)
    /\ messages \subseteq Path /\ faulted \subseteq Path
    /\ pc = "unxz" => <<id, "xz">> \in DOMAIN work
    /\ pc = "move" => <<id, "file">> \in DOMAIN work

LEMMA InitTypes == Init => Types
<1> SUFFICES ASSUME Init PROVE Types
  OBVIOUS
<1>1. Base
  BY InitBase
<1>2. work \in Partial(Id \X Kind, File)
  <2>1. CASE work = EmptyFcn
    BY <2>1, PartialEmpty
  <2>2. CASE work = [k \in Id \X Kind |-> Torn]
    <3>1. work \in [Id \X Kind -> File]
      BY <2>2 DEF File
    <3> QED BY <3>1 DEF Partial
  <2> QED BY <2>1, <2>2 DEF Init
<1>3. dest \in Partial({Target[p] : p \in Path}, File)
  BY PartialEmpty DEF Init
<1> QED BY <1>1, <1>2, <1>3 DEF Init, Types

\* The id of the current file is an id, its extension one of the two.
LEMMA CurrentId ==
    ASSUME Base, pc \in Busy
    PROVE  id \in Id /\ extension \in Kind /\ Target[path] \in {Target[p] : p \in Path}
<1>1. files \in Partial(Path, Id) /\ path \in DOMAIN files
  BY DEF Base, files
<1> QED BY <1>1, PartialValue DEF id, extension, Kind, Base

LEMMA StepTypes ==
    ASSUME Types, Through, [Next]_vars
    PROVE  Types'
<1>1. Base'
  BY StepBase DEF Types
<1> DEFINE Frame == /\ members \in Partial(Id, Data) /\ present \subseteq Archive
                    /\ audiotag_binary \in BOOLEAN /\ scope \subseteq Path
                    /\ todo \subseteq Path /\ messages \subseteq Path
                    /\ faulted \subseteq Path
           Files == /\ work \in Partial(Id \X Kind, File)
                    /\ dest \in Partial({Target[p] : p \in Path}, File)
                    /\ pc = "unxz" => <<id, "xz">> \in DOMAIN work
                    /\ pc = "move" => <<id, "file">> \in DOMAIN work
<1>2. Frame'
  <2>0. path \in Path /\ DOMAIN files \subseteq Path
    <3>1. files \in Partial(Path, Id) /\ path \in Path
      BY DEF Types, Base, files
    <3> QED BY <3>1, PartialValue
  <2>1. ASSUME NEW a \in Archive, MoveArchive(a) PROVE Frame'
    BY <2>1 DEF Types, MoveArchive, storeVars, audioVars, optionVars, countVars
  <2>2. ASSUME \/ \E k \in Collection : sv_choosecollection(k)
               \/ \E s \in Scopes : sv_restore(s)
               \/ \E p \in Path : sv_restore_cb(p)
        PROVE  Frame'
    <3>1. Scopes \subseteq SUBSET Path
      BY ScopeType
    <3> QED BY <2>0, <2>2, <3>1
         DEF Types, sv_choosecollection, sv_restore_checkbinarypaths, sv_restore,
             sv_restore_cb, storeVars, audioVars, optionVars, countVars
  <2>3. CASE app_edit_setting \/ Cancel \/ EndRestore \/ NextRestore \/ UNCHANGED vars
    BY <2>3 DEF Types, app_edit_setting, Cancel, EndRestore, NextRestore, vars, storeVars,
                audioVars, optionVars, countVars
  <2>4. CASE Extract \/ Decompress \/ MoveToDest
    BY <2>4 DEF Types, Extract, Decompress, MoveToDest, storeVars, audioVars, optionVars,
                countVars
  <2>5. CASE ExtractFails \/ DecompressFails \/ MoveFails \/ CheckFile \/ CheckFails
    BY <2>0, <2>5 DEF Types, ExtractFails, DecompressFails, MoveFails, CheckFile,
                CheckFails, Report, Fault, storeVars, audioVars, optionVars, countVars
  <2> QED BY <2>1, <2>2, <2>3, <2>4, <2>5 DEF Next
<1>3. Cleared \in Partial(Id \X Kind, File)
  BY PartialWithout DEF Types, Cleared
<1>4. pc \in Busy => /\ id \in Id /\ <<id, extension>> \in Id \X Kind
                     /\ <<id, "file">> \in Id \X Kind /\ <<id, "xz">> \in Id \X Kind
                     /\ Target[path] \in {Target[p] : p \in Path}
  BY CurrentId DEF Types, Kind
<1>5. Torn \in File /\ \A i \in DOMAIN members : members[i] \in File
  BY PartialValue DEF Types, File
<1>6. \A k \in DOMAIN work : work[k] \in File
  BY PartialValue DEF Types
<1>7. ASSUME UNCHANGED <<work, dest>> /\ pc' \notin {"unxz", "move"} PROVE Files'
  BY <1>7 DEF Types
<1>8. ASSUME UNCHANGED <<work, dest, pc, index, wanted, path>> PROVE Files'
  BY <1>8 DEF Types, id, files
<1>9. ASSUME NEW s \in Scopes, sv_restore(s) PROVE Files'
  BY <1>9, PartialEmpty DEF sv_restore, Types
<1>10. ASSUME Extract PROVE Files'
  <2>1. work' \in Partial(Id \X Kind, File)
    BY <1>3, <1>4, <1>5, <1>10, PartialPut DEF Extract, Busy
  <2>2. id' = id /\ dest' = dest
    BY <1>10 DEF Extract, storeVars, optionVars, id, files
  <2>3. <<id, extension>> \in DOMAIN work'
    BY <1>10, PutValue DEF Extract
  <2>4. (pc' = "unxz" => <<id, "xz">> \in DOMAIN work')
         /\ (pc' = "move" => <<id, "file">> \in DOMAIN work')
    BY <1>10, <2>3 DEF Extract, extension
  <2> QED BY <2>1, <2>2, <2>4 DEF Types
<1>11. ASSUME ExtractFails PROVE Files'
  <2>1. Put(Cleared, <<id, extension>>, Torn) \in Partial(Id \X Kind, File)
    BY <1>3, <1>4, <1>5, <1>11, PartialPut DEF ExtractFails, Busy
  <2> QED BY <1>3, <1>11, <2>1 DEF ExtractFails, Report, Types
<1>12. ASSUME Decompress PROVE Files'
  <2>1. work[<<id, "xz">>] \in File
    BY <1>6, <1>12 DEF Types, Decompress
  <2>2. work' \in Partial(Id \X Kind, File)
    BY <1>4, <1>12, <2>1, PartialPut DEF Types, Decompress, Busy
  <2>3. <<id, "file">> \in DOMAIN work' /\ id' = id
    BY <1>12, PutValue DEF Decompress, storeVars, optionVars, id, files
  <2> QED BY <1>12, <2>2, <2>3 DEF Decompress, Types
<1>13. ASSUME DecompressFails PROVE Files'
  <2>1. work' \in Partial(Id \X Kind, File)
    BY <1>4, <1>5, <1>13, PartialPut DEF Types, DecompressFails, Busy
  <2>2. <<id, "file">> \in DOMAIN work' /\ id' = id
    BY <1>13, PutValue DEF DecompressFails, storeVars, optionVars, id, files
  <2> QED BY <1>13, <2>1, <2>2 DEF DecompressFails, Report, Types
<1>14. ASSUME MoveToDest PROVE Files'
  <2>1. work[<<id, "file">>] \in File
    BY <1>6, <1>14 DEF Types, MoveToDest
  <2>2. dest' \in Partial({Target[p] : p \in Path}, File)
    BY <1>4, <1>14, <2>1, PartialPut DEF Types, MoveToDest, Busy
  <2>3. work' \in Partial(Id \X Kind, File)
    BY <1>14, PartialWithout DEF Types, MoveToDest
  <2> QED BY <1>14, <2>2, <2>3 DEF MoveToDest
<1>15. ASSUME NextRestore PROVE Files'
  BY <1>15, PartialEmpty DEF NextRestore, Types
<1>16. Files'
  <2>1. ASSUME NEW p \in Path, sv_restore_cb(p)
        PROVE  UNCHANGED <<work, dest>> /\ pc' \notin {"unxz", "move"}
    BY <2>1 DEF sv_restore_cb
  <2>2. ASSUME NEW a \in Archive, MoveArchive(a)
        PROVE  UNCHANGED <<work, dest, pc, index, wanted, path>>
    BY <2>2 DEF MoveArchive, storeVars, optionVars
  <2>3. app_edit_setting \/ UNCHANGED vars
            => UNCHANGED <<work, dest, pc, index, wanted, path>>
    BY DEF app_edit_setting, storeVars, optionVars, vars
  <2>4. ASSUME \/ \E k \in Collection : sv_choosecollection(k)
               \/ Cancel \/ MoveFails \/ CheckFile \/ CheckFails \/ EndRestore
        PROVE  UNCHANGED <<work, dest>> /\ pc' \notin {"unxz", "move"}
    BY <2>4 DEF sv_choosecollection, Cancel, MoveFails, CheckFile, CheckFails,
                EndRestore, Report
  <2> QED BY <1>7, <1>8, <1>9, <1>10, <1>11, <1>12, <1>13, <1>14, <1>15, <2>1, <2>2, <2>3,
             <2>4 DEF Next
<1> QED BY <1>1, <1>2, <1>16 DEF Types

\* The rows the iteration has reached, and what is counted of them.
Seen == (DOMAIN files \cap scope) \ todo

Counted ==
    /\ messages \subseteq Seen
    /\ pc \in Busy => path \in Seen \ messages
    /\ pc = "end" => todo = {} \/ scope = {}
    /\ countfilesmatch = Cardinality(Seen)
    /\ countfilescomplete = Cardinality(Seen \ messages)

LEMMA SeenFinite ==
    ASSUME Types, IsFiniteSet(Path)
    PROVE  /\ Seen \subseteq Path
           /\ IsFiniteSet(Seen) /\ IsFiniteSet(Seen \ messages)
           /\ Cardinality(Seen) \in 0..Cardinality(Path)
           /\ Cardinality(Seen \ messages) \in 0..Cardinality(Seen)
<1>1. Seen \in SUBSET Path
  BY DEF Seen, Types
<1>2. IsFiniteSet(Seen) /\ Cardinality(Seen) <= Cardinality(Path)
  BY <1>1, FS_Subset
<1>3. Seen \ messages \in SUBSET Seen
  OBVIOUS
<1>4. IsFiniteSet(Seen \ messages) /\ Cardinality(Seen \ messages) <= Cardinality(Seen)
  BY <1>2, <1>3, FS_Subset
<1> QED BY <1>1, <1>2, <1>4, FS_CardinalityType

LEMMA NoneSeen ==
    ASSUME Seen = {}
    PROVE  Cardinality(Seen) = 0 /\ Cardinality(Seen \ messages) = 0
<1>1. Seen \ messages = {}
  OBVIOUS
<1> QED BY <1>1, FS_EmptySet

LEMMA InitCounted == Init => Counted
<1> SUFFICES ASSUME Init PROVE Counted
  OBVIOUS
<1>1. Seen = {} /\ messages = {}
  BY DEF Init, Seen
<1> QED BY <1>1, NoneSeen DEF Init, Counted, Busy

\* A step that leaves rows, notes and counts alone.
LEMMA CountsKept ==
    ASSUME Counted, Seen' = Seen,
           UNCHANGED <<messages, countfilesmatch, countfilescomplete>>,
           pc' \in Busy => pc \in Busy /\ path' = path,
           pc' = "end" => todo' = {} \/ scope' = {}
    PROVE  Counted'
BY DEF Counted

\* A file in the notes is no longer counted.
LEMMA ReportCounts ==
    ASSUME Types, IsFiniteSet(Path), Counted, pc \in Busy, Report, Seen' = Seen
    PROVE  Counted'
<1>1. messages' = messages \cup {path} /\ path \in Seen \ messages
  BY DEF Report, Counted
<1>2. Seen' \ messages' = (Seen \ messages) \ {path}
  BY <1>1
<1>3. Cardinality((Seen \ messages) \ {path}) = Cardinality(Seen \ messages) - 1
  BY <1>1, SeenFinite, FS_RemoveElement
<1>4. Cardinality(Seen \ messages)' = Cardinality(Seen \ messages) - 1
  BY <1>2, <1>3
<1> QED BY <1>1, <1>4 DEF Report, Counted, Busy

LEMMA StepCounted ==
    ASSUME Types, IsFiniteSet(Path), Counted, [Next]_vars
    PROVE  Counted'
<1>0. Base
  BY DEF Types
<1>1. ASSUME NEW a \in Archive, MoveArchive(a) PROVE Counted'
  <2>1. Seen' = Seen
    BY <1>1 DEF MoveArchive, Seen, files, storeVars, optionVars
  <2> QED BY <1>1, <2>1, CountsKept DEF MoveArchive, countVars, optionVars, Counted
<1>2. CASE app_edit_setting \/ UNCHANGED vars
  <2>1. Seen' = Seen
    BY <1>2 DEF app_edit_setting, Seen, files, storeVars, optionVars, vars
  <2> QED BY <1>2, <2>1, CountsKept
          DEF app_edit_setting, countVars, optionVars, vars, Counted, Busy
<1>3. ASSUME NEW k \in Collection, sv_choosecollection(k) PROVE Counted'
  <2>1. Seen = {} /\ Seen' = {}
    BY <1>0, <1>3 DEF sv_choosecollection, Seen, Base
  <2> QED BY <1>3, <2>1, CountsKept DEF sv_choosecollection, countVars, Busy
<1>4. ASSUME NEW s \in Scopes, sv_restore(s) PROVE Counted'
  <2>1. Seen = {} /\ Seen' = {}
    BY <1>0, <1>4 DEF sv_restore, Seen, Base, files, storeVars, optionVars
  <2> QED BY <1>4, <2>1, CountsKept DEF sv_restore, countVars, Busy
<1>5. CASE Cancel
  <2>1. Seen = {} /\ Seen' = {} /\ scope' = {}
    BY <1>0, <1>5 DEF Cancel, Seen, Base, optionVars
  <2> QED BY <1>5, <2>1, CountsKept DEF Cancel, countVars, Busy
<1>6. ASSUME NEW p \in Path, sv_restore_cb(p) PROVE Counted'
  <2>1. p \in DOMAIN files /\ p \in todo /\ files' = files /\ scope' = scope
        /\ messages' = messages
    BY <1>0, <1>6 DEF sv_restore_cb, Base, files, storeVars, optionVars
  <2>2. CASE p \in scope
    <3>1. Seen' = Seen \cup {p} /\ p \notin Seen /\ p \notin messages
      BY <1>6, <2>1, <2>2 DEF sv_restore_cb, Seen, Counted
    <3>2. Seen' \ messages' = (Seen \ messages) \cup {p} /\ p \notin Seen \ messages
      BY <2>1, <3>1
    <3>3. /\ Cardinality(Seen \cup {p}) = Cardinality(Seen) + 1
          /\ Cardinality((Seen \ messages) \cup {p}) = Cardinality(Seen \ messages) + 1
      BY <3>1, <3>2, SeenFinite, FS_AddElement
    <3>4. /\ Cardinality(Seen)' = Cardinality(Seen) + 1
          /\ Cardinality(Seen \ messages)' = Cardinality(Seen \ messages) + 1
      BY <3>1, <3>2, <3>3
    <3> QED BY <1>6, <2>1, <2>2, <3>1, <3>4 DEF sv_restore_cb, Counted, Busy
  <2>3. CASE p \notin scope
    <3>1. Seen' = Seen
      BY <1>6, <2>1, <2>3 DEF sv_restore_cb, Seen
    <3> QED BY <1>6, <2>1, <2>3, <3>1, CountsKept DEF sv_restore_cb, Busy
  <2> QED BY <2>2, <2>3
<1>7. CASE Extract \/ Decompress \/ MoveToDest
  <2>1. Seen' = Seen
    BY <1>7 DEF Extract, Decompress, MoveToDest, Seen, files, storeVars, optionVars
  <2> QED BY <1>7, <2>1, CountsKept
          DEF Extract, Decompress, MoveToDest, countVars, Busy
<1>8. CASE ExtractFails \/ DecompressFails \/ MoveFails \/ CheckFile \/ CheckFails
  <2>1. Seen' = Seen /\ pc \in Busy
    BY <1>8 DEF ExtractFails, DecompressFails, MoveFails, CheckFile, CheckFails, Seen,
                files, storeVars, optionVars, Busy
  <2>2. CASE Report
    BY <2>1, <2>2, ReportCounts
  <2>3. ASSUME UNCHANGED <<messages, countfilesmatch, countfilescomplete, path>>,
               pc' # "end"
        PROVE  Counted'
    BY <2>1, <2>3, CountsKept
  <2> QED BY <1>8, <2>2, <2>3
          DEF ExtractFails, DecompressFails, MoveFails, CheckFile, CheckFails
<1>9. CASE EndRestore
  <2>1. Seen' = Seen
    BY <1>9 DEF EndRestore, Seen, files, storeVars, optionVars
  <2> QED BY <1>9, <2>1, CountsKept DEF EndRestore, countVars, Busy
<1>10. CASE NextRestore
  <2>1. Seen' = {}
    BY <1>10 DEF NextRestore, Seen
  <2>2. Cardinality(Seen)' = 0 /\ Cardinality(Seen \ messages)' = 0
    <3>1. Seen' \ messages' = {}
      BY <2>1
    <3> QED BY <2>1, <3>1, FS_EmptySet
  <2> QED BY <1>10, <2>1, <2>2 DEF NextRestore, Counted, Busy
<1> QED BY <1>1, <1>2, <1>3, <1>4, <1>5, <1>6, <1>7, <1>8, <1>9, <1>10 DEF Next

\* Every variable keeps its type, and no more files are counted than there are.
THEOREM RestoreTypes == IsFiniteSet(Path) => (Spec => []TypeOK)
<1> SUFFICES ASSUME IsFiniteSet(Path) PROVE Spec => []TypeOK
  OBVIOUS
<1>1. Types /\ Counted => TypeOK
  <2> SUFFICES ASSUME Types, Counted PROVE TypeOK
    OBVIOUS
  <2>1. DOMAIN work \subseteq Id \X Kind /\ work \in [DOMAIN work -> File]
    BY DEF Types, Partial
  <2>2. /\ countfilesmatch \in 0..Cardinality(Path)
        /\ countfilescomplete \in 0..countfilesmatch
    BY SeenFinite DEF Counted
  <2>3. pc \in {"menu", "options", "walk", "extract", "unxz", "move", "check", "end"}
    BY DEF Types, Base, Busy
  <2> QED BY <2>1, <2>2, <2>3 DEF Types, Base, TypeOK
<1>2. Types /\ Through /\ Counted /\ [Next]_vars => Types' /\ Counted'
  BY StepTypes, StepCounted
<1> QED BY <1>1, <1>2, InitTypes, InitCounted, BaseInv, PTL DEF Spec

\* When a restore ends, as many files were asked for and are there as it says.
THEOREM CountsAreTrue ==
    IsFiniteSet(Path) /\ OwnTargets => (Spec => []CountsTrue)
<1> SUFFICES ASSUME IsFiniteSet(Path), OwnTargets PROVE Spec => []CountsTrue
  OBVIOUS
<1>1. Types /\ Counted /\ RestoredOrReported => CountsTrue
  <2> SUFFICES ASSUME Counted, RestoredOrReported, pc = "end", scope # {}
               PROVE  /\ countfilesmatch = Cardinality(DOMAIN files \cap scope)
                      /\ countfilescomplete =
                           Cardinality({p \in Handled \ messages : Ready(p) \/ Unverified(p)})
    BY DEF CountsTrue
  <2>1. Seen = DOMAIN files \cap scope /\ Handled = Seen
    BY DEF Counted, Seen, Handled
  <2>2. {p \in Handled \ messages : Ready(p) \/ Unverified(p)} = Seen \ messages
    BY <2>1 DEF RestoredOrReported
  <2> QED BY <2>1, <2>2 DEF Counted
<1>2. Types /\ Through /\ Counted /\ [Next]_vars => Types' /\ Counted'
  BY StepTypes, StepCounted
<1> QED BY <1>1, <1>2, InitTypes, InitCounted, BaseInv, RestoreSound, PTL DEF Spec
=============================================================================
