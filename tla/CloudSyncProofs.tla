--------------------------- MODULE CloudSyncProofs ---------------------------
(***************************************************************************)
(* Proofs about CloudSync: its types, and that what is judged uploaded is  *)
(* uploaded and is not uploaded twice, for any number of files, vaults,    *)
(* syncs, failures and recoveries, and whatever changes meanwhile.         *)
(***************************************************************************)
EXTENDS CloudSync, FiniteSetTheorems, TLAPS

-----------------------------------------------------------------------------
(* Types. *)

\* Writing and removing a file or a record keep the tables typed.
LEMMA PutFile ==
    ASSUME NEW fs, IsFiles(fs), NEW f \in File, NEW x \in [data : Data, lmt : Nat]
    PROVE  IsFiles(Put(fs, f, x))
BY DEF IsFiles, Put

LEMMA DropFile ==
    ASSUME NEW fs, IsFiles(fs), NEW f
    PROVE  IsFiles(Drop(fs, f))
BY DEF IsFiles, Drop, Restrict

LEMMA PutRow ==
    ASSUME NEW t, IsTable(t), NEW v \in Vault, NEW f \in File, NEW r \in Row
    PROVE  IsTable(Put(t, <<v, f>>, r))
BY DEF IsTable, Put

LEMMA DropRow ==
    ASSUME NEW t, IsTable(t), NEW k
    PROVE  IsTable(Drop(t, k))
BY DEF IsTable, Drop, Restrict

LEMMA EmptyTyped == IsFiles(EmptyFcn) /\ IsTable(EmptyFcn)
BY DEF IsFiles, IsTable, EmptyFcn

\* Nothing is known of a file before its upload.
LEMMA NoneTyped == NoUpload \in Upload
BY DEF NoUpload, Upload

\* An archive uploaded now is typed, and the vaults stay finite.
LEMMA StoredTyped ==
    ASSUME TypeOK, pc = "awscli", cur.file \in DOMAIN ready
    PROVE  /\ Stored \in Archive
           /\ IsFiniteSet(cloud \cup {Stored})
<1>1. Cardinality(cloud) \in Nat
  BY FS_CardinalityType DEF TypeOK
<1>2. ready[cur.file].data \in Data /\ cur.file \in File
  BY DEF TypeOK, IsFiles, Upload
<1>3. Stored \in Archive
  BY <1>1, <1>2 DEF TypeOK, Stored, Archive
<1> QED BY <1>3, FS_AddElement DEF TypeOK

LEMMA InitTyped == Init => TypeOK
<1> SUFFICES ASSUME Init PROVE TypeOK
  OBVIOUS
<1>1. IsFiles(ready)
  BY DEF Init, IsFiles
<1>2. IsFiniteSet(cloud)
  BY FS_EmptySet DEF Init
<1>3. 0 \in 0..max_tries
  BY TriesType
<1> QED BY <1>1, <1>2, <1>3, EmptyTyped DEF NoUpload, Upload, Init, TypeOK

\* What is noted of a change to a file.
LEMMA ChangedTyped ==
    ASSUME TypeOK, NEW f \in File, Changed(f)
    PROVE  /\ changed' \subseteq File /\ cur' \in Upload
           /\ cur'.file = cur.file /\ cur'.crc = cur.crc
           /\ cur'.id = cur.id /\ cur'.lmt = cur.lmt
BY DEF TypeOK, Changed, Upload

LEMMA UserTyped == TypeOK /\ UserStep => TypeOK'
<1> SUFFICES ASSUME TypeOK, UserStep PROVE TypeOK'
  OBVIOUS
<1> USE DEF tableVars, fileVars, walkVars, syncVars
<1>1. ASSUME NEW f \in File, NEW d \in Data, WriteFile(f, d) PROVE TypeOK'
  <2>1. [data |-> d, lmt |-> clock + 1] \in [data : Data, lmt : Nat]
    BY DEF TypeOK
  <2>2. IsFiles(ready')
    BY <1>1, <2>1, PutFile DEF WriteFile, TypeOK
  <2>3. Changed(f)
    BY <1>1 DEF WriteFile
  <2> QED BY <1>1, <2>2, <2>3, ChangedTyped DEF WriteFile, TypeOK
<1>2. ASSUME NEW f \in File, EvictFile(f) PROVE TypeOK'
  <2>1. ready[f] \in [data : Data, lmt : Nat]
    BY <1>2 DEF EvictFile, TypeOK, IsFiles
  <2>2. IsFiles(ready') /\ IsFiles(away')
    BY <1>2, <2>1, PutFile, DropFile DEF EvictFile, TypeOK
  <2>3. Changed(f)
    BY <1>2 DEF EvictFile
  <2> QED BY <1>2, <2>2, <2>3, ChangedTyped DEF EvictFile, TypeOK
<1>3. ASSUME NEW f \in File, FetchFile(f) PROVE TypeOK'
  <2>1. away[f] \in [data : Data, lmt : Nat]
    BY <1>3 DEF FetchFile, TypeOK, IsFiles
  <2>2. IsFiles(ready') /\ IsFiles(away')
    BY <1>3, <2>1, PutFile, DropFile DEF FetchFile, TypeOK
  <2>3. Changed(f)
    BY <1>3 DEF FetchFile
  <2> QED BY <1>3, <2>2, <2>3, ChangedTyped DEF FetchFile, TypeOK
<1>4. CASE CopyIndex
  BY <1>4 DEF CopyIndex, TypeOK
<1>5. CASE RecoverIndex
  BY <1>5 DEF RecoverIndex, TypeOK
<1> QED BY <1>1, <1>2, <1>3, <1>4, <1>5 DEF UserStep

LEMMA MenuTyped == TypeOK /\ BackToMenu => TypeOK'
<1>1. 0 \in 0..max_tries
  BY TriesType
<1> QED BY <1>1, NoneTyped DEF BackToMenu, TypeOK, fileVars, tableVars

LEMMA SyncTyped == TypeOK /\ SyncStep => TypeOK'
<1> SUFFICES ASSUME TypeOK, SyncStep PROVE TypeOK'
  OBVIOUS
<1> USE DEF tableVars, fileVars, walkVars, syncVars
<1>1. ASSUME NEW v \in Vault, sv_sync_newvault(v) PROVE TypeOK'
  BY <1>1 DEF sv_sync_newvault, svdb_knownvaults_insert, TypeOK
<1>2. ASSUME NEW v \in Vault, sv_sync_main(v) PROVE TypeOK'
  <2>1. 1 \in 0..max_tries
    BY TriesType
  <2> QED BY <1>2, <2>1 DEF sv_sync_main, TypeOK
<1>3. ASSUME NEW f \in File, FindFile(f) PROVE TypeOK'
  <2>1. f \in DOMAIN ready => Size[ready[f].data] \in Nat
    BY SizeType DEF TypeOK, IsFiles
  <2>2. attempt \in Nat
    BY TriesType DEF TypeOK
  <2>3. todo' \subseteq [file : File, size : Nat, attempt : Nat]
    BY <1>3, <2>1, <2>2 DEF FindFile, TypeOK
  <2> QED BY <1>3, <2>3 DEF FindFile, TypeOK
<1>4. CASE EndFind
  <2>1. attempt' \in 0..max_tries
    BY <1>4, TriesType DEF EndFind
  <2> QED BY <1>4, <2>1 DEF EndFind, TypeOK
<1>5. ASSUME NEW e \in todo, sv_sync_uploadone(e) PROVE TypeOK'
  <2>1. e.file \in File
    BY DEF TypeOK
  <2>2. e.file \in DOMAIN ready => Size[ready[e.file].data] \in Nat
    BY SizeType DEF TypeOK, IsFiles
  <2>3. CASE e.file \in DOMAIN ready
    <3>1. /\ pc = "upload" /\ pc' = "awscli" /\ failed' = failed
          /\ cur' = [NoUpload EXCEPT !.file = e.file,
                                     !.size = Size[ready[e.file].data]]
      BY <1>5, <2>3 DEF sv_sync_uploadone
    <3>2. cur' \in Upload /\ cur'.file = e.file
      BY <2>1, <2>2, <2>3, <3>1, NoneTyped DEF Upload
    <3> QED BY <1>5, <2>1, <3>1, <3>2 DEF sv_sync_uploadone, TypeOK
  <2>4. CASE e.file \notin DOMAIN ready
    BY <1>5, <2>1, <2>4 DEF sv_sync_uploadone, TypeOK
  <2> QED BY <2>3, <2>4
<1>6. CASE UploadOk
  <2>1. Stored \in Archive /\ IsFiniteSet(cloud')
    BY <1>6, StoredTyped DEF UploadOk
  <2>2. cur' \in Upload /\ cur'.file = cur.file
    BY <1>6, <2>1 DEF UploadOk, TypeOK, Upload, Archive
  <2> QED BY <1>6, <2>1, <2>2 DEF UploadOk, TypeOK
<1>7. ASSUME AfterFailure, pc = "awscli"
      PROVE  failed' \subseteq File /\ pc' = "upload" /\ cur' \in Upload
  BY <1>7, NoneTyped DEF AfterFailure, TypeOK
<1>8. CASE UploadFail
  BY <1>7, <1>8 DEF UploadFail, TypeOK
<1>9. CASE UploadLost
  <2>1. Stored \in Archive /\ IsFiniteSet(cloud')
    BY <1>9, StoredTyped DEF UploadLost
  <2> QED BY <1>7, <1>9, <2>1 DEF UploadLost, TypeOK
<1>10. CASE MarkCrc
  <2>1. cur' \in Upload /\ cur'.file = cur.file /\ cur'.crc \in Data
    BY <1>10 DEF MarkCrc, TypeOK, IsFiles, Upload
  <2> QED BY <1>10, <2>1 DEF MarkCrc, TypeOK
<1>11. CASE MarkDelete
  <2>1. cur' \in Upload /\ cur'.file = cur.file /\ cur'.crc = cur.crc
    BY <1>11 DEF MarkDelete, TypeOK, IsFiles, Upload
  <2>2. IsTable(rows')
    BY <1>11, DropRow DEF MarkDelete, TypeOK
  <2> QED BY <1>11, <2>1, <2>2 DEF MarkDelete, TypeOK
<1>12. CASE MarkInsert
  <2>1. IsTable(rows')
    BY <1>12, PutRow DEF MarkInsert, TypeOK, Upload, Row
  <2> QED BY <1>12, <2>1, NoneTyped DEF MarkInsert, TypeOK
<1>13. CASE EndUpload
  BY <1>13 DEF EndUpload, TypeOK
<1>14. CASE EndSync
  BY <1>14, MenuTyped DEF EndSync
<1>15. ASSUME NEW f \in File, SkipFile(f) PROVE TypeOK'
  BY <1>15 DEF SkipFile, TypeOK
<1>16. CASE ListAgain
  <2>1. attempt + 1 \in 0..max_tries
    BY <1>16, TriesType DEF ListAgain, TypeOK
  <2> QED BY <1>16, <2>1 DEF ListAgain, TypeOK
<1>17. CASE GiveUp
  BY <1>17 DEF GiveUp, TypeOK
<1> QED BY <1>1, <1>2, <1>3, <1>4, <1>5, <1>6, <1>8, <1>9, <1>10, <1>11, <1>12,
           <1>13, <1>14, <1>15, <1>16, <1>17 DEF SyncStep

\* Every variable keeps its type, whatever goes wrong around the program.
THEOREM CloudTypes == Spec => []TypeOK
<1>1. TypeOK /\ Abort => TypeOK'
  BY MenuTyped DEF Abort
<1>2. TypeOK /\ UNCHANGED vars => TypeOK'
  BY DEF vars, TypeOK
<1>3. TypeOK /\ [Next]_vars => TypeOK'
  BY <1>1, <1>2, UserTyped, SyncTyped DEF Next
<1> QED BY <1>3, InitTyped, PTL DEF Spec

-----------------------------------------------------------------------------
(* What is judged uploaded is uploaded. *)

\* A clean file is in the vault: by its checksum, or by a time that names one
\* version of it; unless it changed while its upload was recorded.
LEMMA CleanByRecord ==
    ASSUME TypeOK, TrueTable(rows), Versions,
           NEW v \in Vault, NEW f \in DOMAIN ready, ~ isdirty(f, v)
    PROVE  InCloud(f, v) \/ Raced(f, v)
<1>1. <<v, f>> \in DOMAIN rows
  BY DEF isdirty, svdb_vaultarchives_bypath
<1> SUFFICES ASSUME ~ rows[<<v, f>>].raced PROVE InCloud(f, v)
  BY <1>1 DEF Raced, svdb_vaultarchives_bypath
<1>2. ready[f].data = rows[<<v, f>>].crc
  <2>1. CASE ready[f].lmt = rows[<<v, f>>].lmt
    <3>1. SameVersion(ready, rows)
      BY DEF Versions
    <3> QED BY <1>1, <2>1, <3>1 DEF SameVersion
  <2>2. CASE ready[f].lmt # rows[<<v, f>>].lmt
    BY <1>1, <2>2 DEF isdirty, svdb_vaultarchives_bypath
  <2> QED BY <2>1, <2>2
<1>3. PICK a \in cloud : <<a.vault, a.file>> = <<v, f>> /\ a.data = rows[<<v, f>>].crc
  BY <1>1 DEF TrueTable
<1> QED BY <1>2, <1>3 DEF InCloud

\* Archives never leave a vault.
LEMMA CloudGrows ==
    ASSUME NEW t, TrueTable(t), cloud \subseteq cloud'
    PROVE  \A k \in DOMAIN t : \E a \in cloud' : /\ a.id = t[k].id
                                                 /\ <<a.vault, a.file>> = k
                                                 /\ t[k].raced \/ a.data = t[k].crc
BY DEF TrueTable

LEMMA InitIInv == Init => IInv
<1> SUFFICES ASSUME Init PROVE IInv
  OBVIOUS
<1>1. DOMAIN EmptyFcn = {}
  BY DEF EmptyFcn
<1>2. TrueTable(rows) /\ TrueTable(copy.rows)
  BY <1>1 DEF Init, TrueTable
<1>3. Versions
  BY <1>1 DEF Init, Versions, Stamped, SameVersion
<1> QED BY <1>2, <1>3 DEF Init, IInv, Marking, Progress, Pending, Listing

\* A change to a file disturbs the running sync at most for that file, and that
\* is noted.
LEMMA ChangeIInv ==
    ASSUME TypeOK, IInv, NEW f \in File, Changed(f),
           UNCHANGED <<rows, cloud, pc, vault, walkVars, todo, failed>>,
           clock \in Nat, clock' \in Nat, clock <= clock', DOMAIN ready' \subseteq File,
           \A g \in File \ {f} :
               /\ g \in DOMAIN ready' <=> g \in DOMAIN ready
               /\ g \in DOMAIN ready => ready'[g] = ready[g]
    PROVE  Marking' /\ Progress' /\ Pending' /\ Listing'
<1> USE DEF walkVars
<1>1. /\ cur'.file = cur.file /\ cur'.crc = cur.crc /\ cur'.id = cur.id
      /\ cur'.lmt = cur.lmt /\ cur.lmt \in Nat
  BY ChangedTyped DEF TypeOK, Upload
<1>2. /\ cur'.raced <=>
             cur.raced \/ (pc \in {"crc", "mark", "insert"} /\ f = cur.file)
      /\ changed' = IF pc = "menu" THEN changed ELSE changed \cup {f}
  BY DEF Changed, TypeOK, Upload
<1>4. ASSUME NEW g \in File \ {f}, g \in DOMAIN ready
      PROVE  /\ InCloud(g, vault) => InCloud(g, vault)'
             /\ Raced(g, vault) => Raced(g, vault)'
             /\ isdirty(g, vault) => isdirty(g, vault)'
  BY <1>4 DEF InCloud, Raced, isdirty, svdb_vaultarchives_bypath
<1>5. Marking'
  <2> SUFFICES ASSUME pc \in {"crc", "mark", "insert"} PROVE Marking'
    BY DEF Marking
  <2>1. cur.file \in File
    BY DEF TypeOK
  <2>2. ~ cur'.raced => ~ cur.raced /\ cur.file # f
    BY <1>2
  <2> QED BY <1>1, <2>1, <2>2 DEF IInv, Marking
<1>6. Progress'
  <2>1. pc' \in {"menu", "find"} => failed' = {}
    BY DEF IInv, Progress
  <2>2. /\ pc' = "awscli" => ~ cur'.raced /\ cur'.lmt = 0
        /\ pc' \in {"crc", "mark", "insert"} /\ cur'.raced => cur'.file \in changed'
    BY <1>1, <1>2 DEF IInv, Progress
  <2>3. ASSUME pc' # "menu", NEW g \in DOMAIN ready'
        PROVE  \/ InCloud(g, vault)' \/ Raced(g, vault)'
               \/ g \in failed' \cup changed' \cup unshown'
               \/ pc' = "find" /\ g \in unseen'
               \/ pc' # "done" /\ \E e \in todo' : e.file = g
               \/ pc' = "awscli" /\ g = cur'.file
    <3>1. CASE g = f
      BY <1>2, <2>3, <3>1
    <3>2. CASE g # f
      BY <1>1, <1>2, <1>4, <2>3, <3>2 DEF IInv, Progress
    <3> QED BY <3>1, <3>2
  <2> QED BY <2>1, <2>2, <2>3 DEF Progress
<1>7. Pending'
  <2>1. ASSUME NEW g \in File, g \in DOMAIN ready' \ changed', isdirty(g, vault),
               pc # "menu"
        PROVE  isdirty(g, vault)'
    BY <1>2, <1>4, <2>1
  <2>2. \A g \in File : g \in DOMAIN ready' \ (changed' \cup again') /\ pc # "menu" =>
                              g \in DOMAIN ready \ (changed \cup again)
    BY <1>2
  <2>3. \A e \in todo : e.file \in File
    BY DEF TypeOK
  <2>4. pc = "awscli" => cur.file \in File
    BY DEF TypeOK
  <2> QED BY <1>1, <2>1, <2>2, <2>3, <2>4 DEF IInv, Pending
<1>8. Listing'
  BY DEF IInv, Listing, Queued
<1> QED BY <1>5, <1>6, <1>7, <1>8

\* The user, and the copies of the index.
LEMMA UserIInv == TypeOK /\ IInv /\ UserStep => IInv'
<1> SUFFICES ASSUME TypeOK, IInv, UserStep PROVE IInv'
  OBVIOUS
<1> USE DEF tableVars, fileVars, walkVars, syncVars
<1>1. cloud' = cloud /\ pc' = pc /\ clock \in Nat
  BY DEF UserStep, WriteFile, EvictFile, FetchFile, CopyIndex, RecoverIndex, TypeOK
<1>2. Marking' /\ Progress' /\ Pending' /\ Listing'
  <2>1. TypeOK'
    BY UserTyped
  <2>2. DOMAIN ready' \subseteq File /\ clock' \in Nat
    BY <2>1 DEF TypeOK, IsFiles
  <2>3. ASSUME NEW f \in File, NEW d \in Data, WriteFile(f, d)
        PROVE  Marking' /\ Progress' /\ Pending' /\ Listing'
    <3>1. \A g \in File \ {f} :
             /\ g \in DOMAIN ready' <=> g \in DOMAIN ready
             /\ g \in DOMAIN ready => ready'[g] = ready[g]
      BY <2>3 DEF WriteFile, Put
    <3> QED BY <1>1, <2>2, <2>3, <3>1, ChangeIInv DEF WriteFile
  <2>4. ASSUME NEW f \in File, EvictFile(f)
        PROVE  Marking' /\ Progress' /\ Pending' /\ Listing'
    <3>1. \A g \in File \ {f} :
             /\ g \in DOMAIN ready' <=> g \in DOMAIN ready
             /\ g \in DOMAIN ready => ready'[g] = ready[g]
      BY <2>4 DEF EvictFile, Drop, Restrict
    <3> QED BY <1>1, <2>2, <2>4, <3>1, ChangeIInv DEF EvictFile
  <2>5. ASSUME NEW f \in File, FetchFile(f)
        PROVE  Marking' /\ Progress' /\ Pending' /\ Listing'
    <3>1. \A g \in File \ {f} :
             /\ g \in DOMAIN ready' <=> g \in DOMAIN ready
             /\ g \in DOMAIN ready => ready'[g] = ready[g]
      BY <2>5 DEF FetchFile, Put
    <3> QED BY <1>1, <2>2, <2>5, <3>1, ChangeIInv DEF FetchFile
  <2>6. CASE CopyIndex \/ RecoverIndex
    <3>1. /\ pc = "menu" /\ pc' = "menu" /\ failed' = failed /\ todo' = todo
          /\ UNCHANGED walkVars
      BY <2>6 DEF CopyIndex, RecoverIndex
    <3> QED BY <3>1 DEF IInv, Marking, Progress, Pending, Listing
  <2> QED BY <2>3, <2>4, <2>5, <2>6 DEF UserStep
<1>3. TrueTable(rows)' /\ TrueTable(copy.rows)'
  <2>1. rows' \in {rows, copy.rows} /\ copy'.rows \in {rows, copy.rows}
    <3>1. CASE CopyIndex
      BY <3>1 DEF CopyIndex
    <3>2. CASE RecoverIndex
      BY <3>2 DEF RecoverIndex
    <3>3. CASE UNCHANGED <<rows, copy>>
      BY <3>3
    <3> QED BY <3>1, <3>2, <3>3 DEF UserStep, WriteFile, EvictFile, FetchFile
  <2> QED BY <1>1, <2>1 DEF IInv, TrueTable
<1>4. ASSUME NEW f \in File, NEW d \in Data, WriteFile(f, d) PROVE Versions'
  <2>1. /\ ready' = Put(ready, f, [data |-> d, lmt |-> clock + 1])
        /\ clock' = clock + 1 /\ UNCHANGED <<away, rows, copy>>
    BY <1>4 DEF WriteFile
  <2>2. \A g \in DOMAIN away : away[g].lmt \in Nat
    BY DEF TypeOK, IsFiles
  <2>3. \A t \in {rows, copy.rows} : \A k \in DOMAIN t : t[k].lmt \in Nat
    BY DEF TypeOK, IsTable, Row
  <2>4. \A g \in DOMAIN ready : ready[g].lmt \in Nat
    BY DEF TypeOK, IsFiles
  <2>5. Stamped(ready)' /\ Stamped(away)'
    BY <1>1, <2>1, <2>2, <2>4 DEF IInv, Versions, Stamped, Put
  <2>6. \A g \in DOMAIN ready' \cap DOMAIN away' :
           ready'[g].lmt = away'[g].lmt => ready'[g].data = away'[g].data
    BY <1>1, <2>1, <2>2 DEF IInv, Versions, Stamped, Put
  <2>7. ASSUME NEW t \in {rows, copy.rows}
        PROVE  SameVersion(ready, t)' /\ SameVersion(away, t)'
    <3>1. SameVersion(ready, t) /\ SameVersion(away, t)
      BY DEF IInv, Versions
    <3> QED BY <1>1, <2>1, <2>3, <3>1 DEF SameVersion, Put
  <2> QED BY <2>1, <2>5, <2>6, <2>7 DEF Versions
<1>5. ASSUME NEW f \in File, EvictFile(f) PROVE Versions'
  <2>1. /\ ready' = Drop(ready, f) /\ away' = Put(away, f, ready[f])
        /\ f \in DOMAIN ready /\ UNCHANGED <<clock, rows, copy>>
    BY <1>5 DEF EvictFile
  <2> QED BY <2>1 DEF IInv, Versions, Stamped, SameVersion, Put, Drop, Restrict
<1>6. ASSUME NEW f \in File, FetchFile(f) PROVE Versions'
  <2>1. /\ away' = Drop(away, f) /\ ready' = Put(ready, f, away[f])
        /\ f \in DOMAIN away /\ UNCHANGED <<clock, rows, copy>>
    BY <1>6 DEF FetchFile
  <2> QED BY <2>1 DEF IInv, Versions, Stamped, SameVersion, Put, Drop, Restrict
<1>7. ASSUME CopyIndex PROVE Versions'
  BY <1>7 DEF CopyIndex, IInv, Versions, Stamped, SameVersion
<1>8. ASSUME RecoverIndex PROVE Versions'
  BY <1>8 DEF RecoverIndex, IInv, Versions, Stamped, SameVersion
<1>9. Versions'
  BY <1>4, <1>5, <1>6, <1>7, <1>8 DEF UserStep
<1> QED BY <1>2, <1>3, <1>9 DEF IInv

\* The steps that leave files, records and vaults alone.
LEMMA StillTrue ==
    ASSUME IInv, UNCHANGED <<fileVars, rows, copy, cloud>>
    PROVE  TrueTable(rows)' /\ TrueTable(copy.rows)' /\ Versions'
BY DEF fileVars, IInv, TrueTable, Versions, Stamped, SameVersion

\* A sync begins, walks readytoupload and picks the next file.
LEMMA FindIInv ==
    ASSUME TypeOK, IInv,
           \/ \E v \in Vault : sv_sync_newvault(v) \/ sv_sync_main(v)
           \/ \E f \in File : FindFile(f) \/ SkipFile(f)
           \/ ListAgain \/ GiveUp \/ EndFind
           \/ \E e \in todo : sv_sync_uploadone(e)
           \/ EndUpload \/ EndSync
    PROVE  IInv'
<1> USE DEF tableVars, fileVars, walkVars, syncVars
<1>1. UNCHANGED <<fileVars, rows, copy, cloud>>
  BY DEF sv_sync_newvault, sv_sync_main, FindFile, SkipFile, ListAgain, GiveUp,
         EndFind, sv_sync_uploadone, EndUpload, EndSync, BackToMenu
<1>2. pc' \notin {"crc", "mark", "insert"}
  BY DEF sv_sync_newvault, sv_sync_main, FindFile, SkipFile, ListAgain, GiveUp,
         EndFind, sv_sync_uploadone, EndUpload, EndSync, BackToMenu
<1>3. Marking'
  BY <1>2 DEF Marking
<1>4. \A f \in DOMAIN ready : f \in File
  BY DEF TypeOK, IsFiles
<1>5. \A f \in DOMAIN ready :
           /\ InCloud(f, vault) /\ vault' = vault => InCloud(f, vault)'
           /\ Raced(f, vault) /\ vault' = vault => Raced(f, vault)'
           /\ isdirty(f, vault) /\ vault' = vault => isdirty(f, vault)'
  BY <1>1 DEF InCloud, Raced, isdirty, svdb_vaultarchives_bypath
<1>6. Progress'
  <2>1. ASSUME NEW v \in Vault, sv_sync_newvault(v) PROVE Progress'
    BY <2>1 DEF sv_sync_newvault, svdb_knownvaults_insert, IInv, Progress
  <2>2. ASSUME NEW v \in Vault, sv_sync_main(v) PROVE Progress'
    BY <1>4, <2>2 DEF sv_sync_main, IInv, Progress
  <2>3. ASSUME NEW f \in File, FindFile(f) PROVE Progress'
    <3>1. f \in DOMAIN ready /\ ~ isdirty(f, vault) =>
             InCloud(f, vault) \/ Raced(f, vault)
      BY <2>3, CleanByRecord DEF FindFile, TypeOK, IInv
    <3>2. f \in DOMAIN ready /\ isdirty(f, vault) => \E e \in todo' : e.file = f
      <4>1. ASSUME f \in DOMAIN ready, isdirty(f, vault)
            PROVE  [file |-> f, size |-> Size[ready[f].data],
                    attempt |-> attempt] \in todo'
        BY <2>3, <4>1 DEF FindFile
      <4> QED BY <4>1
    <3>3. todo \subseteq todo'
      BY <2>3 DEF FindFile
    <3>4. /\ pc = "find" /\ pc' = "find" /\ unseen' = unseen \ {f}
          /\ unshown' = unshown \ {f}
          /\ UNCHANGED <<ready, vault, cur, changed, failed>>
      BY <2>3 DEF FindFile
    <3> QED BY <1>5, <3>1, <3>2, <3>3, <3>4 DEF IInv, Progress
  <2>4. ASSUME EndFind PROVE Progress'
    BY <1>5, <2>4 DEF EndFind, IInv, Progress
  <2>5. ASSUME NEW e \in todo, sv_sync_uploadone(e) PROVE Progress'
    <3>1. CASE e.file \in DOMAIN ready
      <4>1. /\ pc = "upload" /\ pc' = "awscli" /\ cur'.file = e.file
            /\ cur'.raced = FALSE /\ cur'.lmt = 0
            /\ todo' = todo \ {e}
            /\ UNCHANGED <<ready, vault, changed, unshown, failed>>
        BY <2>5, <3>1, NoneTyped DEF sv_sync_uploadone, Upload, NoUpload
      <4> QED BY <1>5, <4>1 DEF IInv, Progress
    <3>2. CASE e.file \notin DOMAIN ready
      <4>1. /\ pc = "upload" /\ pc' = "upload" /\ todo' = todo \ {e}
            /\ failed \subseteq failed' /\ UNCHANGED <<ready, vault, changed, unshown>>
        BY <2>5, <3>2 DEF sv_sync_uploadone
      <4> QED BY <1>5, <3>2, <4>1 DEF IInv, Progress
    <3> QED BY <3>1, <3>2
  <2>6. ASSUME EndUpload PROVE Progress'
    BY <1>5, <2>6 DEF EndUpload, IInv, Progress
  <2>7. ASSUME EndSync PROVE Progress'
    BY <2>7 DEF EndSync, BackToMenu, Progress
  <2>8. ASSUME NEW f \in File, SkipFile(f) PROVE Progress'
    <3>1. /\ pc = "find" /\ pc' = "find" /\ unseen' = unseen \ {f}
          /\ unshown' = unshown \cup ({f} \ Queued)
          /\ UNCHANGED <<ready, vault, todo, cur, changed, failed>>
      BY <2>8 DEF SkipFile
    <3> QED BY <1>5, <3>1 DEF IInv, Progress, Queued
  <2>9. ASSUME ListAgain PROVE Progress'
    <3>1. /\ pc = "find" /\ pc' = "find" /\ unseen' = File
          /\ UNCHANGED <<ready, vault, unshown, todo, cur, changed, failed>>
      BY <2>9 DEF ListAgain
    <3> QED BY <1>4, <1>5, <3>1 DEF IInv, Progress
  <2>10. ASSUME GiveUp PROVE Progress'
    <3>1. /\ pc = "find" /\ pc' = "find"
          /\ unshown' = unshown \cup ((unseen \cap DOMAIN ready) \ Queued)
          /\ UNCHANGED <<ready, vault, todo, cur, changed, failed>>
      BY <2>10 DEF GiveUp
    <3> QED BY <1>5, <3>1 DEF IInv, Progress, Queued
  <2> QED BY <2>1, <2>2, <2>3, <2>4, <2>5, <2>6, <2>7, <2>8, <2>9, <2>10
<1>7. Pending'
  <2>1. ASSUME NEW v \in Vault, sv_sync_newvault(v) \/ sv_sync_main(v) PROVE Pending'
    <3>1. pc = "menu" /\ pc' # "awscli" /\ todo' = todo
      BY <2>1 DEF sv_sync_newvault, sv_sync_main
    <3> QED BY <3>1 DEF IInv, Pending
  <2>2. ASSUME NEW f \in File, FindFile(f) PROVE Pending'
    <3>1. /\ pc = "find" /\ pc' = "find" /\ again \subseteq again'
          /\ UNCHANGED <<ready, vault, changed>>
      BY <2>2 DEF FindFile
    <3> DEFINE new == [file |-> f, size |-> Size[ready[f].data], attempt |-> attempt]
    <3>2. CASE todo' = todo
      BY <1>5, <3>1, <3>2 DEF IInv, Pending
    <3>3. CASE todo' # todo
      <4>1. /\ f \in DOMAIN ready /\ isdirty(f, vault)
            /\ todo' = todo \cup {new} /\ (f \in Queued => f \in again')
        BY <2>2, <3>3 DEF FindFile
      <4>2. new.file = f
        OBVIOUS
      <4> HIDE DEF new
      <4>3. \A e \in todo' : \A o \in todo' :
               o.file = e.file => o = e \/ e.file \in again'
        <5>1. \A e \in todo : e.file = f => f \in again'
          BY <4>1 DEF Queued
        <5>2. \A e \in todo, o \in todo :
                 o.file = e.file => o = e \/ e.file \in again
          BY DEF IInv, Pending
        <5> QED BY <3>1, <4>1, <4>2, <5>1, <5>2
      <4>4. \A e \in todo' : e.file \in DOMAIN ready' \ (changed' \cup again') =>
                isdirty(e.file, vault)'
        BY <1>5, <3>1, <4>1, <4>2 DEF IInv, Pending
      <4> QED BY <3>1, <4>3, <4>4 DEF Pending
    <3> QED BY <3>2, <3>3
  <2>3. ASSUME EndFind \/ EndUpload PROVE Pending'
    <3>1. /\ todo' \subseteq todo
          /\ pc' = "done" => todo' = {}
          /\ pc' \in {"upload", "done"} /\ UNCHANGED <<ready, vault, changed, again>>
      BY <2>3 DEF EndFind, EndUpload
    <3> QED BY <1>5, <3>1 DEF IInv, Pending
  <2>4. ASSUME NEW e \in todo, sv_sync_uploadone(e) PROVE Pending'
    <3>1. /\ todo' = todo \ {e} /\ UNCHANGED <<ready, vault, changed, again>>
          /\ pc' \in {"upload", "awscli"}
          /\ pc' = "awscli" => cur'.file = e.file
      BY <2>4, NoneTyped DEF sv_sync_uploadone, Upload
    <3> QED BY <1>5, <3>1 DEF IInv, Pending
  <2>5. ASSUME EndSync PROVE Pending'
    BY <2>5 DEF EndSync, BackToMenu, Pending
  <2>6. ASSUME NEW f \in File, SkipFile(f) PROVE Pending'
    <3>1. /\ pc = "find" /\ pc' = "find"
          /\ UNCHANGED <<ready, vault, todo, changed, again>>
      BY <2>6 DEF SkipFile
    <3> QED BY <1>5, <3>1 DEF IInv, Pending
  <2>7. ASSUME ListAgain \/ GiveUp PROVE Pending'
    <3>1. /\ pc = "find" /\ pc' = "find"
          /\ UNCHANGED <<ready, vault, todo, changed, again>>
      BY <2>7 DEF ListAgain, GiveUp
    <3> QED BY <1>5, <3>1 DEF IInv, Pending
  <2> QED BY <2>1, <2>2, <2>3, <2>4, <2>5, <2>6, <2>7
<1>8. Listing'
  <2>1. ASSUME NEW v \in Vault, sv_sync_newvault(v) PROVE Listing'
    BY <2>1 DEF sv_sync_newvault, IInv, Listing, Queued
  <2>2. ASSUME NEW v \in Vault, sv_sync_main(v) PROVE Listing'
    BY <2>2 DEF sv_sync_main, IInv, Pending, Listing, Queued
  <2>3. ASSUME NEW f \in File, FindFile(f) PROVE Listing'
    <3>1. /\ pc = "find" /\ pc' = "find" /\ f \in unseen /\ unseen' = unseen \ {f}
          /\ unshown' = unshown \ {f} /\ attempt' = attempt
          /\ again' \subseteq again \cup ({f} \cap Queued)
      BY <2>3 DEF FindFile
    <3>2. Queued' \subseteq Queued \cup {f}
      BY <2>3 DEF FindFile, Queued
    <3> QED BY <3>1, <3>2 DEF IInv, Listing
  <2>4. ASSUME NEW f \in File, SkipFile(f) PROVE Listing'
    BY <2>4 DEF SkipFile, IInv, Listing, Queued
  <2>5. ASSUME ListAgain PROVE Listing'
    <3>1. /\ "list_fails" \in Events /\ pc' = "find" /\ attempt' = attempt + 1
          /\ attempt \in Nat /\ attempt >= 1
      BY <2>5, TriesType DEF ListAgain, TypeOK, IInv, Listing
    <3> QED BY <3>1 DEF Listing
  <2>6. ASSUME GiveUp PROVE Listing'
    BY <2>6 DEF GiveUp, IInv, Listing, Queued
  <2>7. CASE EndFind \/ EndUpload \/ \E e \in todo : sv_sync_uploadone(e)
    <3>1. pc' \notin {"menu", "find"} /\ UNCHANGED <<again, unshown>>
      BY <2>7 DEF EndFind, EndUpload, sv_sync_uploadone
    <3> QED BY <3>1 DEF IInv, Listing
  <2>8. CASE EndSync
    BY <2>8 DEF EndSync, BackToMenu, Listing
  <2> QED BY <2>1, <2>2, <2>3, <2>4, <2>5, <2>6, <2>7, <2>8
<1> QED BY <1>1, <1>3, <1>6, <1>7, <1>8, StillTrue DEF IInv

\* Storing a new archive keeps every record true.
LEMMA MoreCloud ==
    ASSUME IInv, UNCHANGED <<fileVars, rows, copy>>, cloud \subseteq cloud'
    PROVE  TrueTable(rows)' /\ TrueTable(copy.rows)' /\ Versions'
<1>1. TrueTable(rows)' /\ TrueTable(copy.rows)'
  BY CloudGrows DEF IInv, TrueTable
<1>2. Versions'
  BY DEF fileVars, IInv, Versions, Stamped, SameVersion
<1> QED BY <1>1, <1>2

\* The upload of one file, whatever becomes of it.
LEMMA UploadIInv ==
    ASSUME TypeOK, IInv, UploadOk \/ UploadFail \/ UploadLost
    PROVE  IInv'
<1> USE DEF tableVars, fileVars, walkVars
<1>1. /\ UNCHANGED <<ready, away, clock, rows, copy, vault, walkVars, todo>>
      /\ cloud \subseteq cloud' /\ pc = "awscli"
  BY DEF UploadOk, UploadFail, UploadLost
<1>2. TrueTable(rows)' /\ TrueTable(copy.rows)' /\ Versions'
  BY <1>1, MoreCloud
<1>3. \A f \in DOMAIN ready :
           /\ InCloud(f, vault) => InCloud(f, vault)'
           /\ Raced(f, vault) => Raced(f, vault)'
           /\ isdirty(f, vault) => isdirty(f, vault)'
  BY <1>1 DEF InCloud, Raced, isdirty, svdb_vaultarchives_bypath
<1>4. CASE UploadOk
  <2>1. /\ pc' = "crc" /\ cur.file \in DOMAIN ready /\ cur'.file = cur.file
        /\ cur'.id = Stored.id /\ cur'.lmt = cur.lmt /\ Stored \in cloud'
        /\ UNCHANGED <<changed, failed>>
    BY <1>4 DEF UploadOk, TypeOK, Upload
  <2>2. /\ Stored.vault = vault /\ Stored.file = cur.file
        /\ Stored.data = ready[cur.file].data
    BY DEF Stored
  <2>3. ~ cur.raced /\ ~ cur'.raced /\ cur.lmt = 0
    BY <1>1, <1>4 DEF IInv, Progress, UploadOk, TypeOK, Upload
  <2>4. Marking'
    BY <1>1, <2>1, <2>2, <2>3 DEF TypeOK, Marking
  <2>5. InCloud(cur.file, vault)'
    BY <1>1, <2>1, <2>2 DEF InCloud
  <2>6. Progress'
    BY <1>1, <1>3, <2>1, <2>3, <2>5 DEF IInv, Progress
  <2>7. Pending'
    BY <1>1, <1>3, <2>1 DEF IInv, Pending
  <2>8. Listing'
    BY <1>1, <2>1 DEF IInv, Listing
  <2> QED BY <1>2, <2>4, <2>6, <2>7, <2>8 DEF IInv
<1>5. CASE UploadFail \/ UploadLost
  <2>1. /\ pc' = "upload" /\ failed' = failed \cup {cur.file}
        /\ changed' = changed
    BY <1>5 DEF UploadFail, UploadLost, AfterFailure
  <2>2. Progress'
    BY <1>1, <1>3, <2>1 DEF IInv, Progress
  <2>3. Marking' /\ Pending' /\ Listing'
    BY <1>1, <1>3, <2>1 DEF IInv, Marking, Pending, Listing
  <2> QED BY <1>2, <2>2, <2>3 DEF IInv
<1> QED BY <1>4, <1>5

\* Recording the upload: the checksum and the time read are those of the
\* contents uploaded, unless the file has changed.
LEMMA MarkIInv ==
    ASSUME TypeOK, IInv, MarkCrc \/ MarkDelete \/ MarkInsert
    PROVE  IInv'
<1> USE DEF tableVars, fileVars, walkVars
<1>1. UNCHANGED <<ready, away, clock, copy, cloud, vault, walkVars, todo, changed, failed>>
  BY DEF MarkCrc, MarkDelete, MarkInsert
<1>2. pc \in {"crc", "mark", "insert"} /\ pc' \in {"mark", "insert", "upload"}
  BY DEF MarkCrc, MarkDelete, MarkInsert
<1>3. PICK a \in cloud :
        /\ a.id = cur.id /\ a.vault = vault /\ a.file = cur.file
        /\ cur.lmt <= clock
        /\ ~ cur.raced =>
            /\ cur.file \in DOMAIN ready /\ a.data = ready[cur.file].data
            /\ pc # "crc" => cur.crc = ready[cur.file].data
            /\ pc = "insert" => cur.lmt = ready[cur.file].lmt
  BY <1>2 DEF IInv, Marking
<1>4. TrueTable(copy.rows)'
  BY <1>1 DEF IInv, TrueTable
<1>5. \/ UNCHANGED rows
      \/ rows' = Drop(rows, <<vault, cur.file>>)
      \/ \E r : rows' = Put(rows, <<vault, cur.file>>, r)
  BY DEF MarkCrc, MarkDelete, MarkInsert
<1>6. \A f \in DOMAIN ready : f # cur.file =>
        /\ Raced(f, vault) => Raced(f, vault)'
        /\ isdirty(f, vault) => isdirty(f, vault)'
  <2> SUFFICES ASSUME NEW f \in DOMAIN ready, f # cur.file
               PROVE  /\ Raced(f, vault) => Raced(f, vault)'
                      /\ isdirty(f, vault) => isdirty(f, vault)'
    OBVIOUS
  <2>1. svdb_vaultarchives_bypath(f, vault)' = svdb_vaultarchives_bypath(f, vault)
    <3>1. <<vault, f>> # <<vault, cur.file>>
      OBVIOUS
    <3>2. /\ <<vault, f>> \in DOMAIN rows' <=> <<vault, f>> \in DOMAIN rows
          /\ <<vault, f>> \in DOMAIN rows => rows'[<<vault, f>>] = rows[<<vault, f>>]
      BY <1>5, <3>1 DEF Drop, Restrict, Put
    <3> QED BY <1>1, <3>2 DEF svdb_vaultarchives_bypath
  <2> QED BY <1>1, <2>1 DEF Raced, isdirty
<1>7. cur.file \in DOMAIN ready => InCloud(cur.file, vault) \/ cur.file \in changed
  BY <1>2, <1>3 DEF IInv, Progress, InCloud
<1>8. pc' # "upload" => cur'.file = cur.file /\ cur'.raced = cur.raced /\ cur'.id = cur.id
  BY DEF MarkCrc, MarkDelete, MarkInsert, TypeOK, Upload
<1>9. Progress'
  <2>1. \A f \in DOMAIN ready : InCloud(f, vault) => InCloud(f, vault)'
    BY <1>1 DEF InCloud
  <2> QED BY <1>1, <1>2, <1>6, <1>7, <1>8, <2>1 DEF IInv, Progress
<1>10. Pending' /\ Listing'
  BY <1>1, <1>2, <1>6, <1>8 DEF IInv, Pending, Listing
<1>11. CASE MarkCrc
  <2>1. /\ pc = "crc" /\ pc' = "mark" /\ cur'.lmt = cur.lmt
        /\ cur'.crc = ready[cur.file].data /\ rows' = rows
    BY <1>11 DEF MarkCrc, TypeOK, Upload
  <2>2. Marking'
    BY <1>1, <1>3, <1>8, <2>1 DEF Marking
  <2> QED BY <1>1, <1>9, <1>10, <2>1, <2>2, StillTrue DEF IInv
<1>12. CASE MarkDelete
  <2>1. /\ pc = "mark" /\ pc' = "insert" /\ cur'.crc = cur.crc
        /\ rows' = Drop(rows, <<vault, cur.file>>)
        /\ cur'.lmt = IF cur.file \in DOMAIN ready THEN ready[cur.file].lmt ELSE 0
    BY <1>12 DEF MarkDelete, TypeOK, Upload
  <2>2. cur'.lmt <= clock
    <3>1. clock \in Nat /\ Stamped(ready)
      BY DEF TypeOK, IInv, Versions
    <3> QED BY <2>1, <3>1 DEF Stamped
  <2>3. Marking'
    BY <1>1, <1>3, <1>8, <2>1, <2>2 DEF Marking
  <2>4. TrueTable(rows)'
    BY <1>1, <2>1 DEF IInv, TrueTable, Drop, Restrict
  <2>5. Versions'
    BY <1>1, <2>1 DEF IInv, Versions, Stamped, SameVersion, Drop, Restrict
  <2> QED BY <1>4, <1>9, <1>10, <2>3, <2>4, <2>5 DEF IInv
<1>13. CASE MarkInsert
  <2> DEFINE k == <<vault, cur.file>>
             r == [id |-> cur.id, size |-> cur.size, crc |-> cur.crc, lmt |-> cur.lmt,
                   raced |-> cur.raced]
  <2>1. pc = "insert" /\ pc' = "upload" /\ rows' = Put(rows, k, r)
    BY <1>13 DEF MarkInsert
  <2>2. /\ r.lmt <= clock
        /\ a.id = r.id /\ <<a.vault, a.file>> = k
        /\ ~ r.raced => /\ cur.file \in DOMAIN ready /\ r.lmt = ready[cur.file].lmt
                        /\ r.crc = ready[cur.file].data /\ a.data = r.crc
    BY <1>3, <2>1
  <2>3. k[2] = cur.file
    OBVIOUS
  <2> HIDE DEF k, r
  <2>4. Marking'
    BY <2>1 DEF Marking
  <2>5. TrueTable(rows)'
    BY <1>1, <2>1, <2>2 DEF IInv, TrueTable, Put
  <2>6. SameVersion(ready, rows)'
    BY <1>1, <2>1, <2>2, <2>3 DEF IInv, Versions, Stamped, SameVersion, Put
  <2>7. SameVersion(away, rows)'
    BY <1>1, <2>1, <2>2, <2>3 DEF IInv, Versions, Stamped, SameVersion, Put
  <2>8. Versions'
    BY <1>1, <2>6, <2>7 DEF IInv, Versions, Stamped, SameVersion
  <2> QED BY <1>4, <1>9, <1>10, <2>4, <2>5, <2>8 DEF IInv
<1> QED BY <1>11, <1>12, <1>13

LEMMA AbortIInv ==
    ASSUME IInv, Abort
    PROVE  IInv'
<1>1. /\ UNCHANGED <<fileVars, rows, copy, cloud>> /\ pc' = "menu"
      /\ failed' = {} /\ todo' = {} /\ again' = {} /\ unshown' = {}
  BY DEF Abort, BackToMenu, tableVars
<1> QED BY <1>1, StillTrue DEF IInv, Marking, Progress, Pending, Listing

\* IInv is an invariant, whatever goes wrong and whoever changes files when.
THEOREM CloudInductive == Spec => []IInv
<1>1. TypeOK /\ IInv /\ [Next]_vars => IInv'
  <2> SUFFICES ASSUME TypeOK, IInv, [Next]_vars PROVE IInv'
    OBVIOUS
  <2>1. CASE UserStep
    BY <2>1, UserIInv
  <2>2. CASE SyncStep
    BY <2>2, FindIInv, UploadIInv, MarkIInv DEF SyncStep
  <2>3. CASE Abort
    BY <2>3, AbortIInv
  <2>4. CASE UNCHANGED vars
    BY <2>4, StillTrue DEF vars, fileVars, IInv, Marking, Progress, Pending, Listing,
                           Queued, InCloud, Raced, isdirty, svdb_vaultarchives_bypath
  <2> QED BY <2>1, <2>2, <2>3, <2>4 DEF Next
<1> QED BY <1>1, InitIInv, CloudTypes, PTL DEF Spec

\* What the next sync will skip is in the vault with its present contents, after
\* failed uploads, lost answers, kills at any point, old indexes and changes of
\* files at any other moment than between their upload and its recording.
THEOREM CleanUploaded == Spec => []CleanIsUploaded
<1>1. TypeOK /\ IInv => CleanIsUploaded
  BY CleanByRecord DEF IInv, CleanIsUploaded, TypeOK
<1> QED BY <1>1, CloudTypes, CloudInductive, PTL

\* Every record names an archive of its vault and path.
THEOREM CloudRowsTrue == Spec => []RowsTrue
<1>1. IInv => RowsTrue
  BY DEF IInv, RowsTrue
<1> QED BY <1>1, CloudInductive, PTL

\* "Sync complete." is true of every file that nobody touched meanwhile, that was
\* not left out by the walk, and whose failure the user was not shown.
THEOREM CompleteIsComplete == Spec => []SyncComplete
<1>1. IInv => SyncComplete
  BY DEF IInv, Progress, Unuploaded, SyncComplete
<1> QED BY <1>1, CloudInductive, PTL

\* Failed listings and stats, and links, are the only reasons for which files are
\* missing from the vault without a word to the user.
THEOREM OnlyTheWalkOmits ==
    ASSUME Events \cap {"list_fails", "no_stat"} = {}
    PROVE  Spec => []OmissionsShown
<1>1. IInv => OmissionsShown
  BY DEF IInv, Listing, Progress, Unuploaded, OmissionsShown
<1> QED BY <1>1, CloudInductive, PTL

\* An upload stores contents that are not on record for the path and vault, unless
\* the file has changed or was listed again.
LEMMA StoresNew ==
    ASSUME TypeOK, IInv, Next, NEW a \in cloud' \ cloud
    PROVE  a.file \in changed \cup again \/ ~ Recorded(a)
<1>1. CASE UNCHANGED cloud
  BY <1>1
<1>2. CASE UploadOk \/ UploadLost
  <2>1. /\ pc = "awscli" /\ cur.file \in DOMAIN ready
        /\ cloud' = cloud \cup {Stored}
    BY <1>2 DEF UploadOk, UploadLost
  <2>2. /\ Stored.vault = vault /\ Stored.file = cur.file
        /\ Stored.data = ready[cur.file].data
    BY DEF Stored
  <2>3. cur.file \in changed \cup again \/ isdirty(cur.file, vault)
    BY <2>1 DEF IInv, Pending
  <2> QED BY <2>1, <2>2, <2>3 DEF isdirty, svdb_vaultarchives_bypath, Recorded
<1>3. Next => UNCHANGED cloud \/ UploadOk \/ UploadLost
  BY DEF Next, UserStep, SyncStep, Abort, BackToMenu, WriteFile, EvictFile, FetchFile,
         CopyIndex, RecoverIndex, sv_sync_newvault, sv_sync_main, FindFile, SkipFile,
         ListAgain, GiveUp, EndFind, sv_sync_uploadone, UploadFail, MarkCrc, MarkDelete,
         MarkInsert, EndUpload, EndSync
<1> QED BY <1>1, <1>2, <1>3

\* Contents on record for a path and vault are not uploaded there again, unless the
\* file has changed or its directory was listed again.
THEOREM UploadedOnce == Spec => NoRedundantUpload
<1>1. TypeOK /\ IInv /\ [Next]_vars =>
         [\A a \in cloud' \ cloud :
             a.file \in changed \cup again \/ ~ Recorded(a)]_vars
  BY StoresNew
<1> QED BY <1>1, CloudTypes, CloudInductive, PTL DEF Spec, NoRedundantUpload

\* A second listing of the directory is the only reason why an unchanged file that
\* is on record is stored again.
THEOREM OnlyListingsRepeat ==
    ASSUME "list_fails" \notin Events
    PROVE  Spec => NoSecondArchive
<1>1. TypeOK /\ IInv /\ [Next]_vars =>
         [\A a \in cloud' \ cloud : a.file \in changed \/ ~ Recorded(a)]_vars
  BY StoresNew DEF IInv, Listing
<1> QED BY <1>1, CloudTypes, CloudInductive, PTL DEF Spec, NoSecondArchive
=============================================================================
