------------------------------- MODULE IndexDb -------------------------------
(***************************************************************************)
(* The SQLite index of a backup group: the queries of dbaccess.c as        *)
(* operators on a database value.  A table is a partial function from its  *)
(* key to a row, so "no row" is "not in the domain".                       *)
(*                                                                         *)
(*   files     TblFilesList, by path.  contents 0 = nothing archived yet;  *)
(*             mrc and complete are the two halves of Status               *)
(*             (sv_makestatus).                                            *)
(*   contents  TblContentsList, by ContentsId.  arc is ArchiveId, the pair *)
(*             (original collection, archive number).                      *)
(*   archives  TblArchives: the checksum rows.  A tar's checksum is        *)
(*             modelled by the tar's members; a "no_longer_needed" row has *)
(*             needed = FALSE.                                             *)
(*   coll      the newest CollectionId; next the next ContentsId.  Both    *)
(*             are AUTOINCREMENT, and both roll back with a transaction.   *)
(***************************************************************************)
EXTENDS AudioHash, Functions

CONSTANTS Path      \* paths of files that may be backed up

\* A partial function from K to V.
IsPartial(f, K, V) == /\ DOMAIN f \subseteq K
                      /\ f \in [DOMAIN f -> V]

Put(f, k, v) == [x \in DOMAIN f \cup {k} |-> IF x = k THEN v ELSE f[x]]

Drop(f, S) == Restrict(f, DOMAIN f \ S)

EmptyFcn == [x \in {} |-> 0]

ArchiveId == Nat \X Nat

\* A tar in readytoupload or staging: contents id |-> bytes archived under it.
IsTar(t) == IsPartial(t, Nat, Data)

sv_file_row == [contents : Nat, len : Nat, lmt : Nat, mrc : Nat,
                complete : BOOLEAN]

sv_content_row == [hash : Hash, len : Nat, arc : ArchiveId, last : Nat]

EmptyDb == [files |-> EmptyFcn, contents |-> EmptyFcn, archives |-> {},
            coll |-> 0, next |-> 1]

IsDb(d) ==
    /\ d = [files |-> d.files, contents |-> d.contents,
            archives |-> d.archives, coll |-> d.coll, next |-> d.next]
    /\ IsPartial(d.files, Path, sv_file_row)
    /\ IsPartial(d.contents, Nat, sv_content_row)
    /\ \A r \in d.archives :
         /\ r = [arc |-> r.arc, needed |-> r.needed, sum |-> r.sum]
         /\ r.arc \in ArchiveId
         /\ r.needed \in BOOLEAN
         /\ IsTar(r.sum)
    /\ d.coll \in Nat
    /\ d.next \in Nat

-----------------------------------------------------------------------------
svdb_collectioninsert(d) == [d EXCEPT !.coll = @ + 1]

\* Fault: the collection of a new row is off by one and wraps.
svdb_filesinsert_underflow(d, p, collection) ==
    [d EXCEPT !.files = Put(@, p, [contents |-> 0, len |-> 0, lmt |-> 0,
                                   mrc |-> collection - 1, complete |-> FALSE])]

svdb_filesinsert(d, p, collection) ==
    [d EXCEPT !.files = Put(@, p, [contents |-> 0, len |-> 0, lmt |-> 0,
                                   mrc |-> collection, complete |-> FALSE])]

svdb_filesupdate(d, p, row) == [d EXCEPT !.files = Put(@, p, row)]

svdb_files_delete(d, paths) == [d EXCEPT !.files = Drop(@, paths)]

\* The rows the queue pass visits: Status < makestatus(collection, complete).
svdb_files_iter(d, collection) ==
    {p \in DOMAIN d.files : \/ d.files[p].mrc < collection
                            \/ /\ d.files[p].mrc = collection
                               /\ ~ d.files[p].complete}

\* Fault: the lookup never finds anything.
svdb_contentsbyhash_none(d, hash, len) == {}

\* Fault: the lookup is by length only.
svdb_contentsbyhash_length(d, hash, len) ==
    {c \in DOMAIN d.contents : d.contents[c].len = len}

\* Rows for these contents; the query takes any one of them (LIMIT 1).
svdb_contentsbyhash(d, hash, len) ==
    {c \in DOMAIN d.contents : /\ d.contents[c].hash = hash
                               /\ d.contents[c].len = len}

\* Reserves d.next; the zero-filled row it inserts is overwritten by
\* svdb_contentsupdate before any query of the same transaction can see it.
svdb_contentsinsert(d) == [d EXCEPT !.next = @ + 1]

svdb_contentsupdate(d, c, row) == [d EXCEPT !.contents = Put(@, c, row)]

\* Fault: the contents are not marked as used.
svdb_contents_setlastreferenced_lost(d, c, collection) == d

\* The statement fails when there is no such row (expectchanges): an action
\* that uses it has c \in DOMAIN d.contents as a guard.
svdb_contents_setlastreferenced(d, c, collection) ==
    [d EXCEPT !.contents = [@ EXCEPT ![c].last = collection]]

\* Fault: the rows stay.
svdb_contents_bulk_delete_lost(d, ids) == d

svdb_contents_bulk_delete(d, ids) == [d EXCEPT !.contents = Drop(@, ids)]

svdb_archives_write_checksum(d, row) == [d EXCEPT !.archives = @ \cup {row}]

write_archive_checksum(d, arc, needed, tar) ==
    svdb_archives_write_checksum(d, [arc |-> arc, needed |-> needed, sum |-> tar])

\* The rows of one archive.
svdb_archives_get_checksums(d, arc) == {r \in d.archives : r.arc = arc}

archive_needed(d, arc) == \A r \in svdb_archives_get_checksums(d, arc) : r.needed

\* Any of the recorded checksums will do: of the archive as it was made, or as a
\* compaction left it.
verify_archive_checksum(d, arc, tar) ==
    \E r \in svdb_archives_get_checksums(d, arc) : r.needed /\ r.sum = tar

\* The needed archives the verification warns of: not present, or not matching.
sv_verify_archives(d, tars) ==
    {arc \in {r.arc : r \in d.archives} :
        /\ archive_needed(d, arc)
        /\ arc \in DOMAIN tars => ~ verify_archive_checksum(d, arc, tars[arc])}
=============================================================================
