------------------------------ MODULE ArManager ------------------------------
(***************************************************************************)
(* ar_manager (util_archiver.c) in one backup: which archive a content     *)
(* goes to, the sizes and names kept to verify the archive by, the list    *)
(* filenames.txt, and what becomes of them when tar is run again after a   *)
(* failure or reads a file that has changed since it was measured.         *)
(* BackupStore leaves the choice of the archive open and takes the tar to  *)
(* hold what was added; this module is the detail behind both.             *)
(***************************************************************************)
EXTENDS Naturals, SequencesExt

CONSTANTS
    Id,                   \* contents ids, as they are inserted
    Compressed,           \* those that xz compresses, the others are added as they are
    Sizes,                \* what ar_manager_add may find as compressed size
    Overhead,             \* what a tar adds to each member
    target_archive_size,
    limitperarchive,
    max_tries,
    Mishaps               \* the sets of events that may happen together, see Event

Event == {"changed",    \* a file added uncompressed changes before tar reads it
          "retry",      \* tar has appended the member and reports a failure
          "bad_xz",     \* xz writes a part of its output and returns 1, a success
          "leftover"}   \* a killed backup has left archives in staging

ASSUME IdType == Id \subseteq Nat \ {0} /\ Compressed \subseteq Id
ASSUME SizeType == Sizes \subseteq Nat \ {0}
ASSUME BoundType == /\ Overhead \in Nat /\ target_archive_size \in Nat
                    /\ limitperarchive \in Nat /\ max_tries \in Nat \ {0}
ASSUME EventType == Mishaps \subseteq SUBSET Event

VARIABLES
    may,                  \* the events of this behaviour, never changed
    pc,
    staging,              \* archive number |-> tar
    ready,                \* archives of this collection in readytoupload
    currentarchivenum,
    current,              \* current_names and current_sizes
    namestextfile,        \* ids written to filenames.txt so far
    adding,               \* the content being added
    tries,                \* attempts of os_tryuntil_run
    placed                \* archive number and size returned for each content

workVars == <<staging, currentarchivenum, current, namestextfile>>
vars == <<may, pc, staging, ready, currentarchivenum, current, namestextfile, adding,
          tries, placed>>

\* A tar: its members in order, and the filenames.txt it ends with.
Member == [id : Id, size : Nat, whole : BOOLEAN]
Tar == [members : Seq(Member), names : Seq(Id)]
EmptyTar == [members |-> <<>>, names |-> <<>>]
EmptyFcn == [x \in {} |-> x]
Put(f, x, y) == [z \in DOMAIN f \cup {x} |-> IF z = x THEN y ELSE f[z]]

IsTars(t) == DOMAIN t \subseteq Nat /\ t \in [DOMAIN t -> Tar]

TypeOK ==
    /\ may \in Mishaps
    /\ pc \in {"begin", "open", "append", "done", "failed"}
    /\ IsTars(staging) /\ IsTars(ready)
    /\ currentarchivenum \in Nat
    /\ current \in Seq(Member) /\ namestextfile \in Seq(Id)
    /\ adding \in Seq(Member) /\ tries \in 0..max_tries
    /\ DOMAIN placed \subseteq Id
    /\ placed \in [DOMAIN placed -> [num : Nat, size : Nat]]

Init ==
    /\ may \in Mishaps
    /\ pc = "begin"
    /\ \/ staging = EmptyFcn
       \/ /\ "leftover" \in may
          /\ \E i \in Id, s \in Sizes :
               staging = Put(EmptyFcn, 1,
                             [members |-> <<[id |-> i, size |-> s, whole |-> TRUE]>>,
                              names |-> <<>>])
    /\ ready = EmptyFcn
    /\ currentarchivenum = 0
    /\ current = <<>> /\ namestextfile = <<>>
    /\ adding = <<>> /\ tries = 0
    /\ placed = EmptyFcn

-----------------------------------------------------------------------------

\* Fault: what a killed backup left in staging stays there.
ar_manager_begin_keep ==
    /\ pc = "begin"
    /\ pc' = "open"
    /\ currentarchivenum' = 1
    /\ UNCHANGED <<may, staging, ready, current, namestextfile, adding, tries, placed>>

\* Staging is emptied; the first advance closes nothing and starts archive 1.
ar_manager_begin ==
    /\ pc = "begin"
    /\ pc' = "open"
    /\ staging' = EmptyFcn
    /\ currentarchivenum' = 1
    /\ UNCHANGED <<may, ready, current, namestextfile, adding, tries, placed>>

\* The tar under the current name; os_getfilesize is 0 when there is none.
CurrentTar == IF currentarchivenum \in DOMAIN staging
              THEN staging[currentarchivenum] ELSE EmptyTar
TarSize(members) == FoldLeft(LAMBDA total, m : total + m.size + Overhead, 0, members)
archivesize == TarSize(CurrentTar.members)

\* ar_util_verify looks in the listing of the tar, from where the last name was
\* found, for the next size and from there for the next name.  The result is the
\* first line not yet passed, or 0 when something is not found.
VerifyNext(members, line, m) ==
    LET sizeAt == {l \in line..Len(members) : members[l].size = m.size}
        nameAt == {l \in Min(sizeAt)..Len(members) : members[l].id = m.id}
    IN  IF line = 0 \/ sizeAt = {} \/ nameAt = {} THEN 0 ELSE Min(nameAt) + 1

\* Fault: the sizes are not looked for.
ar_util_verify_names ==
    FoldLeft(LAMBDA line, m :
               LET nameAt == {l \in line..Len(CurrentTar.members) :
                                CurrentTar.members[l].id = m.id}
               IN  IF line = 0 \/ nameAt = {} THEN 0 ELSE Min(nameAt) + 1,
             1, current) # 0

ar_util_verify ==
    FoldLeft(LAMBDA line, m : VerifyNext(CurrentTar.members, line, m), 1, current) # 0

\* Fault: filenames.txt is not started again.
ar_manager_advance_samelist ==
    /\ currentarchivenum' = currentarchivenum + 1
    /\ current' = <<>>
    /\ staging' = IF current = <<>> THEN staging
                  ELSE Put(staging, currentarchivenum,
                           [CurrentTar EXCEPT !.names = namestextfile])
    /\ UNCHANGED namestextfile

\* Close the archive with filenames.txt, unless nothing was added to it, and
\* start the next.
ar_manager_advance_to_next ==
    /\ currentarchivenum' = currentarchivenum + 1
    /\ current' = <<>>
    /\ namestextfile' = <<>>
    /\ staging' = IF current = <<>> THEN staging
                  ELSE Put(staging, currentarchivenum,
                           [CurrentTar EXCEPT !.names = namestextfile])

\* Fault: only the size so far is compared.
MustAdvance_after(s) == archivesize > target_archive_size \/ Len(current) > limitperarchive

MustAdvance(s) == \/ archivesize + s > target_archive_size
                  \/ Len(current) > limitperarchive

\* Fault: the exit code of xz is believed.
ar_util_xz_verify_none(whole) == TRUE

\* The new .xz file is tested before it is used.
ar_util_xz_verify(whole) == whole

MayCompress(i, whole) == ~ whole => "bad_xz" \in may /\ i \in Compressed

\* The first half of ar_manager_add: compress, measure, and make room.
ar_manager_add(i, s, whole) ==
    /\ pc = "open"
    /\ i \notin DOMAIN placed
    /\ MayCompress(i, whole)
    /\ ar_util_xz_verify(whole)
    /\ IF MustAdvance(s)
       THEN IF ar_util_verify
            THEN ar_manager_advance_to_next /\ pc' = "append"
            ELSE pc' = "failed" /\ UNCHANGED workVars
       ELSE pc' = "append" /\ UNCHANGED workVars
    /\ adding' = <<[id |-> i, size |-> s, whole |-> whole]>>
    /\ tries' = 0
    /\ UNCHANGED <<may, ready, placed>>

\* xz never succeeds, or the test rejects what it has written.
CompressFails(i, whole) ==
    /\ pc = "open"
    /\ i \notin DOMAIN placed
    /\ MayCompress(i, whole)
    /\ ~ ar_util_xz_verify(whole)
    /\ pc' = "failed"
    /\ UNCHANGED <<may, staging, ready, currentarchivenum, current, namestextfile,
                   adding, tries, placed>>

\* tar --append opens the file: the .xz file of the working directory, or the
\* user's file once more.
Appended(s) ==
    Put(staging, currentarchivenum,
        [CurrentTar EXCEPT !.members = Append(@, [adding[1] EXCEPT !.size = s])])
SizeRead(s) == \/ s = adding[1].size
               \/ "changed" \in may /\ s \in Sizes /\ adding[1].id \notin Compressed

\* The second half: tar is run, and the caller is told where the content is.
AddToTar(s) ==
    /\ pc = "append"
    /\ SizeRead(s)
    /\ staging' = Appended(s)
    /\ current' = Append(current, adding[1])
    /\ namestextfile' = Append(namestextfile, adding[1].id)
    /\ placed' = Put(placed, adding[1].id,
                     [num |-> currentarchivenum, size |-> adding[1].size])
    /\ pc' = "open"
    /\ UNCHANGED <<may, ready, currentarchivenum, adding, tries>>

\* Fault: one attempt more than max_tries.
AddToTarFails_once_more(s) ==
    /\ pc = "append"
    /\ SizeRead(s)
    /\ UNCHANGED staging
    /\ tries' = tries + 1
    /\ pc' = IF tries = max_tries THEN "failed" ELSE "append"
    /\ UNCHANGED <<may, ready, currentarchivenum, current, namestextfile, adding, placed>>

\* os_tryuntil_run runs the same command again after a failure; the member may
\* already be in the tar.
AddToTarFails(s) ==
    /\ pc = "append"
    /\ SizeRead(s)
    /\ \/ "retry" \in may /\ staging' = Appended(s)
       \/ UNCHANGED staging
    /\ tries' = tries + 1
    /\ pc' = IF tries + 1 = max_tries THEN "failed" ELSE "append"
    /\ UNCHANGED <<may, ready, currentarchivenum, current, namestextfile, adding, placed>>

\* Close the last archive and move all of them (BackupStore has the steps).
ar_manager_finish ==
    /\ pc = "open"
    /\ IF ar_util_verify \/ current = <<>>
       THEN /\ ar_manager_advance_to_next
            /\ ready' = staging'
            /\ pc' = "done"
       ELSE pc' = "failed" /\ UNCHANGED <<workVars, ready>>
    /\ UNCHANGED <<may, adding, tries, placed>>

Next == \/ ar_manager_begin
        \/ \E i \in Id, s \in Sizes, whole \in BOOLEAN : ar_manager_add(i, s, whole)
        \/ \E i \in Id, whole \in BOOLEAN : CompressFails(i, whole)
        \/ \E s \in Sizes : AddToTar(s) \/ AddToTarFails(s)
        \/ ar_manager_finish

Spec == Init /\ [][Next]_vars

-----------------------------------------------------------------------------
(* What the archives are good for. *)

\* tar extracts every member of a name, over the one before (--unlink-first).
Extracted(tar, i) ==
    tar.members[SelectLastInSeq(tar.members, LAMBDA m : m.id = i)].size
RemoveRepeats(members) ==
    FoldLeft(LAMBDA ids, m : IF Contains(ids, m.id) THEN ids ELSE Append(ids, m.id),
             <<>>, members)
Ids(tar) == {tar.members[l].id : l \in DOMAIN tar.members}

\* To the rest of the backup the archives are the promise of Packing: what is
\* delivered is what was placed, where and at the size it was reported.
Pack == INSTANCE Packing WITH
    Archives <- 1..Cardinality(Id) + 1,
    delivered <- [n \in DOMAIN ready |-> [i \in Ids(ready[n]) |-> Extracted(ready[n], i)]]
PacksAsPromised == Pack!Spec

\* "walk through the tar file listing, checking filename and size": an archive
\* that was verified gives back every content at the size recorded.
VerifiedSizes ==
    \A i \in DOMAIN placed :
        placed[i].num \in DOMAIN ready =>
            Extracted(ready[placed[i].num], i) = placed[i].size

\* What is delivered was compressed to its end.
WholeMembers ==
    \A n \in DOMAIN ready : \A l \in DOMAIN ready[n].members : ready[n].members[l].whole

\* filenames.txt of an archive lists the members of that archive, in order and,
\* whatever was appended twice, once.
NamesListed ==
    \A n \in DOMAIN ready :
        ready[n].names = RemoveRepeats(ready[n].members)

\* When the last file was added the archive kept to the target size, unless it
\* was empty, and it holds at most one file more than the limit.
ArchiveBounds ==
    \A n \in DOMAIN ready :
        LET names   == ready[n].names
            members == ready[n].members
            first   == SelectInSeq(members, LAMBDA m : m.id = Last(names))
        IN  /\ Len(names) <= limitperarchive + 1
            /\ Len(names) > 1 =>
                 TarSize(SubSeq(members, 1, first - 1)) + placed[Last(names)].size
                   <= target_archive_size
=============================================================================
