--------------------------- MODULE ArManagerProofs ---------------------------
(***************************************************************************)
(* Proofs about ArManager, for any contents, sizes and limits: types, that *)
(* nothing cut short by xz is ever delivered, and what is delivered: lists *)
(* of names, sizes, bounds, and that it is what Packing promises.          *)
(***************************************************************************)
EXTENDS ArManager, SequenceTheorems, FiniteSetTheorems, TLAPS

\* While a content is on its way it is the one member of adding.
Adding == pc = "append" => adding # <<>> /\ adding[1].whole /\ tries < max_tries

\* What is in staging and on its way is whole.
Whole(t) == \A n \in DOMAIN t : \A l \in DOMAIN t[n].members : t[n].members[l].whole

IInv == TypeOK /\ Adding /\ Whole(staging) /\ Whole(ready)

LEMMA PutTar ==
    ASSUME NEW t, IsTars(t), Whole(t), NEW n \in Nat, NEW tar \in Tar,
           \A l \in DOMAIN tar.members : tar.members[l].whole
    PROVE  IsTars(Put(t, n, tar)) /\ Whole(Put(t, n, tar))
<1>1. Put(t, n, tar) \in [DOMAIN t \cup {n} -> Tar]
  BY DEF Put, IsTars
<1>2. IsTars(Put(t, n, tar))
  BY <1>1 DEF IsTars
<1>3. Whole(Put(t, n, tar))
  BY DEF Put, Whole
<1> QED BY <1>2, <1>3

LEMMA NoTars == IsTars(EmptyFcn) /\ Whole(EmptyFcn)
<1>1. EmptyFcn \in [{} -> Tar] /\ DOMAIN EmptyFcn = {}
  BY DEF EmptyFcn
<1> QED BY <1>1 DEF IsTars, Whole

\* The tar under the current name is one, and whole.
LEMMA CurrentIsTar ==
    ASSUME IInv
    PROVE  CurrentTar \in Tar /\ \A l \in DOMAIN CurrentTar.members : CurrentTar.members[l].whole
<1>1. CASE currentarchivenum \in DOMAIN staging
  BY <1>1 DEF IInv, TypeOK, IsTars, Whole, CurrentTar
<1>2. CASE currentarchivenum \notin DOMAIN staging
  <2>1. EmptyTar \in Tar /\ EmptyTar.members = <<>>
    BY DEF EmptyTar, Tar
  <2> QED BY <1>2, <2>1 DEF CurrentTar
<1> QED BY <1>1, <1>2

LEMMA InitInv == Init => IInv
<1> SUFFICES ASSUME Init PROVE IInv
  OBVIOUS
<1>1. IsTars(staging) /\ Whole(staging)
  <2>1. CASE staging = EmptyFcn
    BY <2>1, NoTars
  <2>2. ASSUME NEW i \in Id, NEW s \in Sizes,
               staging = Put(EmptyFcn, 1,
                             [members |-> <<[id |-> i, size |-> s, whole |-> TRUE]>>,
                              names |-> <<>>])
        PROVE  IsTars(staging) /\ Whole(staging)
    <3> DEFINE m == [id |-> i, size |-> s, whole |-> TRUE]
               tar == [members |-> <<m>>, names |-> <<>>]
    <3>1. m \in Member /\ <<m>> \in Seq(Member)
      BY SizeType DEF Member
    <3>2. tar \in Tar /\ \A l \in DOMAIN tar.members : tar.members[l].whole
      BY <3>1 DEF Tar
    <3> QED BY <2>2, <3>2, PutTar, NoTars
  <2> QED BY <2>1, <2>2 DEF Init
<1>2. ready = EmptyFcn /\ placed = EmptyFcn
  BY DEF Init
<1>3. placed \in [DOMAIN placed -> [num : Nat, size : Nat]] /\ DOMAIN placed \subseteq Id
  BY <1>2 DEF EmptyFcn
<1> QED BY <1>1, <1>2, <1>3, NoTars, BoundType DEF Init, IInv, TypeOK, Adding

\* Closing an archive keeps types and members.
LEMMA AdvanceInv ==
    ASSUME IInv, ar_manager_advance_to_next
    PROVE  /\ IsTars(staging') /\ Whole(staging')
           /\ currentarchivenum' \in Nat
           /\ current' = <<>> /\ namestextfile' = <<>>
<1>1. CASE current = <<>>
  BY <1>1 DEF ar_manager_advance_to_next, IInv, TypeOK
<1>2. CASE current # <<>>
  <2> DEFINE tar == [CurrentTar EXCEPT !.names = namestextfile]
  <2>1. tar \in Tar /\ tar.members = CurrentTar.members
    BY CurrentIsTar DEF Tar, IInv, TypeOK
  <2>2. IsTars(Put(staging, currentarchivenum, tar)) /\ Whole(Put(staging, currentarchivenum, tar))
    BY <2>1, CurrentIsTar, PutTar DEF IInv, TypeOK
  <2> QED BY <1>2, <2>2 DEF ar_manager_advance_to_next, IInv, TypeOK
<1> QED BY <1>1, <1>2

\* So does running tar.
LEMMA AppendInv ==
    ASSUME IInv, pc = "append", NEW s \in Sizes
    PROVE  IsTars(Appended(s)) /\ Whole(Appended(s))
<1> DEFINE m == [adding[1] EXCEPT !.size = s]
           tar == [CurrentTar EXCEPT !.members = Append(@, m)]
<1>1. adding[1] \in Member /\ adding[1].whole
  BY DEF IInv, TypeOK, Adding
<1>2. m \in Member /\ m.whole
  BY <1>1, SizeType DEF Member
<1>3. CurrentTar.members \in Seq(Member)
  BY CurrentIsTar DEF Tar
<1>4. tar \in Tar /\ tar.members = Append(CurrentTar.members, m)
  <2> DEFINE members == Append(CurrentTar.members, m)
  <2>1. members \in Seq(Member)
    BY <1>2, <1>3
  <2>2. tar = [CurrentTar EXCEPT !.members = members]
    OBVIOUS
  <2> HIDE DEF m, members
  <2>3. CurrentTar \in [members : Seq(Member), names : Seq(Id)]
    BY CurrentIsTar DEF Tar
  <2> QED BY <2>1, <2>2, <2>3 DEF Tar
<1>5. \A l \in DOMAIN tar.members : tar.members[l].whole
  BY <1>2, <1>3, <1>4, CurrentIsTar
<1> QED BY <1>4, <1>5, PutTar DEF Appended, IInv, TypeOK

LEMMA StepInv == IInv /\ [Next]_vars => IInv'
<1> SUFFICES ASSUME IInv, [Next]_vars PROVE IInv'
  OBVIOUS
<1>1. CASE ar_manager_begin
  BY <1>1, NoTars DEF ar_manager_begin, IInv, TypeOK, Adding
<1>2. ASSUME NEW i \in Id, NEW s \in Sizes, NEW whole \in BOOLEAN,
             ar_manager_add(i, s, whole)
      PROVE  IInv'
  <2>1. adding' \in Seq(Member) /\ adding' # <<>> /\ adding'[1].whole
    BY <1>2, SizeType DEF ar_manager_add, ar_util_xz_verify, Member
  <2>2. /\ IsTars(staging') /\ Whole(staging') /\ currentarchivenum' \in Nat
        /\ current' \in Seq(Member) /\ namestextfile' \in Seq(Id)
    <3>1. CASE ar_manager_advance_to_next
      BY <3>1, AdvanceInv
    <3>2. CASE UNCHANGED workVars
      BY <3>2 DEF workVars, IInv, TypeOK
    <3> QED BY <1>2, <3>1, <3>2 DEF ar_manager_add
  <2>3. 0 \in 0..max_tries /\ 0 < max_tries
    BY BoundType
  <2> QED BY <1>2, <2>1, <2>2, <2>3 DEF ar_manager_add, IInv, TypeOK, Adding
<1>3. ASSUME NEW i \in Id, NEW whole \in BOOLEAN, CompressFails(i, whole) PROVE IInv'
  BY <1>3 DEF CompressFails, IInv, TypeOK, Adding
<1>4. ASSUME NEW s \in Sizes, AddToTar(s) PROVE IInv'
  <2>1. adding[1] \in Member
    BY <1>4 DEF AddToTar, IInv, TypeOK, Adding
  <2>2. current' \in Seq(Member) /\ namestextfile' \in Seq(Id)
    BY <1>4, <2>1 DEF AddToTar, IInv, TypeOK, Member
  <2>3. DOMAIN placed' \subseteq Id /\ placed' \in [DOMAIN placed' -> [num : Nat, size : Nat]]
    BY <1>4, <2>1 DEF AddToTar, IInv, TypeOK, Member, Put
  <2> QED BY <1>4, <2>2, <2>3, AppendInv DEF AddToTar, IInv, TypeOK, Adding
<1>5. ASSUME NEW s \in Sizes, AddToTarFails(s) PROVE IInv'
  <2>1. IsTars(staging') /\ Whole(staging')
    BY <1>5, AppendInv DEF AddToTarFails, IInv, TypeOK
  <2>2. tries' \in 0..max_tries
    BY <1>5, BoundType DEF AddToTarFails, IInv, TypeOK, Adding
  <2>3. Adding'
    BY <1>5, BoundType DEF AddToTarFails, IInv, TypeOK, Adding
  <2> QED BY <1>5, <2>1, <2>2, <2>3 DEF AddToTarFails, IInv, TypeOK
<1>6. CASE ar_manager_finish
  <2>1. CASE ar_manager_advance_to_next /\ ready' = staging' /\ pc' = "done"
    <3>1. /\ IsTars(staging') /\ Whole(staging') /\ IsTars(ready') /\ Whole(ready')
          /\ currentarchivenum' \in Nat /\ current' = <<>> /\ namestextfile' = <<>>
      BY <2>1, AdvanceInv
    <3>2. current' \in Seq(Member) /\ namestextfile' \in Seq(Id)
      BY <3>1
    <3> QED BY <1>6, <2>1, <3>1, <3>2 DEF ar_manager_finish, IInv, TypeOK, Adding
  <2>2. CASE pc' = "failed" /\ UNCHANGED <<workVars, ready>>
    BY <1>6, <2>2 DEF ar_manager_finish, workVars, IInv, TypeOK, Adding
  <2> QED BY <1>6, <2>1, <2>2 DEF ar_manager_finish
<1>7. CASE UNCHANGED vars
  BY <1>7 DEF vars, IInv, TypeOK, Adding
<1> QED BY <1>1, <1>2, <1>3, <1>4, <1>5, <1>6, <1>7 DEF Next

\* Every variable keeps its type, whatever fails and however often tar is run.
THEOREM ArManagerTypes == Spec => []TypeOK
<1>1. IInv => TypeOK
  BY DEF IInv
<1> QED BY <1>1, InitInv, StepInv, PTL DEF Spec

\* Only contents that xz compressed to their end are delivered.
THEOREM DeliveredWhole == Spec => []WholeMembers
<1>1. IInv => WholeMembers
  BY DEF IInv, Whole, WholeMembers
<1> QED BY <1>1, InitInv, StepInv, PTL DEF Spec

-----------------------------------------------------------------------------
(* What the folds of ArManager compute. *)

SizeStep(c, total, m) == total + m.size + Overhead
NameStep(c, ids, m) == IF Contains(ids, m.id) THEN ids ELSE Append(ids, m.id)

SizeFold == INSTANCE FoldLaws WITH Op <- SizeStep
NameFold == INSTANCE FoldLaws WITH Op <- NameStep
VerifyFold == INSTANCE FoldLaws WITH Op <- VerifyNext

\* The size of a tar grows by the member and the overhead of one.
LEMMA TarSizeSteps ==
    /\ TarSize(<<>>) = 0
    /\ \A members \in Seq(Member), m \in Member :
         TarSize(Append(members, m)) = TarSize(members) + m.size + Overhead
<1>1. \A s : TarSize(s) = SizeFold!Fold(0, 0, s)
  BY DEF TarSize, SizeFold!Fold, SizeStep, SizeFold!FoldLeft, SizeFold!MapThenFoldSet,
         SizeFold!Max, FoldLeft, MapThenFoldSet, Max
<1>2. SizeFold!Fold(0, 0, <<>>) = 0
  BY SizeFold!FoldEmpty
<1>3. ASSUME NEW members \in Seq(Member), NEW m \in Member
      PROVE  SizeFold!Fold(0, 0, Append(members, m))
               = SizeFold!Fold(0, 0, members) + m.size + Overhead
  BY SizeFold!FoldAppend DEF SizeStep
<1> QED BY <1>1, <1>2, <1>3

\* The list of names grows by a name it does not have.
LEMMA RemoveRepeatsSteps ==
    /\ RemoveRepeats(<<>>) = <<>>
    /\ \A members \in Seq(Member), m \in Member :
         RemoveRepeats(Append(members, m)) = NameStep(0, RemoveRepeats(members), m)
<1>1. \A s : RemoveRepeats(s) = NameFold!Fold(0, <<>>, s)
  BY DEF RemoveRepeats, NameFold!Fold, NameStep, NameFold!FoldLeft,
         NameFold!MapThenFoldSet, NameFold!Max, FoldLeft, MapThenFoldSet, Max
<1>2. NameFold!Fold(0, <<>>, <<>>) = <<>>
  BY NameFold!FoldEmpty
<1>3. ASSUME NEW members \in Seq(Member), NEW m \in Member
      PROVE  NameFold!Fold(0, <<>>, Append(members, m))
               = NameStep(0, NameFold!Fold(0, <<>>, members), m)
  BY NameFold!FoldAppend
<1> QED BY <1>1, <1>2, <1>3

\* Verification passes when a line is left after the last name.
LEMMA VerifyIsFold == ar_util_verify <=> VerifyFold!Fold(CurrentTar.members, 1, current) # 0
BY DEF ar_util_verify, VerifyFold!Fold, VerifyFold!FoldLeft, VerifyFold!MapThenFoldSet,
       VerifyFold!Max, FoldLeft, MapThenFoldSet, Max

\* It starts at the first line and goes on from name to name.
LEMMA VerifySteps ==
    ASSUME NEW members
    PROVE  /\ VerifyFold!Fold(members, 1, <<>>) = 1
           /\ \A names \in Seq(Member), m \in Member :
                VerifyFold!Fold(members, 1, Append(names, m))
                  = VerifyNext(members, VerifyFold!Fold(members, 1, names), m)
<1>1. VerifyFold!Fold(members, 1, <<>>) = 1
  BY VerifyFold!FoldEmpty
<1>2. ASSUME NEW names \in Seq(Member), NEW m \in Member
      PROVE  VerifyFold!Fold(members, 1, Append(names, m))
               = VerifyNext(members, VerifyFold!Fold(members, 1, names), m)
  BY VerifyFold!FoldAppend
<1> QED BY <1>1, <1>2

\* The extremes of sets of places.
LEMMA Extremes ==
    /\ \A n \in Nat : \A t \in SUBSET (1..n) :
         t # {} => Max(t) \in t /\ \A y \in t : y <= Max(t)
    /\ \A t \in SUBSET Nat : t # {} => Min(t) \in t /\ \A y \in t : Min(t) <= y
<1>1. \A t : Max(t) = SizeFold!Max(t) /\ Min(t) = SizeFold!Min(t)
  BY DEF Max, Min, SizeFold!Max, SizeFold!Min
<1> QED BY <1>1, SizeFold!MaxInSet, SizeFold!MinInSet

\* One name is looked for from its own line on: it is found there only when its
\* size is, and otherwise not at all.
LEMMA VerifyOne ==
    ASSUME NEW members \in Seq(Member), NEW k \in 1..Len(members), NEW m \in Member,
           members[k].id = m.id, \A l \in DOMAIN members : members[l].id = m.id => l = k
    PROVE  \/ VerifyNext(members, k, m) = 0
           \/ VerifyNext(members, k, m) = k + 1 /\ members[k].size = m.size
<1> DEFINE sizeAt == {l \in k..Len(members) : members[l].size = m.size}
           nameAt == {l \in Min(sizeAt)..Len(members) : members[l].id = m.id}
<1> SUFFICES ASSUME sizeAt # {}, nameAt # {}
             PROVE  Min(nameAt) = k /\ members[k].size = m.size
  BY DEF VerifyNext
<1>1. sizeAt \in SUBSET Nat
  OBVIOUS
<1>2. Min(sizeAt) \in sizeAt
  <2> HIDE DEF sizeAt
  <2> QED BY <1>1, Extremes
<1>3. nameAt = {k}
  <2>1. ASSUME NEW l \in nameAt PROVE l = k
    BY <1>2
  <2> QED BY <2>1
<1>4. Min(nameAt) = k
  BY <1>3 DEF Min
<1>5. Min(sizeAt) = k
  BY <1>2, <1>3
<1> QED BY <1>2, <1>4, <1>5

\* "walk through the tar file listing, checking filename and size": when the tar
\* holds the names once and in order and verification passes, it has the sizes.
LEMMA VerifyPasses ==
    ASSUME NEW members \in Seq(Member), NEW names \in Seq(Member),
           Len(members) = Len(names),
           \A l \in DOMAIN names : members[l].id = names[l].id,
           \A j, k \in DOMAIN names : names[j].id = names[k].id => j = k,
           VerifyFold!Fold(members, 1, names) # 0
    PROVE  \A l \in DOMAIN names : members[l].size = names[l].size
<1> DEFINE n == Len(names)
           line(k) == VerifyFold!Fold(members, 1, SubSeq(names, 1, k))
           Right(k) == line(k) = k + 1 /\ \A l \in 1..k : members[l].size = names[l].size
           S == {k \in Nat : k <= n => line(k) = 0 \/ Right(k)}
<1>1. 0 \in S
  <2>1. SubSeq(names, 1, 0) = <<>> /\ 1..0 = {}
    OBVIOUS
  <2>2. line(0) = 1
    BY <2>1, VerifySteps
  <2> QED BY <2>1, <2>2
<1>2. ASSUME NEW k \in Nat, k \in S PROVE k + 1 \in S
  <2> SUFFICES ASSUME k + 1 <= n PROVE line(k + 1) = 0 \/ Right(k + 1)
    OBVIOUS
  <2>1. /\ SubSeq(names, 1, k) \in Seq(Member) /\ k + 1 \in DOMAIN names
        /\ names[k + 1] \in Member
        /\ SubSeq(names, 1, k + 1) = Append(SubSeq(names, 1, k), names[k + 1])
    OBVIOUS
  <2>2. line(k + 1) = VerifyNext(members, line(k), names[k + 1])
    <3>1. VerifyFold!Fold(members, 1, Append(SubSeq(names, 1, k), names[k + 1]))
            = VerifyNext(members, VerifyFold!Fold(members, 1, SubSeq(names, 1, k)), names[k + 1])
      BY <2>1, VerifySteps
    <3> QED BY <2>1, <3>1
  <2>3. CASE line(k) = 0
    BY <2>2, <2>3 DEF VerifyNext
  <2>4. CASE Right(k)
    <3>1. /\ k + 1 \in 1..Len(members) /\ members[k + 1].id = names[k + 1].id
          /\ \A l \in DOMAIN members : members[l].id = names[k + 1].id => l = k + 1
      BY <2>1
    <3>2. \/ line(k + 1) = 0
          \/ line(k + 1) = k + 2 /\ members[k + 1].size = names[k + 1].size
      BY <2>1, <2>2, <2>4, <3>1, VerifyOne
    <3> QED BY <2>4, <3>2
  <2> QED BY <1>2, <2>3, <2>4
<1>3. n \in S
  <2> HIDE DEF S
  <2> QED BY <1>1, <1>2, SizeFold!SetInduction
<1>4. SubSeq(names, 1, n) = names
  OBVIOUS
<1>5. line(n) # 0
  BY <1>4
<1>7. n \in Nat /\ DOMAIN names = 1..n
  OBVIOUS
<1>6. Right(n)
  <2> HIDE DEF line, Right
  <2> QED BY <1>3, <1>5, <1>7
<1> QED BY <1>6, <1>7

\* So a tar has a size.
LEMMA TarSizeNat == ASSUME NEW members \in Seq(Member) PROVE TarSize(members) \in Nat
<1> DEFINE n == Len(members)
           S == {k \in Nat : k <= n => TarSize(SubSeq(members, 1, k)) \in Nat}
<1>1. 0 \in S
  <2>1. SubSeq(members, 1, 0) = <<>>
    OBVIOUS
  <2>2. TarSize(SubSeq(members, 1, 0)) = 0
    BY <2>1, TarSizeSteps
  <2> QED BY <2>2
<1>2. ASSUME NEW k \in Nat, k \in S PROVE k + 1 \in S
  <2> SUFFICES ASSUME k + 1 <= n PROVE TarSize(SubSeq(members, 1, k + 1)) \in Nat
    OBVIOUS
  <2>1. /\ SubSeq(members, 1, k) \in Seq(Member) /\ members[k + 1] \in Member
        /\ SubSeq(members, 1, k + 1) = Append(SubSeq(members, 1, k), members[k + 1])
    OBVIOUS
  <2>2. members[k + 1].size \in Nat
    BY <2>1 DEF Member
  <2>3. TarSize(SubSeq(members, 1, k + 1))
          = TarSize(SubSeq(members, 1, k)) + members[k + 1].size + Overhead
    BY <2>1, TarSizeSteps
  <2> QED BY <1>2, <2>2, <2>3, BoundType
<1>3. n \in S
  <2>1. n \in Nat
    OBVIOUS
  <2> HIDE DEF S, n
  <2> QED BY <1>1, <1>2, <2>1, SizeFold!SetInduction
<1>4. SubSeq(members, 1, n) = members
  OBVIOUS
<1>5. TarSize(SubSeq(members, 1, n)) \in Nat
  BY <1>3
<1> HIDE DEF n
<1> QED BY <1>4, <1>5

\* What tar extracts under a name is one of the members of that name.
LEMMA ExtractedIs ==
    ASSUME NEW tar \in Tar, NEW i \in Ids(tar)
    PROVE  \E l \in DOMAIN tar.members :
             tar.members[l].id = i /\ Extracted(tar, i) = tar.members[l].size
<1> DEFINE I == {l \in 1..Len(tar.members) : tar.members[l].id = i}
<1>1. Len(tar.members) \in Nat /\ DOMAIN tar.members = 1..Len(tar.members)
  BY DEF Tar
<1>2. I # {} /\ I \in SUBSET (1..Len(tar.members))
  BY <1>1 DEF Ids
<1>3. Max(I) \in I
  <2> HIDE DEF I
  <2> QED BY <1>1, <1>2, Extremes
<1>4. Extracted(tar, i) = tar.members[Max(I)].size
  BY <1>2 DEF Extracted, SelectLastInSeq
<1> QED BY <1>1, <1>3, <1>4

-----------------------------------------------------------------------------
(* What is placed where, while archives are filled and when they are delivered. *)

Contents(where, n) == {i \in DOMAIN where : where[i].num = n}

\* Members from the k-th on are of the content i, those before are not.
LastPart(members, i, k) == \A l \in DOMAIN members : members[l].id = i <=> l > k

\* Before it was first added there was room for i.
Room(members, i, s) ==
    \E k \in 0..Len(members) :
        /\ LastPart(members, i, k)
        /\ TarSize(SubSeq(members, 1, k)) + s <= target_archive_size

\* A file that changes and a member that is there twice may pass verification
\* together; everything else about an archive holds in any case.
OneFault == ~ ({"changed", "retry"} \subseteq may)

\* An archive that is full: its list of names, what it holds, the size of what
\* tar extracts from it, and that there was room for the last file.
Closed(where, n, tar) ==
    /\ tar.names = RemoveRepeats(tar.members)
    /\ Ids(tar) = Contents(where, n)
    /\ OneFault => \A i \in Ids(tar) : Extracted(tar, i) = where[i].size
    /\ tar.names # <<>> /\ Last(tar.names) \in Ids(tar)
    /\ Len(tar.names) <= limitperarchive + 1
    /\ Len(tar.names) > 1 => Room(tar.members, Last(tar.names), where[Last(tar.names)].size)

\* The names and sizes kept in memory are of what was placed in the current
\* archive, and archives are numbered in the order they are filled.
CurrentIds == {current[k].id : k \in DOMAIN current}
InOrder ==
    /\ currentarchivenum >= 1
    /\ namestextfile = [k \in DOMAIN current |-> current[k].id]
    /\ \A j, k \in DOMAIN current : current[j].id = current[k].id => j = k
    /\ CurrentIds = Contents(placed, currentarchivenum)
    /\ \A k \in DOMAIN current : placed[current[k].id].size = current[k].size
    /\ \A i \in DOMAIN placed : placed[i].num <= currentarchivenum
    /\ pc = "append" => adding[1].id \notin DOMAIN placed /\ adding[1].size \in Sizes
    /\ pc = "open" /\ current = <<>> => placed = EmptyFcn /\ staging = EmptyFcn

\* Every other archive in staging is closed, and every content has its archive.
OthersClosed ==
    /\ \A n \in DOMAIN staging : n <= currentarchivenum
    /\ \A n \in DOMAIN staging : n # currentarchivenum => Closed(placed, n, staging[n])
    /\ \A i \in DOMAIN placed :
         placed[i].num = currentarchivenum \/ placed[i].num \in DOMAIN staging

\* The current tar holds what filenames.txt lists, and perhaps the content that
\* is being added.
Listed ==
    \/ RemoveRepeats(CurrentTar.members) = namestextfile /\ Ids(CurrentTar) = CurrentIds
    \/ /\ pc = "append"
       /\ RemoveRepeats(CurrentTar.members) = Append(namestextfile, adding[1].id)
       /\ Ids(CurrentTar) = CurrentIds \cup {adding[1].id}

\* Without files that change every member has the size that was measured.
SameSize ==
    "changed" \notin may =>
        \A l \in DOMAIN CurrentTar.members :
            LET m == CurrentTar.members[l]
            IN  \/ m.id \in DOMAIN placed /\ m.size = placed[m.id].size
                \/ pc = "append" /\ m.id = adding[1].id /\ m.size = adding[1].size

\* Without failures after an append there is one member for each content.
OneEach ==
    "retry" \notin may =>
        /\ Len(CurrentTar.members) = Len(current)
        /\ \A l \in DOMAIN current : CurrentTar.members[l].id = current[l].id

HasRoom ==
    /\ pc = "append" =>
         /\ Len(current) <= limitperarchive
         /\ current # <<>> => Room(CurrentTar.members, adding[1].id, adding[1].size)
    /\ pc = "open" =>
         /\ Len(current) <= limitperarchive + 1
         /\ Len(current) > 1 =>
              Room(CurrentTar.members, Last(namestextfile), placed[Last(namestextfile)].size)

Filling == InOrder /\ OthersClosed /\ Listed /\ SameSize /\ OneEach /\ HasRoom

Delivered ==
    /\ \A n \in DOMAIN ready : Closed(placed, n, ready[n])
    /\ \A i \in DOMAIN placed : placed[i].num \in DOMAIN ready

PackInv ==
    /\ pc # "done" => ready = EmptyFcn
    /\ pc = "begin" => placed = EmptyFcn /\ current = <<>> /\ namestextfile = <<>>
    /\ pc \in {"open", "append"} => Filling
    /\ pc = "done" => Delivered

\* The current tar before anything is in it.
LEMMA NothingYet ==
    ASSUME currentarchivenum \notin DOMAIN staging
    PROVE  /\ CurrentTar.members = <<>> /\ Ids(CurrentTar) = {}
           /\ RemoveRepeats(CurrentTar.members) = <<>>
<1>1. CurrentTar.members = <<>>
  BY DEF CurrentTar, EmptyTar
<1> QED BY <1>1, RemoveRepeatsSteps DEF Ids

\* An archive that is verified may be closed.
LEMMA ClosedNow ==
    ASSUME IInv, Filling, pc = "open", current # <<>>, ar_util_verify
    PROVE  Closed(placed, currentarchivenum, [CurrentTar EXCEPT !.names = namestextfile])
<1> DEFINE members == CurrentTar.members
           tar == [CurrentTar EXCEPT !.names = namestextfile]
<1>1. /\ CurrentTar \in Tar /\ members \in Seq(Member)
      /\ current \in Seq(Member) /\ namestextfile \in Seq(Id)
  BY CurrentIsTar DEF IInv, TypeOK, Tar
<1>2. tar.members = members /\ tar.names = namestextfile /\ tar \in Tar
  BY <1>1 DEF Tar
<1>3. Ids(tar) = Ids(CurrentTar)
  BY <1>2 DEF Ids
<1>4. Ids(tar) = CurrentIds /\ RemoveRepeats(members) = namestextfile
  BY <1>3 DEF Filling, Listed
<1>5. Len(namestextfile) = Len(current) /\ Len(current) > 0
  BY <1>1 DEF Filling, InOrder
<1>6. Last(namestextfile) \in CurrentIds
  <2>1. Last(namestextfile) = current[Len(current)].id /\ Len(current) \in DOMAIN current
    BY <1>1, <1>5 DEF Filling, InOrder, Last
  <2> QED BY <2>1 DEF CurrentIds
<1>7. ASSUME OneFault, NEW i \in Ids(tar) PROVE Extracted(tar, i) = placed[i].size
  <2>1. PICK l \in DOMAIN members : members[l].id = i /\ Extracted(tar, i) = members[l].size
    <3> HIDE DEF tar, members
    <3>1. \E l \in DOMAIN tar.members :
            tar.members[l].id = i /\ Extracted(tar, i) = tar.members[l].size
      BY <1>2, <1>7, ExtractedIs
    <3> QED BY <1>2, <3>1
  <2>2. CASE "changed" \notin may
    BY <2>1, <2>2 DEF Filling, SameSize
  <2>3. CASE "retry" \notin may
    <3>1. Len(members) = Len(current) /\ \A k \in DOMAIN current : members[k].id = current[k].id
      BY <2>3 DEF Filling, OneEach
    <3>2. \A j, k \in DOMAIN current : current[j].id = current[k].id => j = k
      BY DEF Filling, InOrder
    <3>3. VerifyFold!Fold(members, 1, current) # 0
      BY VerifyIsFold
    <3>4. l \in DOMAIN current
      BY <1>1, <3>1
    <3>5. members[l].size = current[l].size
      BY <1>1, <3>1, <3>2, <3>3, <3>4, VerifyPasses
    <3> QED BY <2>1, <3>1, <3>4, <3>5 DEF Filling, InOrder
  <2> QED BY <1>7, <2>2, <2>3 DEF OneFault
<1>8. Len(namestextfile) <= limitperarchive + 1
  BY <1>5 DEF Filling, HasRoom
<1>9. Len(namestextfile) > 1 =>
        Room(members, Last(namestextfile), placed[Last(namestextfile)].size)
  BY <1>5 DEF Filling, HasRoom
<1>10. Ids(tar) = Contents(placed, currentarchivenum)
  BY <1>4 DEF Filling, InOrder
<1>11. namestextfile # <<>>
  BY <1>5, <1>1
<1> HIDE DEF tar, members
<1>12. Closed(placed, currentarchivenum, tar)
  BY <1>2, <1>4, <1>6, <1>7, <1>8, <1>9, <1>10, <1>11 DEF Closed
<1> QED BY <1>12 DEF tar

\* Closing the current archive leaves only closed ones, each content in one.
LEMMA AdvancePack ==
    ASSUME IInv, Filling, pc = "open", ar_manager_advance_to_next,
           ar_util_verify \/ current = <<>>
    PROVE  /\ \A n \in DOMAIN staging' : n <= currentarchivenum /\ Closed(placed, n, staging'[n])
           /\ \A i \in DOMAIN placed : placed[i].num \in DOMAIN staging'
<1>1. CASE current = <<>>
  <2>1. placed = EmptyFcn /\ staging = EmptyFcn /\ staging' = staging
    BY <1>1 DEF Filling, InOrder, ar_manager_advance_to_next
  <2> QED BY <2>1 DEF EmptyFcn
<1>2. CASE current # <<>>
  <2> DEFINE tar == [CurrentTar EXCEPT !.names = namestextfile]
  <2>1. Closed(placed, currentarchivenum, tar)
    BY <1>2, ClosedNow
  <2>2. staging' = Put(staging, currentarchivenum, tar)
    BY <1>2 DEF ar_manager_advance_to_next
  <2> HIDE DEF tar
  <2>3. /\ DOMAIN staging' = DOMAIN staging \cup {currentarchivenum}
        /\ staging'[currentarchivenum] = tar
        /\ \A n \in DOMAIN staging : n # currentarchivenum => staging'[n] = staging[n]
    BY <2>2 DEF Put
  <2>4. currentarchivenum \in Nat
    BY DEF IInv, TypeOK
  <2> QED BY <2>1, <2>3, <2>4 DEF Filling, OthersClosed
<1> QED BY <1>1, <1>2

\* Running tar on the content that is being added: what the current tar then
\* lists, holds and measures.
LEMMA AppendPack ==
    ASSUME IInv, Filling, pc = "append", NEW s \in Sizes, SizeRead(s)
    PROVE  /\ DOMAIN Appended(s) = DOMAIN staging \cup {currentarchivenum}
           /\ \A n \in DOMAIN staging :
                n # currentarchivenum => Appended(s)[n] = staging[n]
           /\ LET tar == Appended(s)[currentarchivenum]
                  x   == adding[1]
              IN  /\ RemoveRepeats(tar.members) = Append(namestextfile, x.id)
                  /\ Ids(tar) = CurrentIds \cup {x.id}
                  /\ "changed" \notin may =>
                       \A l \in DOMAIN tar.members :
                          LET m == tar.members[l]
                          IN  \/ m.id \in DOMAIN placed /\ m.size = placed[m.id].size
                              \/ m.id = x.id /\ m.size = x.size
                  /\ tar.members = Append(CurrentTar.members, [x EXCEPT !.size = s])
                  /\ current # <<>> => Room(tar.members, x.id, x.size)
<1> DEFINE x == adding[1]
           y == [x EXCEPT !.size = s]
           old == CurrentTar.members
           new == Append(old, y)
           tar == [CurrentTar EXCEPT !.members = new]
<1>1. CurrentTar \in Tar /\ old \in Seq(Member) /\ namestextfile \in Seq(Id)
  BY CurrentIsTar DEF IInv, TypeOK, Tar
<1>2. x \in Member /\ y \in Member /\ y.id = x.id /\ y.size = s /\ x.size \in Sizes
  <2>1. adding \in Seq(Member) /\ adding # <<>>
    BY DEF IInv, TypeOK, Adding
  <2>2. x \in Member /\ x.size \in Sizes
    BY <2>1 DEF Filling, InOrder
  <2> HIDE DEF x
  <2> QED BY <2>2, SizeType DEF Member
<1>3. /\ new \in Seq(Member) /\ Len(new) = Len(old) + 1 /\ new[Len(old) + 1] = y
      /\ DOMAIN new = 1..Len(old) + 1 /\ DOMAIN old = 1..Len(old) /\ Len(old) \in Nat
      /\ \A l \in DOMAIN old : new[l] = old[l]
  <2> HIDE DEF y, old
  <2> QED BY <1>1, <1>2
<1>4. Appended(s) = Put(staging, currentarchivenum, tar)
  BY DEF Appended
<1>5. tar.members = new
  BY <1>1 DEF Tar
<1> HIDE DEF new, tar, y, old
<1>6. /\ DOMAIN Appended(s) = DOMAIN staging \cup {currentarchivenum}
      /\ Appended(s)[currentarchivenum] = tar
      /\ \A n \in DOMAIN staging : n # currentarchivenum => Appended(s)[n] = staging[n]
  BY <1>4 DEF Put
<1>7. x.id \notin CurrentIds
  BY DEF Filling, InOrder, Contents
<1>8. RemoveRepeats(new) = Append(namestextfile, x.id)
  <2>1. RemoveRepeats(new) = NameStep(0, RemoveRepeats(old), y)
    BY <1>1, <1>2, RemoveRepeatsSteps DEF new
  <2>2. CASE RemoveRepeats(old) = namestextfile
    <3>1. ~ Contains(namestextfile, y.id)
      <4>1. ASSUME NEW k \in 1..Len(namestextfile), namestextfile[k] = x.id PROVE FALSE
        BY <1>1, <1>7, <4>1 DEF Filling, InOrder, CurrentIds
      <4> QED BY <1>2, <4>1 DEF Contains
    <3> QED BY <1>2, <2>1, <2>2, <3>1 DEF NameStep
  <2>3. CASE RemoveRepeats(old) = Append(namestextfile, x.id)
    <3>1. Contains(Append(namestextfile, x.id), y.id)
      <4>1. /\ Len(namestextfile) + 1 \in 1..Len(Append(namestextfile, x.id))
            /\ Append(namestextfile, x.id)[Len(namestextfile) + 1] = x.id
        BY <1>1, <1>2 DEF Member
      <4> QED BY <1>2, <4>1 DEF Contains
    <3> QED BY <2>1, <2>3, <3>1 DEF NameStep
  <2> QED BY <2>2, <2>3 DEF Filling, Listed, old
<1>9. Ids(tar) = CurrentIds \cup {x.id}
  <2>1. Ids(tar) = Ids(CurrentTar) \cup {x.id}
    <3>1. Ids(tar) = {new[l].id : l \in DOMAIN new}
      BY <1>5 DEF Ids
    <3>2. Ids(CurrentTar) = {old[l].id : l \in DOMAIN old}
      BY DEF Ids, old
    <3> HIDE DEF x
    <3> QED BY <1>2, <1>3, <3>1, <3>2
  <2> QED BY <2>1 DEF Filling, Listed
<1>10. ASSUME "changed" \notin may, NEW l \in DOMAIN new
       PROVE  \/ new[l].id \in DOMAIN placed /\ new[l].size = placed[new[l].id].size
              \/ new[l].id = x.id /\ new[l].size = x.size
  <2>1. CASE l = Len(old) + 1
    BY <1>2, <1>3, <1>10, <2>1 DEF SizeRead
  <2>2. CASE l \in DOMAIN old
    BY <1>3, <1>10, <2>2 DEF Filling, SameSize, old
  <2> QED BY <1>3, <1>10, <2>1, <2>2
<1>11. ASSUME current # <<>> PROVE Room(new, x.id, x.size)
  <2>1. PICK k \in 0..Len(old) :
             LastPart(old, x.id, k) /\ TarSize(SubSeq(old, 1, k)) + x.size <= target_archive_size
    BY <1>11 DEF Filling, HasRoom, Room, old
  <2>2. LastPart(new, x.id, k)
    BY <1>2, <1>3, <2>1 DEF LastPart
  <2>3. SubSeq(new, 1, k) = SubSeq(old, 1, k)
    BY <1>1, <1>2, <1>3, <2>1
  <2>4. k \in 0..Len(new)
    BY <1>3
  <2> QED BY <2>1, <2>2, <2>3, <2>4 DEF Room
<1> QED BY <1>5, <1>6, <1>8, <1>9, <1>10, <1>11 DEF new, y, old

\* ar_manager_add makes room or has it.
LEMMA AddPack ==
    ASSUME IInv, PackInv, NEW i \in Id, NEW s \in Sizes, NEW whole \in BOOLEAN,
           ar_manager_add(i, s, whole)
    PROVE  PackInv'
<1> DEFINE x == [id |-> i, size |-> s, whole |-> whole]
<1>1. /\ pc = "open" /\ i \notin DOMAIN placed /\ adding' = <<x>> /\ adding'[1] = x
      /\ placed' = placed /\ ready' = ready /\ may' = may /\ ready = EmptyFcn /\ Filling
  BY DEF ar_manager_add, PackInv
<1>2. currentarchivenum \in Nat /\ current \in Seq(Member)
  BY DEF IInv, TypeOK
<1>3. CASE pc' = "failed"
  BY <1>1, <1>3 DEF PackInv
<1>4. CASE MustAdvance(s) /\ ar_util_verify /\ ar_manager_advance_to_next /\ pc' = "append"
  <2>1. /\ currentarchivenum' = currentarchivenum + 1 /\ current' = <<>> /\ namestextfile' = <<>>
    BY <1>4 DEF ar_manager_advance_to_next
  <2>2. /\ \A n \in DOMAIN staging' : n <= currentarchivenum /\ Closed(placed, n, staging'[n])
        /\ \A j \in DOMAIN placed : placed[j].num \in DOMAIN staging'
    BY <1>1, <1>4, AdvancePack
  <2>3. DOMAIN staging' \subseteq Nat
    <3>1. IInv'
      BY StepInv DEF Next
    <3> QED BY <3>1 DEF IInv, TypeOK, IsTars
  <2>4. currentarchivenum' \notin DOMAIN staging'
    BY <1>2, <2>1, <2>2, <2>3
  <2>5. /\ CurrentTar'.members = <<>> /\ Ids(CurrentTar') = {}
        /\ RemoveRepeats(CurrentTar'.members) = <<>>
    <3>1. CurrentTar' = EmptyTar
      BY <2>4 DEF CurrentTar
    <3>2. CurrentTar'.members = <<>>
      BY <3>1 DEF EmptyTar
    <3> QED BY <3>2, RemoveRepeatsSteps DEF Ids
  <2>6. CurrentIds' = {}
    BY <2>1 DEF CurrentIds
  <2>7. \A j \in DOMAIN placed : placed[j].num \in Nat /\ placed[j].num <= currentarchivenum
    BY <1>1 DEF IInv, TypeOK, Filling, InOrder
  <2>8. InOrder'
    <3>1. Contents(placed, currentarchivenum') = {}
      BY <1>2, <2>1, <2>7 DEF Contents
    <3>2. currentarchivenum' >= 1 /\ \A j \in DOMAIN placed : placed[j].num <= currentarchivenum'
      BY <1>2, <2>1, <2>7
    <3>3. <<>> = [k \in DOMAIN <<>> |-> <<>>[k].id] /\ DOMAIN <<>> = {}
      OBVIOUS
    <3> QED BY <1>1, <1>4, <2>1, <2>6, <3>1, <3>2, <3>3 DEF InOrder
  <2>9. OthersClosed'
    <3>1. \A n \in DOMAIN staging' : n <= currentarchivenum'
      BY <1>2, <2>1, <2>2, <2>3
    <3>2. OneFault' <=> OneFault
      BY <1>1 DEF OneFault
    <3> QED BY <1>1, <2>2, <3>1, <3>2 DEF OthersClosed, Closed
  <2>10. Listed' /\ SameSize' /\ OneEach'
    BY <2>1, <2>5, <2>6 DEF Listed, SameSize, OneEach
  <2>11. HasRoom'
    BY <1>4, <2>1, BoundType DEF HasRoom
  <2> QED BY <1>1, <1>4, <2>8, <2>9, <2>10, <2>11 DEF PackInv, Filling
<1>5. CASE ~ MustAdvance(s) /\ pc' = "append" /\ UNCHANGED workVars
  <2>1. /\ staging' = staging /\ currentarchivenum' = currentarchivenum
        /\ current' = current /\ namestextfile' = namestextfile /\ CurrentTar' = CurrentTar
    BY <1>5 DEF workVars, CurrentTar
  <2>2. CurrentTar.members \in Seq(Member)
    BY CurrentIsTar DEF Tar
  <2>3. Ids(CurrentTar) = CurrentIds /\ CurrentIds \subseteq DOMAIN placed
    BY <1>1 DEF Filling, Listed, InOrder, Contents
  <2>4. InOrder'
    BY <1>1, <1>5, <2>1 DEF Filling, InOrder, CurrentIds
  <2>5. OthersClosed'
    BY <1>1, <2>1 DEF Filling, OthersClosed, Closed, OneFault
  <2>6. Listed' /\ SameSize' /\ OneEach'
    BY <1>1, <1>5, <2>1 DEF Filling, Listed, SameSize, OneEach, CurrentIds
  <2>7. Room(CurrentTar.members, i, s)
    <3> DEFINE members == CurrentTar.members
               n == Len(members)
    <3>1. n \in 0..n /\ DOMAIN members = 1..n /\ SubSeq(members, 1, n) = members
      BY <2>2
    <3>2. TarSize(members) + s <= target_archive_size
      BY <1>5, <2>2, TarSizeNat, SizeType, BoundType DEF MustAdvance, archivesize
    <3>3. LastPart(members, i, n)
      <4>1. ASSUME NEW l \in DOMAIN members PROVE members[l].id # i /\ ~ (l > n)
        BY <1>1, <2>3, <3>1 DEF Ids
      <4> QED BY <4>1 DEF LastPart
    <3> QED BY <3>1, <3>2, <3>3 DEF Room
  <2>8. Len(current) <= limitperarchive
    BY <1>2, <1>5, BoundType DEF MustAdvance
  <2>9. HasRoom'
    BY <1>1, <1>5, <2>1, <2>7, <2>8 DEF HasRoom
  <2> QED BY <1>1, <1>5, <2>4, <2>5, <2>6, <2>9 DEF PackInv, Filling
<1> QED BY <1>3, <1>4, <1>5 DEF ar_manager_add

\* tar succeeds.
LEMMA AddToTarPack ==
    ASSUME IInv, PackInv, NEW s \in Sizes, AddToTar(s)
    PROVE  PackInv'
<1> DEFINE x == adding[1]
<1>1. /\ pc = "append" /\ pc' = "open" /\ SizeRead(s) /\ Filling /\ ready = EmptyFcn
      /\ staging' = Appended(s) /\ current' = Append(current, x)
      /\ namestextfile' = Append(namestextfile, x.id)
      /\ placed' = Put(placed, x.id, [num |-> currentarchivenum, size |-> x.size])
      /\ may' = may /\ ready' = ready /\ currentarchivenum' = currentarchivenum
      /\ adding' = adding
  BY DEF AddToTar, PackInv
<1>2. /\ currentarchivenum \in Nat /\ current \in Seq(Member) /\ namestextfile \in Seq(Id)
      /\ x \in Member /\ x.id \in Id /\ CurrentTar.members \in Seq(Member)
  <2>1. adding \in Seq(Member) /\ adding # <<>>
    BY <1>1 DEF IInv, TypeOK, Adding
  <2>2. x \in Member
    BY <2>1
  <2> QED BY <2>2, CurrentIsTar DEF IInv, TypeOK, Tar, Member
<1>3. x.id \notin DOMAIN placed /\ x.id \notin CurrentIds
  BY <1>1 DEF Filling, InOrder, Contents
<1>4. /\ DOMAIN placed' = DOMAIN placed \cup {x.id}
      /\ placed'[x.id].num = currentarchivenum /\ placed'[x.id].size = x.size
      /\ \A i \in DOMAIN placed : placed'[i] = placed[i]
  BY <1>1, <1>3 DEF Put
<1> DEFINE tar == staging'[currentarchivenum]
<1>5. /\ DOMAIN staging' = DOMAIN staging \cup {currentarchivenum}
      /\ \A n \in DOMAIN staging : n # currentarchivenum => staging'[n] = staging[n]
      /\ CurrentTar' = tar
      /\ RemoveRepeats(tar.members) = namestextfile'
      /\ Ids(tar) = CurrentIds \cup {x.id}
      /\ "changed" \notin may =>
           \A l \in DOMAIN tar.members :
              LET m == tar.members[l]
              IN  \/ m.id \in DOMAIN placed /\ m.size = placed[m.id].size
                  \/ m.id = x.id /\ m.size = x.size
      /\ tar.members = Append(CurrentTar.members, [x EXCEPT !.size = s])
      /\ current # <<>> => Room(tar.members, x.id, x.size)
  BY <1>1, AppendPack DEF CurrentTar
<1> HIDE DEF x, tar
<1>6. /\ Len(current') = Len(current) + 1 /\ current'[Len(current) + 1] = x
      /\ DOMAIN current' = 1..Len(current) + 1 /\ DOMAIN current = 1..Len(current)
      /\ Len(current) \in Nat
      /\ \A k \in DOMAIN current : current'[k] = current[k]
  BY <1>1, <1>2
<1>7. CurrentIds' = CurrentIds \cup {x.id}
  BY <1>6 DEF CurrentIds
<1>8. /\ Contents(placed', currentarchivenum) = Contents(placed, currentarchivenum) \cup {x.id}
      /\ \A n : n # currentarchivenum => Contents(placed', n) = Contents(placed, n)
  BY <1>3, <1>4 DEF Contents
<1>9. InOrder'
  <2>1. namestextfile' = [k \in DOMAIN current' |-> current'[k].id]
    <3>1. /\ Len(namestextfile) = Len(current)
          /\ \A k \in DOMAIN current : namestextfile[k] = current[k].id
      BY <1>1, <1>2 DEF Filling, InOrder
    <3> QED BY <1>1, <1>2, <1>6, <3>1
  <2>2. ASSUME NEW j \in DOMAIN current', NEW k \in DOMAIN current', current'[j].id = current'[k].id
        PROVE  j = k
    <3>1. \A l \in DOMAIN current : current[l].id # x.id
      BY <1>3 DEF CurrentIds
    <3> QED BY <1>1, <1>6, <2>2, <3>1 DEF Filling, InOrder
  <2>3. CurrentIds' = Contents(placed', currentarchivenum')
    BY <1>1, <1>7, <1>8 DEF Filling, InOrder
  <2>4. ASSUME NEW k \in DOMAIN current' PROVE placed'[current'[k].id].size = current'[k].size
    <3>1. CASE k = Len(current) + 1
      BY <1>4, <1>6, <3>1
    <3>2. CASE k \in DOMAIN current
      <4>1. current[k].id \in DOMAIN placed /\ placed[current[k].id].size = current[k].size
        BY <1>1, <3>2 DEF Filling, InOrder, CurrentIds, Contents
      <4> QED BY <1>4, <1>6, <3>2, <4>1
    <3> QED BY <1>6, <3>1, <3>2
  <2>5. \A i \in DOMAIN placed' : placed'[i].num <= currentarchivenum'
    <3>1. \A i \in DOMAIN placed : placed[i].num <= currentarchivenum
      BY <1>1 DEF Filling, InOrder
    <3> QED BY <1>1, <1>2, <1>4, <3>1
  <2>6. current' # <<>>
    BY <1>6
  <2> QED BY <1>1, <2>1, <2>2, <2>3, <2>4, <2>5, <2>6 DEF Filling, InOrder
<1>10. OthersClosed'
  <2>1. ASSUME NEW n \in DOMAIN staging', n # currentarchivenum
        PROVE  Closed(placed', n, staging'[n])
    <3> DEFINE t == staging[n]
    <3>1. Closed(placed, n, t) /\ staging'[n] = t
      BY <1>1, <1>5, <2>1 DEF Filling, OthersClosed
    <3> HIDE DEF t
    <3>2. Ids(t) = Contents(placed', n) /\ \A i \in Ids(t) : placed'[i] = placed[i]
      BY <1>4, <1>8, <2>1, <3>1 DEF Closed, Contents
    <3>3. Closed(placed', n, t)
      BY <3>1, <3>2 DEF Closed
    <3> QED BY <3>1, <3>3
  <2>2. \A n \in DOMAIN staging' : n <= currentarchivenum'
    BY <1>1, <1>2, <1>5 DEF Filling, OthersClosed
  <2>3. \A i \in DOMAIN placed' :
          placed'[i].num = currentarchivenum' \/ placed'[i].num \in DOMAIN staging'
    BY <1>1, <1>4, <1>5 DEF Filling, OthersClosed
  <2> QED BY <1>1, <2>1, <2>2, <2>3 DEF OthersClosed, Closed, OneFault
<1>11. Listed'
  BY <1>5, <1>7 DEF Listed
<1>12. SameSize'
  BY <1>1, <1>4, <1>5 DEF SameSize
<1>13. OneEach'
  <2> SUFFICES ASSUME "retry" \notin may
               PROVE  /\ Len(tar.members) = Len(current')
                      /\ \A l \in DOMAIN current' : tar.members[l].id = current'[l].id
    BY <1>1, <1>5 DEF OneEach
  <2> DEFINE y == [x EXCEPT !.size = s]
  <2>1. /\ Len(CurrentTar.members) = Len(current)
        /\ \A l \in DOMAIN current : CurrentTar.members[l].id = current[l].id
    BY <1>1 DEF Filling, OneEach
  <2>2. y \in Member /\ y.id = x.id
    BY <1>2, SizeType DEF Member
  <2> HIDE DEF y
  <2>3. tar.members = Append(CurrentTar.members, y)
    BY <1>5 DEF y
  <2> QED BY <1>2, <1>6, <2>1, <2>2, <2>3
<1>14. HasRoom'
  <2>1. Len(current') <= limitperarchive + 1
    BY <1>1, <1>6, BoundType DEF Filling, HasRoom
  <2>2. Last(namestextfile') = x.id
    BY <1>1, <1>2 DEF Last
  <2>3. Len(current') > 1 => current # <<>>
    BY <1>6
  <2> QED BY <1>1, <1>4, <1>5, <2>1, <2>2, <2>3 DEF HasRoom
<1> QED BY <1>1, <1>9, <1>10, <1>11, <1>12, <1>13, <1>14 DEF PackInv, Filling

\* tar fails, before or after the member is in the archive.
LEMMA AddToTarFailsPack ==
    ASSUME IInv, PackInv, NEW s \in Sizes, AddToTarFails(s)
    PROVE  PackInv'
<1>1. /\ pc = "append" /\ SizeRead(s) /\ Filling /\ ready = EmptyFcn
      /\ current' = current /\ namestextfile' = namestextfile /\ placed' = placed
      /\ may' = may /\ ready' = ready /\ currentarchivenum' = currentarchivenum
      /\ adding' = adding /\ pc' \in {"append", "failed"}
      /\ \/ "retry" \in may /\ staging' = Appended(s)
         \/ staging' = staging
  BY DEF AddToTarFails, PackInv
<1>2. CASE pc' = "failed"
  BY <1>1, <1>2 DEF PackInv
<1>3. CASE pc' = "append" /\ staging' = staging
  <2>1. CurrentTar' = CurrentTar /\ CurrentIds' = CurrentIds /\ (OneFault' <=> OneFault)
    BY <1>1, <1>3 DEF CurrentTar, CurrentIds, OneFault
  <2>2. InOrder'
    BY <1>1, <1>3, <2>1 DEF Filling, InOrder
  <2>3. OthersClosed'
    BY <1>1, <1>3, <2>1 DEF Filling, OthersClosed, Closed
  <2>4. Listed' /\ SameSize' /\ OneEach' /\ HasRoom'
    BY <1>1, <1>3, <2>1 DEF Filling, Listed, SameSize, OneEach, HasRoom
  <2> QED BY <1>1, <1>3, <2>2, <2>3, <2>4 DEF PackInv, Filling
<1>4. CASE pc' = "append" /\ "retry" \in may /\ staging' = Appended(s)
  <2> DEFINE x == adding[1]
             tar == staging'[currentarchivenum]
  <2>1. /\ DOMAIN staging' = DOMAIN staging \cup {currentarchivenum}
        /\ \A n \in DOMAIN staging : n # currentarchivenum => staging'[n] = staging[n]
        /\ CurrentTar' = tar
        /\ RemoveRepeats(tar.members) = Append(namestextfile, x.id)
        /\ Ids(tar) = CurrentIds \cup {x.id}
        /\ "changed" \notin may =>
             \A l \in DOMAIN tar.members :
                LET m == tar.members[l]
                IN  \/ m.id \in DOMAIN placed /\ m.size = placed[m.id].size
                    \/ m.id = x.id /\ m.size = x.size
        /\ current # <<>> => Room(tar.members, x.id, x.size)
    BY <1>1, <1>4, AppendPack DEF CurrentTar
  <2> HIDE DEF x, tar
  <2>2. CurrentIds' = CurrentIds /\ (OneFault' <=> OneFault) /\ x' = x
    BY <1>1 DEF CurrentIds, OneFault, x
  <2>3. InOrder'
    BY <1>1, <1>4, <2>2 DEF Filling, InOrder
  <2>4. OthersClosed'
    <3>1. ASSUME NEW n \in DOMAIN staging', n # currentarchivenum
          PROVE  Closed(placed, n, staging'[n])
      BY <1>1, <2>1, <3>1 DEF Filling, OthersClosed
    <3>2. \A n \in DOMAIN staging' : n <= currentarchivenum
      BY <1>1, <2>1 DEF Filling, OthersClosed, IInv, TypeOK
    <3>3. \A i \in DOMAIN placed :
            placed[i].num = currentarchivenum \/ placed[i].num \in DOMAIN staging'
      BY <1>1, <2>1 DEF Filling, OthersClosed
    <3> QED BY <1>1, <2>2, <3>1, <3>2, <3>3 DEF OthersClosed, Closed
  <2>5. Listed' /\ SameSize'
    BY <1>1, <1>4, <2>1, <2>2 DEF Listed, SameSize, x
  <2>6. OneEach' /\ HasRoom'
    BY <1>1, <1>4, <2>1, <2>2 DEF Filling, OneEach, HasRoom, x
  <2> QED BY <1>1, <1>4, <2>3, <2>4, <2>5, <2>6 DEF PackInv, Filling
<1> QED BY <1>1, <1>2, <1>3, <1>4

\* The first archive is open and nothing is in it.
LEMMA BeginPack ==
    ASSUME IInv, PackInv, ar_manager_begin
    PROVE  PackInv'
<1>1. /\ placed' = EmptyFcn /\ current' = <<>> /\ namestextfile' = <<>>
      /\ staging' = EmptyFcn /\ currentarchivenum' = 1 /\ pc' = "open" /\ ready' = EmptyFcn
  BY DEF ar_manager_begin, PackInv
<1>2. DOMAIN EmptyFcn = {} /\ 1 \notin DOMAIN staging' /\ DOMAIN placed' = {}
  BY <1>1 DEF EmptyFcn
<1>3. CurrentTar' = EmptyTar /\ CurrentIds' = {}
  BY <1>1, <1>2 DEF CurrentTar, CurrentIds
<1>4. CurrentTar'.members = <<>> /\ Ids(CurrentTar') = {}
  BY <1>3 DEF EmptyTar, Ids
<1>5. RemoveRepeats(CurrentTar'.members) = <<>>
  BY <1>4, RemoveRepeatsSteps
<1>6. InOrder'
  <2>1. <<>> = [k \in DOMAIN <<>> |-> <<>>[k].id] /\ DOMAIN <<>> = {}
    OBVIOUS
  <2>2. Contents(placed', currentarchivenum') = {}
    BY <1>2 DEF Contents
  <2> QED BY <1>1, <1>2, <1>3, <2>1, <2>2 DEF InOrder
<1>7. OthersClosed' /\ Listed' /\ SameSize' /\ OneEach'
  BY <1>1, <1>2, <1>3, <1>4, <1>5 DEF OthersClosed, Listed, SameSize, OneEach
<1>8. HasRoom'
  BY <1>1, BoundType DEF HasRoom
<1> QED BY <1>1, <1>6, <1>7, <1>8 DEF PackInv, Filling

\* What is delivered is what is in staging once the last archive is closed.
LEMMA FinishPack ==
    ASSUME IInv, PackInv, ar_manager_finish
    PROVE  PackInv'
<1>1. pc = "open" /\ Filling /\ ready = EmptyFcn /\ placed' = placed /\ may' = may
  BY DEF ar_manager_finish, PackInv
<1>2. CASE pc' = "failed" /\ UNCHANGED <<workVars, ready>>
  BY <1>1, <1>2 DEF PackInv
<1>3. CASE /\ ar_util_verify \/ current = <<>>
           /\ ar_manager_advance_to_next /\ ready' = staging' /\ pc' = "done"
  <2>1. /\ \A n \in DOMAIN staging' : Closed(placed, n, staging'[n])
        /\ \A i \in DOMAIN placed : placed[i].num \in DOMAIN staging'
    BY <1>1, <1>3, AdvancePack
  <2>2. Delivered'
    BY <1>1, <1>3, <2>1 DEF Delivered, Closed, OneFault
  <2> QED BY <1>3, <2>2 DEF PackInv
<1> QED BY <1>2, <1>3 DEF ar_manager_finish

LEMMA PackStep == IInv /\ PackInv /\ [Next]_vars => PackInv'
<1> SUFFICES ASSUME IInv, PackInv, [Next]_vars PROVE PackInv'
  OBVIOUS
<1>1. ASSUME NEW i \in Id, NEW whole \in BOOLEAN, CompressFails(i, whole) PROVE PackInv'
  BY <1>1 DEF CompressFails, PackInv
<1>2. CASE UNCHANGED vars
  <2>1. CurrentTar' = CurrentTar /\ CurrentIds' = CurrentIds /\ (OneFault' <=> OneFault)
    BY <1>2 DEF vars, CurrentTar, CurrentIds, OneFault
  <2>2. InOrder' <=> InOrder
    BY <1>2, <2>1 DEF vars, InOrder
  <2>3. (OthersClosed' <=> OthersClosed) /\ (Delivered' <=> Delivered)
    BY <1>2, <2>1 DEF vars, OthersClosed, Delivered, Closed
  <2>4. /\ Listed' <=> Listed
        /\ SameSize' <=> SameSize
        /\ OneEach' <=> OneEach
        /\ HasRoom' <=> HasRoom
    BY <1>2, <2>1 DEF vars, Listed, SameSize, OneEach, HasRoom
  <2> QED BY <1>2, <2>2, <2>3, <2>4 DEF vars, PackInv, Filling
<1> QED BY <1>1, <1>2, BeginPack, AddPack, AddToTarPack, AddToTarFailsPack, FinishPack DEF Next

LEMMA PackInit == Init => PackInv
BY DEF Init, PackInv

LEMMA PackAlways == Spec => [](IInv /\ PackInv)
BY InitInv, StepInv, PackInit, PackStep, PTL DEF Spec

\* filenames.txt of every delivered archive lists its members in order, each once,
\* however often tar appended one and however many archives were closed before.
THEOREM DeliveredListed == Spec => []NamesListed
<1>1. IInv /\ PackInv => NamesListed
  <2> SUFFICES ASSUME PackInv, NEW n \in DOMAIN ready
               PROVE  ready[n].names = RemoveRepeats(ready[n].members)
    BY DEF NamesListed
  <2>1. CASE pc = "done"
    BY <2>1 DEF PackInv, Delivered, Closed
  <2>2. CASE pc # "done"
    BY <2>2 DEF PackInv, EmptyFcn
  <2> QED BY <2>1, <2>2
<1> QED BY <1>1, PackAlways, PTL

\* An archive that passes ar_util_verify gives back every content at the size
\* recorded for it, with files that change while they are packed or with tar run
\* again after it has appended, as long as one backup does not meet both.
THEOREM DeliveredSizes ==
    ASSUME \A m \in Mishaps : ~ ({"changed", "retry"} \subseteq m)
    PROVE  Spec => []VerifiedSizes
<1>1. IInv /\ PackInv => VerifiedSizes
  <2> SUFFICES ASSUME IInv, PackInv, NEW i \in DOMAIN placed, placed[i].num \in DOMAIN ready
               PROVE  Extracted(ready[placed[i].num], i) = placed[i].size
    BY DEF VerifiedSizes
  <2>1. OneFault
    BY DEF IInv, TypeOK, OneFault
  <2>2. pc = "done"
    BY DEF PackInv, EmptyFcn
  <2>3. Closed(placed, placed[i].num, ready[placed[i].num])
    BY <2>2 DEF PackInv, Delivered
  <2> QED BY <2>1, <2>3 DEF Closed, Contents
<1> QED BY <1>1, PackAlways, PTL

\* Every delivered archive had room for its last file when that was added, or has
\* only that one, and no archive holds more than limitperarchive + 1 files.
THEOREM DeliveredBounds == Spec => []ArchiveBounds
<1>1. IInv /\ PackInv => ArchiveBounds
  <2> SUFFICES ASSUME IInv, PackInv, NEW n \in DOMAIN ready
               PROVE  LET names   == ready[n].names
                          members == ready[n].members
                          first   == SelectInSeq(members, LAMBDA m : m.id = Last(names))
                      IN  /\ Len(names) <= limitperarchive + 1
                          /\ Len(names) > 1 =>
                               TarSize(SubSeq(members, 1, first - 1)) + placed[Last(names)].size
                                 <= target_archive_size
    BY DEF ArchiveBounds
  <2> DEFINE names   == ready[n].names
             members == ready[n].members
             I       == {l \in 1..Len(members) : members[l].id = Last(names)}
  <2>1. pc = "done"
    BY DEF PackInv, EmptyFcn
  <2>2. Closed(placed, n, ready[n])
    BY <2>1 DEF PackInv, Delivered
  <2>3. members \in Seq(Member)
    BY DEF IInv, TypeOK, IsTars, Tar
  <2>4. ASSUME Len(names) > 1
        PROVE  TarSize(SubSeq(members, 1, SelectInSeq(members, LAMBDA m : m.id = Last(names)) - 1))
                 + placed[Last(names)].size <= target_archive_size
    <3>1. PICK k \in 0..Len(members) :
               /\ LastPart(members, Last(names), k)
               /\ TarSize(SubSeq(members, 1, k)) + placed[Last(names)].size <= target_archive_size
      BY <2>2, <2>4 DEF Closed, Room
    <3>2. PICK l \in DOMAIN members : members[l].id = Last(names)
      BY <2>2 DEF Closed, Ids
    <3>3. k + 1 \in I /\ \A j \in I : k + 1 <= j
      BY <2>3, <3>1, <3>2 DEF LastPart
    <3>4. Min(I) = k + 1
      <4> HIDE DEF I
      <4>1. I \in SUBSET Nat
        BY DEF I
      <4>2. Min(I) \in I /\ Min(I) <= k + 1
        BY <3>3, <4>1, Extremes
      <4>3. k \in Nat
        BY <2>3, <3>1
      <4>4. Min(I) \in Nat /\ k + 1 <= Min(I)
        BY <3>3, <4>1, <4>2
      <4> HIDE DEF names, members
      <4> QED BY <4>2, <4>3, <4>4
    <3>5. SelectInSeq(members, LAMBDA m : m.id = Last(names)) = k + 1
      BY <3>3, <3>4 DEF SelectInSeq
    <3>6. k + 1 - 1 = k
      OBVIOUS
    <3> QED BY <3>1, <3>5, <3>6
  <2> QED BY <2>2, <2>4 DEF Closed
<1> QED BY <1>1, PackAlways, PTL

-----------------------------------------------------------------------------
(* That archives are the promise of Packing. *)

\* An archive is given up only for a content that gets the next one, so there are
\* no more numbers than contents, and one.
Numbered ==
    /\ pc = "open" => currentarchivenum <= Cardinality(DOMAIN placed) + 1
    /\ pc = "append" => currentarchivenum <= Cardinality(DOMAIN placed) + 2

LEMMA NumberedStep ==
    ASSUME IsFiniteSet(Id), IInv, PackInv, Numbered, [Next]_vars
    PROVE  Numbered'
<1>1. IsFiniteSet(DOMAIN placed) /\ Cardinality(DOMAIN placed) \in Nat
  BY FS_Subset, FS_CardinalityType DEF IInv, TypeOK
<1>2. currentarchivenum \in Nat
  BY DEF IInv, TypeOK
<1>3. CASE ar_manager_begin
  BY <1>1, <1>3 DEF ar_manager_begin, Numbered
<1>4. ASSUME NEW i \in Id, NEW s \in Sizes, NEW whole \in BOOLEAN, ar_manager_add(i, s, whole)
      PROVE  Numbered'
  BY <1>1, <1>2, <1>4 DEF ar_manager_add, ar_manager_advance_to_next, workVars, Numbered
<1>5. ASSUME NEW i \in Id, NEW whole \in BOOLEAN, CompressFails(i, whole) PROVE Numbered'
  BY <1>5 DEF CompressFails, Numbered
<1>6. ASSUME NEW s \in Sizes, AddToTar(s) PROVE Numbered'
  <2>1. adding[1].id \notin DOMAIN placed
    BY <1>6 DEF AddToTar, PackInv, Filling, InOrder
  <2>2. DOMAIN placed' = DOMAIN placed \cup {adding[1].id}
    BY <1>6 DEF AddToTar, Put
  <2>3. Cardinality(DOMAIN placed') = Cardinality(DOMAIN placed) + 1
    BY <1>1, <2>1, <2>2, FS_AddElement
  <2> QED BY <1>1, <1>2, <1>6, <2>3 DEF AddToTar, Numbered
<1>7. ASSUME NEW s \in Sizes, AddToTarFails(s) PROVE Numbered'
  BY <1>7 DEF AddToTarFails, Numbered
<1>8. CASE ar_manager_finish
  BY <1>8 DEF ar_manager_finish, Numbered
<1>9. CASE UNCHANGED vars
  BY <1>9 DEF vars, Numbered
<1> QED BY <1>3, <1>4, <1>5, <1>6, <1>7, <1>8, <1>9 DEF Next

\* What is delivered, as Packing has it.
Sent(archives) ==
    [n \in DOMAIN archives |-> [i \in Ids(archives[n]) |-> Extracted(archives[n], i)]]

\* A content is placed: in an archive of its own or the one before's.
LEMMA PlaceStep ==
    ASSUME IsFiniteSet(Id), IInv, PackInv, Numbered, NEW s \in Sizes, AddToTar(s)
    PROVE  Pack!Next
<1> DEFINE x == adding[1]
<1>1. Filling /\ ready = EmptyFcn /\ ready' = ready
  BY DEF AddToTar, PackInv
<1>2. adding \in Seq(Member) /\ adding # <<>>
  BY DEF IInv, TypeOK, Adding, AddToTar
<1>3. x \in Member /\ x.id \in Id /\ x.id \notin DOMAIN placed /\ x.size \in Sizes
  <2>1. x \in Member
    BY <1>2
  <2> QED BY <1>1, <2>1 DEF Filling, InOrder, AddToTar, Member
<1>4. currentarchivenum \in 1..Cardinality(Id) + 1
  <2>1. DOMAIN placed \cup {x.id} \subseteq Id
    BY <1>3 DEF IInv, TypeOK
  <2>2. /\ IsFiniteSet(DOMAIN placed) /\ Cardinality(DOMAIN placed) \in Nat
        /\ Cardinality(Id) \in Nat
    BY FS_Subset, FS_CardinalityType DEF IInv, TypeOK
  <2>3. Cardinality(DOMAIN placed \cup {x.id}) = Cardinality(DOMAIN placed) + 1
    BY <1>3, <2>2, FS_AddElement
  <2>4. Cardinality(DOMAIN placed \cup {x.id}) <= Cardinality(Id)
    BY <2>1, FS_Subset
  <2>5. currentarchivenum <= Cardinality(DOMAIN placed) + 2 /\ currentarchivenum >= 1
    BY <1>1 DEF Numbered, AddToTar, Filling, InOrder
  <2>6. currentarchivenum \in Nat
    BY DEF IInv, TypeOK
  <2> HIDE DEF x
  <2> QED BY <2>2, <2>3, <2>4, <2>5, <2>6
<1>5. Sent(ready) = Pack!EmptyFcn
  BY <1>1 DEF Sent, EmptyFcn, Pack!EmptyFcn
<1>6. \A j \in DOMAIN placed : placed[j].num <= currentarchivenum
  BY <1>1 DEF Filling, InOrder
<1>7. placed' = [j \in DOMAIN placed \cup {x.id} |->
                   IF j = x.id THEN [num |-> currentarchivenum, size |-> x.size] ELSE placed[j]]
  BY DEF AddToTar, Put
<1>8. Sent(ready') = Sent(ready)
  BY <1>1
<1>9. Pack!Place(x.id, currentarchivenum, x.size)
  BY <1>3, <1>5, <1>6, <1>7, <1>8 DEF Pack!Place, Sent
<1> QED BY <1>3, <1>4, <1>9 DEF Pack!Next

\* The archives are delivered, or there are none.
LEMMA DeliverStep ==
    ASSUME OneFault, IInv, PackInv, ar_manager_finish
    PROVE  Pack!Next \/ UNCHANGED <<placed, Sent(ready)>>
<1>1. /\ pc = "open" /\ Filling /\ ready = EmptyFcn /\ placed' = placed /\ may' = may
  BY DEF ar_manager_finish, PackInv
<1>2. CASE UNCHANGED ready
  BY <1>1, <1>2
<1>3. CASE ar_manager_advance_to_next /\ ready' = staging' /\ pc' = "done"
  <2>1. PackInv'
    BY FinishPack
  <2>2. Delivered' /\ OneFault'
    BY <1>1, <1>3, <2>1 DEF PackInv, OneFault
  <2>3. \A n \in DOMAIN ready' :
          /\ Ids(ready'[n]) = Contents(placed, n)
          /\ \E i \in DOMAIN placed : placed[i].num = n
          /\ \A i \in Ids(ready'[n]) : Extracted(ready'[n], i) = placed[i].size
    BY <1>1, <2>2 DEF Delivered, Closed, Contents
  <2>4. DOMAIN ready' = {placed[i].num : i \in DOMAIN placed}
    BY <1>1, <2>2, <2>3 DEF Delivered
  <2>5. ASSUME NEW n \in DOMAIN ready'
        PROVE  [i \in Ids(ready'[n]) |-> Extracted(ready'[n], i)]
                 = [i \in Pack!Contents(n) |-> placed[i].size]
    <3>1. Pack!Contents(n) = Ids(ready'[n])
      BY <2>3 DEF Contents, Pack!Contents
    <3> QED BY <2>3, <3>1
  <2>6. Sent(ready') = [n \in {placed[i].num : i \in DOMAIN placed} |->
                          [i \in Pack!Contents(n) |-> placed[i].size]]
    BY <2>4, <2>5 DEF Sent
  <2>7. Sent(ready) = Pack!EmptyFcn
    BY <1>1 DEF Sent, EmptyFcn, Pack!EmptyFcn
  <2>8. Pack!Deliver
    BY <1>1, <2>6, <2>7 DEF Pack!Deliver, Sent
  <2> QED BY <2>8 DEF Pack!Next
<1> QED BY <1>2, <1>3 DEF ar_manager_finish

\* The archive manager implements Packing: what arrives in readytoupload is every
\* content that was placed, in the archive that was reported and at the size that
\* was reported, or nothing, as long as one backup does not meet both a file that
\* changes while it is packed and a tar that fails after it has appended.
THEOREM ArManagerImplementsPacking ==
    ASSUME IsFiniteSet(Id), \A m \in Mishaps : ~ ({"changed", "retry"} \subseteq m)
    PROVE  Spec => PacksAsPromised
<1> DEFINE delivered == [n \in DOMAIN ready |->
                           [i \in Ids(ready[n]) |-> Extracted(ready[n], i)]]
<1>1. Init => Pack!Init
  BY DEF Init, Pack!Init, EmptyFcn, Pack!EmptyFcn
<1>2. Init => Numbered
  BY DEF Init, Numbered
<1>3. IInv /\ PackInv /\ Numbered /\ [Next]_vars => [Pack!Next]_<<placed, delivered>>
  <2> SUFFICES ASSUME IInv, PackInv, Numbered, [Next]_vars
               PROVE  Pack!Next \/ (placed' = placed /\ delivered' = delivered)
    OBVIOUS
  <2>1. delivered = Sent(ready) /\ delivered' = Sent(ready')
    BY DEF Sent
  <2>2. OneFault
    BY DEF IInv, TypeOK, OneFault
  <2>3. ready' = ready => delivered' = delivered
    OBVIOUS
  <2>4. CASE \E s \in Sizes : AddToTar(s)
    BY <2>4, PlaceStep
  <2>5. CASE ar_manager_finish
    BY <2>1, <2>2, <2>5, DeliverStep
  <2>6. CASE ar_manager_begin \/ UNCHANGED vars
    BY <2>3, <2>6 DEF ar_manager_begin, vars
  <2>7. ASSUME NEW i \in Id, NEW s \in Sizes, NEW whole \in BOOLEAN, ar_manager_add(i, s, whole)
        PROVE  placed' = placed /\ delivered' = delivered
    BY <2>3, <2>7 DEF ar_manager_add
  <2>8. ASSUME NEW i \in Id, NEW whole \in BOOLEAN, CompressFails(i, whole)
        PROVE  placed' = placed /\ delivered' = delivered
    BY <2>3, <2>8 DEF CompressFails
  <2>9. ASSUME NEW s \in Sizes, AddToTarFails(s)
        PROVE  placed' = placed /\ delivered' = delivered
    BY <2>3, <2>9 DEF AddToTarFails
  <2> QED BY <2>4, <2>5, <2>6, <2>7, <2>8, <2>9 DEF Next
<1>4. IInv /\ PackInv /\ Numbered /\ [Next]_vars => Numbered'
  BY NumberedStep
<1> QED BY <1>1, <1>2, <1>3, <1>4, InitInv, StepInv, PackInit, PackStep, PTL
        DEF Spec, PacksAsPromised, Pack!Spec
=============================================================================
