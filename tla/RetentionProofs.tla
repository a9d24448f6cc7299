--------------------------- MODULE RetentionProofs ---------------------------
(***************************************************************************)
(* Proofs about Retention and Groups: for every setting whose seconds fit  *)
(* in 32 bits, and any times between backups, compaction drops nothing     *)
(* that was backed up more recently than the setting says; and no crash or *)
(* error while settings are written makes one of them what nobody chose.   *)
(***************************************************************************)
EXTENDS Groups, SequenceTheorems, TLAPS

\* Collections finish in the order of their ids, and not in the future.
Ordered == /\ \A i \in 1..N : finished[i] <= now
           /\ \A i, j \in 1..N : i <= j => finished[i] <= finished[j]

Inv == TypeOK /\ Ordered

\* A setting that is computed without wrapping: up to 49710 days.
Fits == \A d \in DaysChoices : d * Day < Wrap

LEMMA LenNat == TypeOK => N \in Nat /\ DOMAIN finished = 1..N
BY DEF TypeOK, N

LEMMA DaysNat == TypeOK => days \in Nat
<1>1. \A d \in 0..valmax : d \in Nat
  OBVIOUS
<1> QED BY <1>1 DEF TypeOK

\* What backing up does to the list of collections.
LEMMA AppendFacts ==
    ASSUME TypeOK, sv_backup
    PROVE  /\ finished' \in Seq(Nat) /\ N' = N + 1
           /\ finished'[N + 1] = now
           /\ \A i \in 1..N : finished'[i] = finished[i]
BY DEF TypeOK, N, sv_backup, svdb_collectionupdate

LEMMA InitInv == Init => Inv
<1> SUFFICES ASSUME Init PROVE Inv
  OBVIOUS
<1>1. finished \in Seq(Nat) /\ N = 0
  BY DEF Init, N
<1> QED BY <1>1, DaysType DEF Init, Inv, TypeOK, Ordered

\* Every step keeps the types and the order.
LEMMA StepInv == Inv /\ [Next]_vars => Inv'
<1> SUFFICES ASSUME Inv, [Next]_vars PROVE Inv'
  OBVIOUS
<1>0. N \in Nat /\ TypeOK
  BY LenNat DEF Inv
<1>1. ASSUME NEW t \in Ticks, Tick(t) PROVE Inv'
  <2>1. t \in Nat /\ N' = N /\ finished' = finished /\ now' = now + t
    BY <1>1, TickType DEF Tick, N
  <2>2. \A i \in 1..N : finished[i] \in Nat
    BY <1>0 DEF TypeOK, N
  <2> QED BY <1>0, <1>1, <2>1, <2>2 DEF Tick, Inv, TypeOK, Ordered
<1>2. ASSUME NEW c \in Content, Release(c) \/ Acquire(c) PROVE Inv'
  <2>1. N' = N /\ finished' = finished
    BY <1>2 DEF Release, Acquire, N
  <2> QED BY <1>0, <1>2, <2>1 DEF Release, Acquire, Inv, TypeOK, Ordered
<1>3. ASSUME NEW d \in DaysChoices, app_edit_setting(d) PROVE Inv'
  <2>1. N' = N /\ finished' = finished
    BY <1>3 DEF app_edit_setting, N
  <2> QED BY <1>0, <1>3, <2>1, DaysType DEF app_edit_setting, Inv, TypeOK, Ordered
<1>4. CASE sv_backup
  <2>1. TypeOK'
    BY <1>0, <1>4, AppendFacts DEF sv_backup, TypeOK
  <2>2. Ordered'
    <3>1. now' = now /\ now \in Nat
      BY <1>0, <1>4 DEF sv_backup, TypeOK
    <3>2. /\ N' = N + 1 /\ finished'[N + 1] = now
          /\ \A i \in 1..N : finished'[i] = finished[i] /\ finished[i] <= now
      BY <1>0, <1>4, AppendFacts DEF Inv, Ordered
    <3>3. \A i \in 1..(N + 1) : finished'[i] <= now
      BY <1>0, <3>1, <3>2
    <3>4. ASSUME NEW i \in 1..(N + 1), NEW j \in 1..(N + 1), i <= j
          PROVE  finished'[i] <= finished'[j]
      <4>1. CASE j = N + 1
        BY <3>2, <3>3, <4>1
      <4>2. CASE j # N + 1
        <5>1. i \in 1..N /\ j \in 1..N
          BY <1>0, <3>4, <4>2
        <5> QED BY <3>2, <3>4, <5>1 DEF Inv, Ordered
      <4> QED BY <4>1, <4>2
    <3> QED BY <3>1, <3>2, <3>3, <3>4 DEF Ordered
  <2> QED BY <2>1, <2>2 DEF Inv
<1>5. ASSUME NEW k \in 1..N, NEW D \in SUBSET Content, sv_compact(k, D) PROVE Inv'
  <2>1. N' = N /\ finished' = finished
    BY <1>5 DEF sv_compact, N
  <2> QED BY <1>0, <1>5, <2>1 DEF sv_compact, Inv, TypeOK, Ordered
<1>6. CASE UNCHANGED vars
  BY <1>6 DEF vars, Inv, TypeOK, Ordered, N
<1> QED BY <1>1, <1>2, <1>3, <1>4, <1>5, <1>6 DEF Next

\* Every variable keeps its type, and collections stay in order.
THEOREM RetentionTypes == Spec => []TypeOK
<1>1. Inv => TypeOK
  BY DEF Inv
<1> QED BY <1>1, InitInv, StepInv, PTL DEF Spec

\* Rows leave the index by compaction only.
LEMMA OnlyCompactDrops ==
    ASSUME Inv, [Next]_vars, NEW c \in Dropped
    PROVE  \E k \in 1..N : /\ sv_compact_getcutoff(k) /\ last[c] <= k
<1>1. ASSUME NEW k \in 1..N, NEW D \in SUBSET Content, sv_compact(k, D)
      PROVE  sv_compact_getcutoff(k) /\ last[c] <= k
  BY <1>1 DEF sv_compact, Dropped
<1>2. ASSUME sv_backup PROVE FALSE
  BY <1>2 DEF sv_backup, Dropped
<1>3. ASSUME last' = last PROVE FALSE
  BY <1>3 DEF Dropped
<1> QED BY <1>1, <1>2, <1>3 DEF Next, vars, Tick, Release, Acquire, app_edit_setting

\* What the newest backup lists is never dropped, for any setting.
THEOREM NewestIsKept == Spec => NewestKept
<1>1. ASSUME Inv, [Next]_vars, NEW c \in Dropped PROVE last[c] < N
  <2>1. PICK k \in 1..N : sv_compact_getcutoff(k) /\ last[c] <= k
    BY <1>1, OnlyCompactDrops
  <2>2. k < N /\ N \in Nat
    BY <1>1, <2>1, LenNat DEF Inv, sv_compact_getcutoff, getcutoff_candidates
  <2>3. last[c] \in Nat
    BY <1>1 DEF Inv, TypeOK, Dropped
  <2> QED BY <2>1, <2>2, <2>3
<1>2. Inv /\ [Next]_vars => [\A c \in Dropped : last[c] < N]_vars
  BY <1>1
<1> QED BY <1>2, InitInv, StepInv, PTL DEF Spec, NewestKept

\* Contents that are dropped are old, when their days fit in 32 bits.
LEMMA CompactDropsOld ==
    ASSUME Inv, [Next]_vars, NEW c \in Dropped, days * Day < Wrap
    PROVE  IsOld(c)
<1>1. PICK k \in 1..N : sv_compact_getcutoff(k) /\ last[c] <= k
  BY OnlyCompactDrops
<1>2. last[c] \in 1..N /\ N \in Nat
  BY LenNat DEF Inv, TypeOK, Dropped
<1>3. days \in Nat /\ now \in Nat /\ finished \in Seq(Nat)
  BY DaysNat DEF Inv, TypeOK
<1>4. Seconds = days * Day
  BY <1>3 DEF Seconds, Day, Wrap
<1>5. now - finished[k] > days * Day
  BY <1>1, <1>4 DEF sv_compact_getcutoff, getcutoff_expired
<1>6. finished[last[c]] <= finished[k]
  BY <1>1, <1>2 DEF Inv, Ordered
<1>7. finished[k] \in Nat /\ finished[last[c]] \in Nat /\ days * Day \in Nat
  <2>1. finished[k] \in Nat /\ finished[last[c]] \in Nat
    BY <1>1, <1>2, <1>3 DEF N
  <2> QED BY <1>3, <2>1 DEF Day
<1> QED BY <1>3, <1>5, <1>6, <1>7 DEF IsOld

\* Nothing is dropped before its days are over, for any setting that does not wrap.
THEOREM DroppedAreOld == Spec => DroppedIsOld
<1>1. Inv /\ [Next]_vars => [days * Day < Wrap => \A c \in Dropped : IsOld(c)]_vars
  BY CompactDropsOld
<1> QED BY <1>1, InitInv, StepInv, PTL DEF Spec, DroppedIsOld

\* A menu that accepted up to 49710 days would keep everything as long as it is set.
THEOREM KeptWhenItFits ==
    ASSUME Fits
    PROVE  Spec => KeptAsLongAsSet
<1> DEFINE DInv == Inv /\ days \in DaysChoices
<1>1. Init => DInv
  BY InitInv DEF Init
<1>2. DInv /\ [Next]_vars => DInv'
  BY StepInv DEF Next, vars, Tick, Release, Acquire, app_edit_setting, sv_backup,
                 sv_compact
<1>3. DInv /\ [Next]_vars => [\A c \in Dropped : IsOld(c)]_vars
  BY CompactDropsOld DEF Fits
<1> QED BY <1>1, <1>2, <1>3, PTL DEF Spec, KeptAsLongAsSet

-----------------------------------------------------------------------------
(* Groups: the settings, and what Retention gets of them. *)

\* What an invariant about the settings needs to know about the rows sv_grp_persist
\* has yet to write.
Persisting ==
    pc = "persist" =>
        /\ left \in Seq(Setting)
        /\ \A s \in Setting : \/ s \in DOMAIN rows /\ rows[s] = grp[s]
                              \/ \E i \in 1..Len(left) : left[i] = s

\* Until a group is complete nothing is promised, and its first directory is the
\* only one.
Creating ==
    /\ complete => grpdir # "none" /\ newpath = {} /\ pc \in {"menu", "persist"}
    /\ grpdir = "none" => file = "none" /\ grp["root_directories"] = {}
    /\ file = "none" => DOMAIN rows = {}
    /\ pc = "menu" => newpath = {}
    /\ pc = "persist" => file # "none"
    /\ pc \in {"create", "connect", "schema"} => grpdir # "none" /\ DOMAIN rows = {}
    /\ newpath # {} => /\ \E d \in Directory : newpath = {d}
                       /\ Read("root_directories") = {}
                       /\ grp["root_directories"] = {}

Apart(D) == \A d, e \in D : d # e => <<d, e>> \notin os_issubdirof

\* The settings in memory are as good as those in the rows.
InMemory ==
    pc = "persist" =>
        /\ complete => \A s \in Setting : grp[s] \in chosen[s]
        /\ Apart(grp["root_directories"])

GInv ==
    /\ Inv
    /\ GroupTypeOK
    /\ Read("days_to_keep_prev_versions") \in DaysChoices
    /\ grp["days_to_keep_prev_versions"] \in DaysChoices
    /\ Persisting
    /\ Creating
    /\ InMemory
    /\ SettingsAsChosen
    /\ RootsApart

LEMMA SettingFacts ==
    /\ SettingOrder \in Seq(Setting)
    /\ \A s \in Setting : \E i \in 1..Len(SettingOrder) : SettingOrder[i] = s
    /\ \A s \in Setting : Missing(s) \in SettingValue(s)
    /\ \A s \in Numbers : s \in Setting /\ DefaultNumber[s] \in Nat /\ SettingValue(s) = Nat
    /\ {"root_directories", "exclusion_patterns"} \subseteq Setting
    /\ "days_to_keep_prev_versions" \in Numbers
    /\ SettingValue("root_directories") = SUBSET Directory
    /\ SettingValue("exclusion_patterns") = SUBSET Pattern
<1>1. /\ Len(SettingOrder) = 7
      /\ SettingOrder[1] = "root_directories"
      /\ SettingOrder[2] = "exclusion_patterns"
      /\ SettingOrder[3] = "days_to_keep_prev_versions"
      /\ SettingOrder[4] = "approx_archive_size_bytes"
      /\ SettingOrder[5] = "compact_threshold_bytes"
      /\ SettingOrder[6] = "separate_metadata"
      /\ SettingOrder[7] = "pause_duration_seconds"
  BY DEF SettingOrder
<1>2. SettingOrder \in Seq(Setting)
  BY DEF SettingOrder, Setting, Numbers
<1>3. \A s \in Setting : \E i \in 1..Len(SettingOrder) : SettingOrder[i] = s
  BY <1>1 DEF Setting, Numbers
<1>4. \A s \in Setting : Missing(s) \in SettingValue(s)
  BY DEF Missing, SettingValue, Setting, Numbers
<1>5. \A s \in Numbers : s \in Setting /\ DefaultNumber[s] \in Nat /\ SettingValue(s) = Nat
  BY DEF Numbers, Setting, DefaultNumber, SettingValue
<1> QED BY <1>2, <1>3, <1>4, <1>5 DEF SettingValue, Setting, Numbers

\* What sv_grp_load returns.
LEMMA LoadFacts ==
    ASSUME GInv
    PROVE  /\ DOMAIN sv_grp_load = Setting
           /\ \A s \in Setting : sv_grp_load[s] = Read(s) /\ Read(s) \in SettingValue(s)
<1>1. \A s \in Setting : Read(s) \in SettingValue(s)
  BY SettingFacts DEF GInv, GroupTypeOK, Read
<1> QED BY <1>1 DEF sv_grp_load

LEMMA GroupInitInv == GroupInit => GInv
<1> SUFFICES ASSUME GroupInit PROVE GInv
  OBVIOUS
<1>1. Inv
  BY InitInv DEF GroupInit
<1>2. \A s \in Setting : Read(s) = Missing(s) /\ grp[s] = Missing(s)
  BY DEF GroupInit, Read, sv_grp_load
<1>3. /\ Missing("days_to_keep_prev_versions") = 0
      /\ Missing("root_directories") = {}
  BY DEF Missing, Numbers
<1>4. GroupTypeOK
  <2>1. DOMAIN rows = {}
    BY DEF GroupInit
  <2>2. DOMAIN grp = Setting /\ \A s \in Setting : grp[s] \in SettingValue(s)
    BY <1>2, SettingFacts DEF GroupInit, sv_grp_load
  <2>3. DOMAIN chosen = Setting
    BY DEF GroupInit
  <2>4. days = Read("days_to_keep_prev_versions")
    BY <1>2, <1>3, SettingFacts DEF GroupInit
  <2>5. TypeOK
    BY <1>1 DEF Inv
  <2> HIDE DEF Read
  <2> QED BY <2>1, <2>2, <2>3, <2>4, <2>5 DEF GroupInit, GroupTypeOK
<1>5. 0 \in DaysChoices
  BY EntryTypes
<1> QED BY <1>1, <1>2, <1>3, <1>4, <1>5, SettingFacts
    DEF GInv, GroupInit, Persisting, Creating, InMemory, SettingsAsChosen, RootsApart

\* Steps that leave the rows and what Retention sees alone, and start nothing.
LEMMA QuietSteps ==
    ASSUME GInv,
           \/ \E d \in Directory : sv_app_creategroup(d)
           \/ MakeReadyToUpload
           \/ svdb_connect
           \/ Interrupted
           \/ PersistDone
    PROVE  GInv'
<1>1. Inv'
  <2>1. UNCHANGED vars
    BY DEF sv_app_creategroup, MakeReadyToUpload, svdb_connect, Interrupted, PersistDone
  <2> QED BY <2>1, StepInv DEF GInv
<1>2. rows' = rows /\ days' = days /\ \A s : Read(s)' = Read(s)
  BY DEF sv_app_creategroup, MakeReadyToUpload, svdb_connect, Interrupted, PersistDone,
         vars, Read
<1>3. /\ \A s \in Setting : Missing(s) \in SettingValue(s)
      /\ "root_directories" \in Setting /\ "days_to_keep_prev_versions" \in Setting
      /\ Missing("root_directories") = {} /\ Missing("days_to_keep_prev_versions") = 0
      /\ 0 \in DaysChoices
  BY SettingFacts, EntryTypes DEF Missing, Numbers
<1>4. CASE \E d \in Directory : sv_app_creategroup(d)
  <2>1. DOMAIN rows = {} /\ Read("root_directories") = {}
    BY <1>3, <1>4 DEF sv_app_creategroup, GInv, Creating, Read
  <2>2. Creating'
    BY <1>2, <1>4, <2>1 DEF sv_app_creategroup, GInv, Creating
  <2> QED
    BY <1>1, <1>2, <1>3, <1>4, <2>2
       DEF GInv, sv_app_creategroup, Inv, GroupTypeOK, Persisting, InMemory,
           SettingsAsChosen, RootsApart
<1>5. CASE MakeReadyToUpload \/ svdb_connect
  BY <1>1, <1>2, <1>3, <1>5
     DEF GInv, MakeReadyToUpload, svdb_connect, Inv, GroupTypeOK, Persisting, Creating,
         InMemory, SettingsAsChosen, RootsApart
<1>6. CASE Interrupted
  BY <1>1, <1>2, <1>3, <1>6
     DEF GInv, Interrupted, Inv, GroupTypeOK, Persisting, Creating, InMemory,
         SettingsAsChosen, RootsApart
<1>7. CASE PersistDone
  <2>1. \A s \in Setting : Read(s) = grp[s]
    BY <1>7 DEF PersistDone, GInv, Persisting, Read
  <2>2. /\ GroupTypeOK' /\ Creating' /\ Persisting' /\ InMemory' /\ RootsApart'
    <3>1. grpdir # "none"
      BY <1>7, <2>1, <1>3 DEF PersistDone, GInv, Creating, Persisting
    <3> QED BY <1>1, <1>2, <1>3, <1>7, <3>1
       DEF GInv, PersistDone, Inv, GroupTypeOK, Persisting, Creating, InMemory, RootsApart
  <2>3. SettingsAsChosen'
    BY <1>2, <1>7, <2>1 DEF PersistDone, SettingsAsChosen
  <2> QED BY <1>1, <1>2, <1>7, <2>2, <2>3 DEF GInv, PersistDone
<1> QED BY <1>4, <1>5, <1>6, <1>7

\* Steps that load a group and begin to write it.
LEMMA StartFacts ==
    ASSUME GInv, NEW g, StartPersist(g), rows' = rows
    PROVE  Persisting'
<1>1. left' \in Seq(Setting) /\ \A s \in Setting : \E i \in 1..Len(left') : left'[i] = s
  BY SettingFacts DEF StartPersist
<1> QED BY <1>1 DEF Persisting

LEMMA CreateSteps ==
    ASSUME GInv, svdb_addschema \/ AddFirstDirectory
    PROVE  GInv'
<1>1. Inv'
  <2>1. UNCHANGED vars
    BY DEF svdb_addschema, AddFirstDirectory
  <2> QED BY <2>1, StepInv DEF GInv
<1>2. rows' = rows /\ days' = days /\ \A s : Read(s)' = Read(s)
  BY DEF svdb_addschema, AddFirstDirectory, vars, Read
<1>3. Persisting'
  BY <1>2, StartFacts DEF svdb_addschema, AddFirstDirectory
<1>4. ~ complete /\ complete' = FALSE /\ grpdir' = grpdir /\ grpdir # "none"
  <2>1. CASE svdb_addschema
    BY <2>1 DEF svdb_addschema, GInv, Creating, GroupTypeOK
  <2>2. CASE AddFirstDirectory
    <3>1. "root_directories" \in DOMAIN rows
      BY <2>2, SettingFacts DEF AddFirstDirectory, GInv, Persisting
    <3> QED BY <2>2, <3>1 DEF AddFirstDirectory, GInv, Creating, GroupTypeOK
  <2> QED BY <2>1, <2>2
<1>5. CASE svdb_addschema
  <2>1. grp' = add_default_group_settings(sv_grp_load)
    BY <1>5 DEF svdb_addschema, StartPersist
  <2>2. /\ DOMAIN grp' = Setting
        /\ \A s \in Setting : grp'[s] \in SettingValue(s)
        /\ grp'["root_directories"] = Read("root_directories")
        /\ grp'["days_to_keep_prev_versions"] \in DaysChoices
    <3>1. "root_directories" \notin Numbers /\ "exclusion_patterns" \notin Numbers
      BY DEF Numbers
    <3>2. \A s \in Setting : s \notin Numbers => s \in {"root_directories", "exclusion_patterns"}
      BY DEF Setting
    <3>3. sv_grp_load["exclusion_patterns"] \cup DefaultPatterns \in SUBSET Pattern
      BY LoadFacts, SettingFacts, PatternType
    <3>4. \A s \in Setting : grp'[s] \in SettingValue(s)
      <4> SUFFICES ASSUME NEW s \in Setting PROVE grp'[s] \in SettingValue(s)
        OBVIOUS
      <4>1. CASE s \in Numbers
        BY <2>1, <4>1, SettingFacts DEF add_default_group_settings
      <4>2. CASE s = "exclusion_patterns"
        BY <2>1, <3>1, <3>3, <4>2, SettingFacts DEF add_default_group_settings
      <4>3. CASE s = "root_directories"
        <5>1. grp'[s] = sv_grp_load[s]
          BY <2>1, <3>1, <4>3 DEF add_default_group_settings
        <5> QED BY <5>1, LoadFacts
      <4> QED BY <3>2, <4>1, <4>2, <4>3
    <3> QED BY <2>1, <3>1, <3>4, LoadFacts, SettingFacts, EntryTypes
            DEF add_default_group_settings
  <2>3. GroupTypeOK'
    BY <1>1, <1>2, <1>5, <2>2
       DEF svdb_addschema, StartPersist, GInv, Inv, GroupTypeOK
  <2>4. Creating'
    BY <1>2, <1>4, <1>5, <2>2 DEF svdb_addschema, StartPersist, GInv, Creating
  <2>5. Apart(grp["root_directories"])'
    BY <2>2 DEF GInv, RootsApart, Apart
  <2> QED BY <1>1, <1>2, <1>3, <1>4, <2>2, <2>3, <2>4, <2>5
          DEF GInv, InMemory, SettingsAsChosen, RootsApart
<1>6. CASE AddFirstDirectory
  <2>1. PICK d \in Directory : newpath = {d} /\ Read("root_directories") = {}
    BY <1>6 DEF AddFirstDirectory, GInv, Creating
  <2>2. \A s \in Setting : grp'[s] = IF s = "root_directories" THEN {d} ELSE Read(s)
    <3>1. grp' = [sv_grp_load EXCEPT !["root_directories"] = @ \cup newpath]
      BY <1>6 DEF AddFirstDirectory, StartPersist
    <3>2. sv_grp_load["root_directories"] \cup newpath = {d}
      BY <2>1, LoadFacts, SettingFacts
    <3> QED BY <3>1, <3>2, LoadFacts, SettingFacts
  <2>3. /\ DOMAIN grp' = Setting
        /\ \A s \in Setting : grp'[s] \in SettingValue(s)
        /\ grp'["root_directories"] = {d}
        /\ grp'["days_to_keep_prev_versions"] \in DaysChoices
    <3>1. DOMAIN grp' = Setting
      BY <1>6, LoadFacts DEF AddFirstDirectory, StartPersist
    <3>2. \A s \in Setting : grp'[s] \in SettingValue(s)
      <4>1. {d} \in SettingValue("root_directories")
        BY SettingFacts
      <4> QED BY <2>2, <4>1, LoadFacts
    <3>3. "days_to_keep_prev_versions" # "root_directories"
      OBVIOUS
    <3> QED BY <2>2, <3>1, <3>2, <3>3, SettingFacts DEF GInv
  <2>4. GroupTypeOK'
    BY <1>1, <1>2, <1>6, <2>3
       DEF AddFirstDirectory, StartPersist, GInv, Inv, GroupTypeOK
  <2>5. Creating'
    BY <1>2, <1>4, <1>6 DEF AddFirstDirectory, StartPersist, GInv, Creating
  <2>6. Apart(grp["root_directories"])'
    BY <2>3 DEF Apart
  <2> QED BY <1>1, <1>2, <1>3, <1>4, <2>3, <2>4, <2>5, <2>6
          DEF GInv, InMemory, SettingsAsChosen, RootsApart
<1> QED BY <1>5, <1>6

\* An edit of one setting.
LEMMA EditStep ==
    ASSUME GInv, NEW s \in Setting, NEW v \in SettingValue(s), Edit(s, v),
           s = "days_to_keep_prev_versions" => v \in DaysChoices,
           s = "root_directories" => Apart(v)
    PROVE  GInv'
<1>1. Inv'
  <2>1. UNCHANGED vars
    BY DEF Edit
  <2> QED BY <2>1, StepInv DEF GInv
<1>2. rows' = rows /\ days' = days /\ \A t : Read(t)' = Read(t)
  BY DEF Edit, vars, Read
<1>3. Persisting'
  BY <1>2, StartFacts DEF Edit
<1>4. /\ DOMAIN grp' = Setting
      /\ \A t \in Setting : grp'[t] = IF t = s THEN v ELSE Read(t)
  BY LoadFacts DEF Edit, StartPersist
<1>5. \A t \in Setting : grp'[t] \in SettingValue(t)
  BY <1>4, LoadFacts
<1>6. /\ grp'["days_to_keep_prev_versions"] \in DaysChoices
      /\ Apart(grp["root_directories"])'
  BY <1>4, SettingFacts DEF GInv, RootsApart, Apart
<1>7. GroupTypeOK'
  BY <1>1, <1>2, <1>4, <1>5 DEF Edit, StartPersist, GInv, Inv, GroupTypeOK
<1>8. Creating'
  BY <1>2 DEF Edit, StartPersist, GInv, Creating, Listed, GroupTypeOK
<1>9. \A t \in Setting : Read(t) \in chosen'[t] /\ grp'[t] \in chosen'[t]
  BY <1>4 DEF Edit
<1> QED BY <1>1, <1>2, <1>3, <1>6, <1>7, <1>8, <1>9
        DEF GInv, InMemory, SettingsAsChosen, RootsApart

\* One row is written: Retention sees an edited setting or nothing.
LEMMA PersistStep ==
    ASSUME GInv, sv_grp_persist
    PROVE  GInv' /\ [Next]_vars
<1>0. /\ Head(left) \in Setting /\ left' \in Seq(Setting)
      /\ pc = "persist" /\ left \in Seq(Setting)
  BY HeadTailProperties DEF GInv, Persisting, sv_grp_persist
<1>1. PICK s \in Setting : s = Head(left)
  BY <1>0
<1>2. rows' = [t \in DOMAIN rows \cup {s} |-> IF t = s THEN grp[s] ELSE rows[t]]
  BY <1>1 DEF sv_grp_persist
<1>3. Read(s)' = grp[s] /\ \A t : t # s => Read(t)' = Read(t)
  BY <1>2 DEF Read
<1>4. [Next]_vars
  <2>1. CASE s = "days_to_keep_prev_versions"
    BY <1>0, <1>1, <2>1 DEF sv_grp_persist, Next, GInv
  <2>2. CASE s # "days_to_keep_prev_versions"
    BY <1>0, <1>1, <2>2 DEF sv_grp_persist
  <2> QED BY <2>1, <2>2
<1>5. Inv'
  BY <1>4, StepInv DEF GInv
<1>6. days' = Read("days_to_keep_prev_versions")'
  <2>1. CASE s = "days_to_keep_prev_versions"
    BY <1>0, <1>1, <1>3, <2>1 DEF sv_grp_persist, app_edit_setting
  <2>2. CASE s # "days_to_keep_prev_versions"
    BY <1>0, <1>1, <1>3, <2>2 DEF sv_grp_persist, GInv, GroupTypeOK, vars
  <2> QED BY <2>1, <2>2
<1>7. GroupTypeOK'
  <2>1. DOMAIN rows' \subseteq Setting /\ \A t \in DOMAIN rows' : rows'[t] \in SettingValue(t)
    BY <1>0, <1>1, <1>2 DEF GInv, GroupTypeOK
  <2> QED BY <1>0, <1>1, <1>5, <1>6, <2>1 DEF GInv, Inv, GroupTypeOK, sv_grp_persist
<1>8. Persisting'
  <2> SUFFICES ASSUME NEW t \in Setting
               PROVE  \/ t \in DOMAIN rows' /\ rows'[t] = grp[t]
                      \/ \E i \in 1..Len(left') : left'[i] = t
    BY <1>0 DEF Persisting, sv_grp_persist
  <2>1. CASE t = s
    BY <1>2, <2>1
  <2>2. CASE t # s /\ t \in DOMAIN rows /\ rows[t] = grp[t]
    BY <1>2, <2>2
  <2>3. ASSUME t # s, NEW i \in 1..Len(left), left[i] = t
        PROVE  \E j \in 1..Len(left') : left'[j] = t
    <3>1. left # <<>> /\ left' = Tail(left) /\ i # 1
      BY <1>0, <1>1, <2>3 DEF sv_grp_persist
    <3>2. Len(left') = Len(left) - 1 /\ \A j \in 1..Len(left') : left'[j] = left[j + 1]
      BY <1>0, <1>1, <3>1, HeadTailProperties
    <3>3. i - 1 \in 1..Len(left') /\ left'[i - 1] = t
      BY <1>0, <1>1, <2>3, <3>1, <3>2
    <3> QED BY <3>3
  <2> QED BY <1>0, <1>1, <2>1, <2>2, <2>3 DEF GInv, Persisting
<1>9. Creating'
  <2>1. newpath # {} => Read("root_directories")' = {}
    BY <1>3 DEF GInv, Creating
  <2>2. file # "none"
    BY DEF GInv, Creating, sv_grp_persist
  <2> QED BY <1>0, <1>1, <2>1, <2>2 DEF GInv, Creating, sv_grp_persist
<1>10. InMemory' /\ SettingsAsChosen' /\ RootsApart'
  <2>1. SettingsAsChosen'
    BY <1>0, <1>1, <1>3 DEF GInv, InMemory, SettingsAsChosen, sv_grp_persist
  <2>2. RootsApart'
    BY <1>0, <1>1, <1>3 DEF GInv, InMemory, RootsApart, Apart
  <2> QED BY <2>1, <2>2 DEF GInv, InMemory, sv_grp_persist
<1> QED BY <1>3, <1>4, <1>5, <1>7, <1>8, <1>9, <1>10 DEF GInv, sv_grp_persist

\* What happens to files and collections leaves the settings alone.
LEMMA ContentSteps ==
    ASSUME GInv,
           \/ World
           \/ Backup
           \/ \E k \in 1..N, D \in SUBSET Content : Compact(k, D)
    PROVE  GInv' /\ [Next]_vars
<1>1. [Next]_vars
  BY DEF World, Backup, Compact, Next
<1>2. Inv'
  BY <1>1, StepInv DEF GInv
<1>3. /\ UNCHANGED <<grpdir, rows, grp, pc, left, newpath, complete, chosen>>
      /\ \A s : Read(s)' = Read(s)
      /\ days' = days
      /\ file' = file \/ (file # "none" /\ file' = "schema")
  BY DEF World, Backup, Compact, groupVars, Read, Tick, Release, Acquire, sv_backup,
         sv_compact, Listed
<1> QED BY <1>1, <1>2, <1>3
        DEF GInv, Inv, GroupTypeOK, Persisting, Creating, InMemory, SettingsAsChosen,
            RootsApart

LEMMA GroupStepInv == GInv /\ [GroupNext]_allVars => GInv' /\ [Next]_vars
<1> SUFFICES ASSUME GInv, [GroupNext]_allVars PROVE GInv' /\ [Next]_vars
  OBVIOUS
<1>1. CASE \/ \E d \in Directory : sv_app_creategroup(d)
           \/ MakeReadyToUpload \/ svdb_connect \/ Interrupted \/ PersistDone
  <2>1. UNCHANGED vars
    BY <1>1 DEF sv_app_creategroup, MakeReadyToUpload, svdb_connect, Interrupted,
                PersistDone
  <2> QED BY <1>1, <2>1, QuietSteps
<1>2. CASE svdb_addschema \/ AddFirstDirectory
  <2>1. UNCHANGED vars
    BY <1>2 DEF svdb_addschema, AddFirstDirectory
  <2> QED BY <1>2, <2>1, CreateSteps
<1>3. CASE sv_grp_persist
  BY <1>3, PersistStep
<1>4. CASE app_menu_edit_grp_dirs
  <2> DEFINE D == Read("root_directories")
  <2>0. D \in SUBSET Directory
    BY LoadFacts, SettingFacts
  <2>1. PICK v \in SUBSET Directory : Edit("root_directories", v) /\ Apart(v)
    <3>1. ASSUME NEW d \in D, Edit("root_directories", D \ {d})
          PROVE  \E v \in SUBSET Directory : Edit("root_directories", v) /\ Apart(v)
      <4>1. Apart(D \ {d})
        BY DEF GInv, RootsApart, Apart
      <4> QED BY <2>0, <3>1, <4>1
    <3>2. ASSUME NEW d \in Directory, valid(d, D), Edit("root_directories", D \cup {d})
          PROVE  \E v \in SUBSET Directory : Edit("root_directories", v) /\ Apart(v)
      <4>1. Apart(D \cup {d})
        BY <3>2 DEF GInv, RootsApart, Apart, valid
      <4> QED BY <2>0, <3>2, <4>1
    <3> QED BY <1>4, <3>1, <3>2 DEF app_menu_edit_grp_dirs
  <2>2. UNCHANGED vars
    BY <2>1 DEF Edit
  <2> QED BY <2>1, <2>2, EditStep, SettingFacts
<1>5. CASE app_menu_edit_grp_patterns
  <2>0. Read("exclusion_patterns") \in SUBSET Pattern
    BY LoadFacts, SettingFacts
  <2>1. PICK v \in SUBSET Pattern : Edit("exclusion_patterns", v)
    BY <1>5, <2>0 DEF app_menu_edit_grp_patterns
  <2>2. UNCHANGED vars
    BY <2>1 DEF Edit
  <2> QED BY <2>1, <2>2, EditStep, SettingFacts
<1>6. ASSUME NEW s \in Numbers, EditNumber(s) PROVE GInv' /\ [Next]_vars
  <2>1. PICK v \in Entries[s] : Edit(s, v)
    BY <1>6 DEF EditNumber
  <2>2. v \in Nat /\ s \in Setting /\ SettingValue(s) = Nat /\ s # "root_directories"
    BY <2>1, EntryTypes, SettingFacts DEF Numbers
  <2>3. s = "days_to_keep_prev_versions" => v \in DaysChoices
    BY <2>1, EntryTypes
  <2>4. UNCHANGED vars
    BY <2>1 DEF Edit
  <2> QED BY <2>1, <2>2, <2>3, <2>4, EditStep
<1>7. CASE \/ Backup \/ World
           \/ \E k \in 1..N, D \in SUBSET Content : Compact(k, D)
  BY <1>7, ContentSteps
<1>8. CASE UNCHANGED allVars
  <2>1. UNCHANGED vars
    BY <1>8 DEF allVars
  <2>2. Inv'
    BY <2>1, StepInv DEF GInv
  <2>3. \A s : Read(s)' = Read(s)
    BY <1>8 DEF allVars, groupVars, Read
  <2> QED BY <1>8, <2>1, <2>2, <2>3
          DEF allVars, groupVars, vars, GInv, Inv, GroupTypeOK, Persisting, Creating,
              InMemory, SettingsAsChosen, RootsApart
<1> QED BY <1>1, <1>2, <1>3, <1>4, <1>5, <1>6, <1>7, <1>8 DEF GroupNext

\* Every variable keeps its type, and the days compaction uses are those of the row.
THEOREM GroupTypes == GroupSpec => []GroupTypeOK
<1>1. GInv => GroupTypeOK
  BY DEF GInv
<1> QED BY <1>1, GroupInitInv, GroupStepInv, PTL DEF GroupSpec

\* No crash or error turns a setting of a complete group into one nobody chose.
THEOREM SettingsKept == GroupSpec => []SettingsAsChosen
<1>1. GInv => SettingsAsChosen
  BY DEF GInv
<1> QED BY <1>1, GroupInitInv, GroupStepInv, PTL DEF GroupSpec

\* The directories of a group never overlap.
THEOREM DirectoriesApart == GroupSpec => []RootsApart
<1>1. GInv => RootsApart
  BY DEF GInv
<1> QED BY <1>1, GroupInitInv, GroupStepInv, PTL DEF GroupSpec

\* A group whose settings are written row by row, with crashes, keeps old contents the
\* way Retention says: the days are always some days of DaysChoices.
THEOREM GroupsRetain == GroupSpec => Spec
<1>1. GroupInit => Init
  BY DEF GroupInit
<1> QED BY <1>1, GroupInitInv, GroupStepInv, PTL DEF GroupSpec, Spec
=============================================================================
