-------------------------------- MODULE Groups --------------------------------
(***************************************************************************)
(* A backup group and its settings: created by sv_app_creategroup, edited  *)
(* from the menus, kept as rows of TblProperties that sv_grp_persist       *)
(* writes one by one, each a transaction of its own.  The program may be   *)
(* killed, or a write may fail, between any two of these steps.  Retention *)
(* is what one of the settings is for: its days are what sv_grp_load reads *)
(* from the row when sv_compact begins.                                    *)
(***************************************************************************)
EXTENDS Retention, FiniteSets

CONSTANTS
    Directory,       \* directories the user may choose to back up
    Pattern,         \* exclusion patterns the user may add
    os_issubdirof,   \* the pairs <<s1, s2>> where s2 is s1 or inside s1
    DefaultPatterns, \* the patterns of add_default_group_settings
    Entries          \* for each number, what the user may enter

Numbers == {"days_to_keep_prev_versions", "approx_archive_size_bytes",
            "compact_threshold_bytes", "separate_metadata", "pause_duration_seconds"}

\* The settings in the order they are written; sizes are in Mb.
SettingOrder ==
    <<"root_directories", "exclusion_patterns", "days_to_keep_prev_versions",
      "approx_archive_size_bytes", "compact_threshold_bytes", "separate_metadata",
      "pause_duration_seconds">>

Setting == Numbers \cup {"root_directories", "exclusion_patterns"}

DefaultNumber ==
    [days_to_keep_prev_versions |-> 30, approx_archive_size_bytes |-> 64,
     compact_threshold_bytes |-> 32, separate_metadata |-> 0,
     pause_duration_seconds |-> 30]

ASSUME DirectoryType == os_issubdirof \subseteq Directory \X Directory
ASSUME PatternType == DefaultPatterns \subseteq Pattern
ASSUME EntryTypes ==
    /\ Entries \in [Numbers -> SUBSET Nat]
    /\ Entries["days_to_keep_prev_versions"] = DaysChoices
    /\ {0, DefaultNumber["days_to_keep_prev_versions"]} \subseteq DaysChoices

VARIABLES
    grpdir,    \* the directory of the group: "none", "made", or "full" with readytoupload
    file,      \* NAME_index.db: "none", "empty", or with the "schema"
    rows,      \* TblProperties: the settings that have a row, and their values
    grp,       \* the sv_group in memory
    pc,        \* what the program is doing
    left,      \* the rows sv_grp_persist has yet to write
    newpath,   \* the directory to add to a group that is being created, as a set
    complete,  \* history: sv_app_creategroup ended, the settings are the user's
    chosen     \* history: for each setting, the values the user may take it to have

groupVars == <<grpdir, file, rows, grp, pc, left, newpath, complete, chosen>>
allVars == <<vars, groupVars>>

\* svdb_getlist and svdb_getint read a row that is missing as empty and as 0.
Missing(s) == IF s \in Numbers THEN 0 ELSE {}

Read(s) == IF s \in DOMAIN rows THEN rows[s] ELSE Missing(s)

\* Fault: the group that is written was never loaded.
sv_grp_load_skipped == [s \in Setting |-> Missing(s)]

sv_grp_load == [s \in Setting |-> Read(s)]

add_default_group_settings(g) ==
    [s \in Setting |->
        IF s \in Numbers THEN DefaultNumber[s]
        ELSE IF s = "exclusion_patterns" THEN g[s] \cup DefaultPatterns
        ELSE g[s]]

GroupInit ==
    /\ Init
    /\ days = 0
    /\ grpdir = "none"
    /\ file = "none"
    /\ rows = [s \in {} |-> 0]
    /\ grp = sv_grp_load
    /\ pc = "menu"
    /\ left = <<>>
    /\ newpath = {}
    /\ complete = FALSE
    /\ chosen = [s \in Setting |-> {Missing(s)}]

\* sv_app_findgroupnames lists a group by its index.
Listed == file # "none"

\* The settings are written to the index before the menu comes back.
StartPersist(g) ==
    /\ grp' = g
    /\ left' = SettingOrder
    /\ pc' = "persist"

-----------------------------------------------------------------------------
(* Creating a group. *)

\* A name whose directory exists is refused, listed or not.
sv_app_creategroup(d) ==
    /\ pc = "menu"
    /\ grpdir = "none"
    /\ grpdir' = "made"
    /\ newpath' = {d}
    /\ pc' = "create"
    /\ UNCHANGED <<vars, file, rows, grp, left, complete, chosen>>

MakeReadyToUpload ==
    /\ pc = "create"
    /\ grpdir' = "full"
    /\ pc' = "connect"
    /\ UNCHANGED <<vars, file, rows, grp, left, newpath, complete, chosen>>

\* Opening the database creates the file, the schema comes in a transaction.
svdb_connect ==
    /\ pc = "connect"
    /\ file' = "empty"
    /\ pc' = "schema"
    /\ UNCHANGED <<vars, grpdir, rows, grp, left, newpath, complete, chosen>>

svdb_addschema ==
    /\ pc = "schema"
    /\ file' = "schema"
    /\ StartPersist(add_default_group_settings(sv_grp_load))
    /\ UNCHANGED <<vars, grpdir, rows, newpath, complete, chosen>>

-----------------------------------------------------------------------------
(* Writing the settings. *)

\* One of the transactions of sv_grp_persist.  Retention sees that of the days.
sv_grp_persist ==
    /\ pc = "persist"
    /\ left # <<>>
    /\ LET s == Head(left) IN
         /\ rows' = [t \in DOMAIN rows \cup {s} |-> IF t = s THEN grp[s] ELSE rows[t]]
         /\ IF s = "days_to_keep_prev_versions"
            THEN app_edit_setting(grp[s])
            ELSE UNCHANGED vars
    /\ left' = Tail(left)
    /\ UNCHANGED <<grpdir, file, grp, pc, newpath, complete, chosen>>

\* sv_app_creategroup loads the group with its defaults again and adds the directory.
AddFirstDirectory ==
    /\ pc = "persist"
    /\ left = <<>>
    /\ newpath # {}
    /\ newpath' = {}
    /\ StartPersist([sv_grp_load EXCEPT !["root_directories"] = @ \cup newpath])
    /\ UNCHANGED <<vars, grpdir, file, rows, complete, chosen>>

\* From now on every setting has the one value that was written last.
PersistDone ==
    /\ pc = "persist"
    /\ left = <<>>
    /\ newpath = {}
    /\ pc' = "menu"
    /\ complete' = TRUE
    /\ chosen' = [s \in Setting |-> {grp[s]}]
    /\ UNCHANGED <<vars, grpdir, file, rows, grp, left, newpath>>

\* Killed, or a write failed: what is in memory is lost, what is written stays.
Interrupted ==
    /\ pc # "menu"
    /\ pc' = "menu"
    /\ left' = <<>>
    /\ newpath' = {}
    /\ grp' = [s \in Setting |-> Missing(s)]
    /\ UNCHANGED <<vars, grpdir, file, rows, complete, chosen>>

-----------------------------------------------------------------------------
(* Editing a group the menu lists. *)

\* load_backup_group opens the index, which adds the schema to an empty file, and
\* reads the settings; one of them changes and all are written.  The menu shows what
\* was read, so that after an interrupted edit the user knows what it came to.
Edit(s, v) ==
    /\ pc = "menu"
    /\ Listed
    /\ file' = "schema"
    /\ StartPersist([sv_grp_load EXCEPT ![s] = v])
    /\ chosen' = [t \in Setting |-> IF t = s THEN {Read(s), v} ELSE {Read(t)}]
    /\ UNCHANGED <<vars, grpdir, rows, newpath, complete>>

\* Fault: a parent of a directory in the list is not looked for.
valid_child_only(d, D) == \A e \in D : <<e, d>> \notin os_issubdirof

\* Neither inside a directory of the list nor around one.
valid(d, D) ==
    \A e \in D : <<e, d>> \notin os_issubdirof /\ <<d, e>> \notin os_issubdirof

app_menu_edit_grp_dirs ==
    LET D == Read("root_directories") IN
    \/ \E d \in D : Edit("root_directories", D \ {d})
    \/ \E d \in Directory : valid(d, D) /\ Edit("root_directories", D \cup {d})

app_menu_edit_grp_patterns ==
    LET D == Read("exclusion_patterns") IN
    \/ \E p \in D : Edit("exclusion_patterns", D \ {p})
    \/ \E p \in Pattern : Edit("exclusion_patterns", D \cup {p})

EditNumber(s) == \E v \in Entries[s] : Edit(s, v)

-----------------------------------------------------------------------------
(* What the settings are for. *)

\* sv_application_run loads a listed group.  A group without directories is backed
\* up too: sv_backup_addtoqueue only says so, and the files the index lists are read.
Backup ==
    /\ pc = "menu"
    /\ Listed
    /\ sv_backup
    /\ file' = "schema"
    /\ UNCHANGED <<grpdir, rows, grp, pc, left, newpath, complete, chosen>>

Compact(k, D) ==
    /\ pc = "menu"
    /\ Listed
    /\ sv_compact(k, D)
    /\ file' = "schema"
    /\ UNCHANGED <<grpdir, rows, grp, pc, left, newpath, complete, chosen>>

\* Time passes and files change, as seen when the program is at its menu.
World ==
    /\ pc = "menu"
    /\ \/ \E t \in Ticks : Tick(t)
       \/ \E c \in Content : Release(c) \/ Acquire(c)
    /\ UNCHANGED groupVars

GroupNext ==
    \/ \E d \in Directory : sv_app_creategroup(d)
    \/ MakeReadyToUpload \/ svdb_connect \/ svdb_addschema
    \/ sv_grp_persist \/ AddFirstDirectory \/ PersistDone
    \/ Interrupted
    \/ app_menu_edit_grp_dirs
    \/ app_menu_edit_grp_patterns
    \/ \E s \in Numbers : EditNumber(s)
    \/ Backup
    \/ \E k \in 1..N, D \in SUBSET Content : Compact(k, D)
    \/ World

GroupSpec == GroupInit /\ [][GroupNext]_allVars

-----------------------------------------------------------------------------
(* Properties. *)

SettingValue(s) ==
    IF s \in Numbers THEN Nat
    ELSE IF s = "root_directories" THEN SUBSET Directory ELSE SUBSET Pattern

GroupTypeOK ==
    /\ TypeOK
    /\ grpdir \in {"none", "made", "full"}
    /\ file \in {"none", "empty", "schema"}
    /\ DOMAIN rows \subseteq Setting
    /\ \A s \in DOMAIN rows : rows[s] \in SettingValue(s)
    /\ DOMAIN grp = Setting
    /\ \A s \in Setting : grp[s] \in SettingValue(s)
    /\ pc \in {"menu", "create", "connect", "schema", "persist"}
    /\ newpath \subseteq Directory
    /\ complete \in BOOLEAN
    /\ DOMAIN chosen = Setting
    /\ days = Read("days_to_keep_prev_versions")

\* Once a group was created in full, a setting never reads as anything but what the
\* user chose: in the menus, while the rows are written, and after a crash or an
\* error between any two of the writes.  In particular none of them falls back to
\* zero or to a default because another one was edited.
SettingsAsChosen == complete => \A s \in Setting : Read(s) \in chosen[s]

\* No directory of a group lies in another one, however they were added and removed
\* and whatever was interrupted: sv_backup_addtoqueue would visit its files twice.
RootsApart ==
    \A d, e \in Read("root_directories") : d # e => <<d, e>> \notin os_issubdirof
=============================================================================
