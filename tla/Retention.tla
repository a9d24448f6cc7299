------------------------------ MODULE Retention ------------------------------
(***************************************************************************)
(* How long compaction keeps what is no longer used: the setting           *)
(* days_to_keep_prev_versions (app_edit_setting), the times at which       *)
(* backups finished, and the cutoff sv_compact_getcutoff derives from      *)
(* them.  BackupStore takes any cutoff below the newest collection; this   *)
(* module says which one the code takes, with times, and with the 32-bit   *)
(* arithmetic it is computed in.                                           *)
(*                                                                         *)
(* The unit of time is 128 seconds, which divides both a day (675 units)   *)
(* and 2^32 seconds (2^25 units) exactly.                                  *)
(***************************************************************************)
EXTENDS Integers, Sequences

CONSTANTS
    Content,         \* contents of files
    DaysChoices,     \* what the user enters for the number of days
    Ticks,           \* lengths of time between events
    MaxTime,         \* bound on the time
    MaxCollections   \* bound on completed backups

Day == 675
Wrap == 33554432        \* 2^32 seconds
Half == 16777216        \* 2^31 seconds
valmax == 100000        \* app_edit_setting

ASSUME DaysType == DaysChoices \subseteq 0..valmax
ASSUME TickType == Ticks \subseteq Nat
ASSUME BoundTypes == MaxTime \in Nat /\ MaxCollections \in Nat

VARIABLES
    now,        \* time(NULL)
    days,       \* days_to_keep_prev_versions
    finished,   \* TimeCompleted of each collection
    last,       \* LastCollectionId of each content row
    held        \* contents some file of the user has

vars == <<now, days, finished, last, held>>

\* The id of the newest collection, the first of TblCollections in descending order.
N == Len(finished)

TypeOK ==
    /\ now \in Nat
    /\ days \in 0..valmax
    /\ finished \in Seq(Nat)
    /\ DOMAIN last \subseteq Content
    /\ last \in [DOMAIN last -> 1..N]
    /\ held \subseteq Content

Init ==
    /\ now = 0
    /\ days \in DaysChoices
    /\ finished = <<>>
    /\ last = [c \in {} |-> 0]
    /\ held \in SUBSET Content

Tick(t) ==
    /\ now + t <= MaxTime
    /\ now' = now + t
    /\ UNCHANGED <<days, finished, last, held>>

\* The user's last file with the contents is deleted or rewritten, or a file
\* gets them.
Release(c) ==
    /\ c \in held
    /\ held' = held \ {c}
    /\ UNCHANGED <<now, days, finished, last>>

Acquire(c) ==
    /\ c \notin held
    /\ held' = held \cup {c}
    /\ UNCHANGED <<now, days, finished, last>>

\* app_edit_setting: ask_user_int accepts valmin..valmax.
app_edit_setting(d) ==
    /\ days' = d
    /\ UNCHANGED <<now, finished, last, held>>

\* The row of a collection gets its time when the backup ends.
svdb_collectionupdate(time_finished) == finished' = Append(finished, time_finished)

\* Fault: the id is taken after the collection was counted.
sv_backup_late ==
    /\ N < MaxCollections
    /\ finished' = Append(finished, now)
    /\ last' = [c \in DOMAIN last \cup held |-> IF c \in held THEN N' + 1 ELSE last[c]]
    /\ UNCHANGED <<now, days, held>>

\* sv_backup refers to all contents in use and records when it finished.
sv_backup ==
    /\ N < MaxCollections
    /\ svdb_collectionupdate(now)
    /\ last' = [c \in DOMAIN last \cup held |-> IF c \in held THEN N + 1 ELSE last[c]]
    /\ UNCHANGED <<now, days, held>>

-----------------------------------------------------------------------------
(* sv_compact. *)

\* days * 60 * 60 * 24 in 32 bits.
Seconds == (days * Day) % Wrap

\* cast32u32s ends the program when the value does not fit.
Fatal == Seconds >= Half

\* Fault: the newest collection may expire too.
getcutoff_newest == 1..N

\* The collections the loop looks at, newest first; the newest is skipped.
getcutoff_candidates == 1..(N - 1)

\* Fault: a collection of exactly that age expires.
getcutoff_expired_equal(k) == now - finished[k] >= Seconds

getcutoff_expired(k) == now - finished[k] > Seconds

\* k is the first that is old enough.
sv_compact_getcutoff(k) ==
    /\ k \in getcutoff_candidates
    /\ getcutoff_expired(k)
    /\ \A j \in getcutoff_candidates : j > k => ~ getcutoff_expired(j)

\* Contents last used up to the cutoff may go; how many do depends on the
\* archives they are in (BackupStore).
sv_compact(k, D) ==
    /\ ~ Fatal
    /\ sv_compact_getcutoff(k)
    /\ D \subseteq {c \in DOMAIN last : last[c] <= k}
    /\ last' = [c \in DOMAIN last \ D |-> last[c]]
    /\ UNCHANGED <<now, days, finished, held>>

Next ==
    \/ \E t \in Ticks : Tick(t)
    \/ \E c \in Content : Release(c) \/ Acquire(c)
    \/ \E d \in DaysChoices : app_edit_setting(d)
    \/ sv_backup
    \/ \E k \in 1..N, D \in SUBSET Content : sv_compact(k, D)

Spec == Init /\ [][Next]_vars

-----------------------------------------------------------------------------
(* What compaction may drop. *)

Dropped == DOMAIN last \ DOMAIN last'

\* The last backup that used the contents finished more than the chosen number of
\* days ago, in whole numbers.
IsOld(c) == now - finished[last[c]] > days * Day

\* Contents are dropped only when they are old, unless the setting is one whose
\* seconds do not fit in 32 bits; below that the cast that follows may end the
\* program, and nothing is dropped.
DroppedIsOld == [][days * Day < Wrap => \A c \in Dropped : IsOld(c)]_vars

\* "The user has told us that archives expire in '30 days'": contents are kept for
\* as long as any number of days the menu accepts.
KeptAsLongAsSet == [][\A c \in Dropped : IsOld(c)]_vars

\* What the newest backup lists is never dropped, even when no previous version
\* is to be kept (a setting of 0 days) and whatever the clock says.
NewestKept ==
    [][\A c \in Dropped : last[c] < N]_vars
=============================================================================
