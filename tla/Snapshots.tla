------------------------------ MODULE Snapshots ------------------------------
(***************************************************************************)
(* What a backup program promises, whatever it does with databases and     *)
(* archives: it keeps snapshots of the user's files.  A snapshot has the   *)
(* bytes of each of its files and never changes.  The newest one is there  *)
(* until there is a newer one; of the older ones, only a compaction drops  *)
(* any, and then every one up to its cutoff.                               *)
(***************************************************************************)
EXTENDS Naturals, Functions

CONSTANTS Path, Data,
          Collection    \* ids of backups, natural numbers

VARIABLE snapshots      \* collection |-> path |-> bytes

Files == UNION {[S -> Data] : S \in SUBSET Path}

Newest(k) == k \in DOMAIN snapshots /\ \A j \in DOMAIN snapshots : j <= k

Init == snapshots = [k \in {} |-> 0]

\* A backup is finished.  Its predecessor goes on as a past snapshot if a copy of
\* the index was made of it, and is forgotten otherwise.
Take(k, copied) ==
    /\ \A j \in DOMAIN snapshots : j < k
    /\ LET past == {j \in DOMAIN snapshots : Newest(j) => copied}
       IN  /\ snapshots' \in [past \cup {k} -> Files]
           /\ \A j \in past : snapshots'[j] = snapshots[j]

\* A compaction drops old snapshots.
Expire(k) ==
    /\ \E j \in DOMAIN snapshots : k < j
    /\ snapshots' = Restrict(snapshots, {j \in DOMAIN snapshots : k < j})

Next ==
    \E k \in Collection : Expire(k) \/ \E copied \in BOOLEAN : Take(k, copied)

Spec == Init /\ [][Next]_snapshots
=============================================================================
