---------------------------- MODULE MCBackupStore ----------------------------
(* Values for the constants of BackupStore. *)
EXTENDS BackupStoreInv, TLC

CONSTANTS p1, p2, d1, d2

SwapData == Permutations({d1, d2})

OneLength == (d1 :> 5 @@ d2 :> 5)

\* No file is an audio file, two contents differ in their tags only, or ffmpeg
\* does not understand one of them.
NoSound == [d \in {} |-> d]
OneSound == (d1 :> "tune")
SameSound == (d1 :> "tune" @@ d2 :> "tune")

Members(roots, excluded, sep) ==
    [roots |-> roots, excluded |-> excluded, separate_metadata |-> sep]

\* All files below the root directories and nothing excluded.
WholeGroup == {Members({p1, p2}, {}, FALSE)}
OneFileGroup == {Members({p1}, {}, FALSE)}

\* "Skip metadata changes" is on, or turned on and off.
OneTagGroup == {Members({p1}, {}, TRUE)}
TagGroup == {Members({p1, p2}, {}, sep) : sep \in BOOLEAN}

\* It is on; a directory is removed from the group, or a pattern excludes a file.
ChangingGroup == {Members({p1, p2}, {}, TRUE), Members({p2}, {}, TRUE),
                  Members({p1, p2}, {p1}, TRUE)}
=============================================================================
