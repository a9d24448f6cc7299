------------------------------ MODULE MCRestore ------------------------------
(* Values for the constants of Restore. *)
EXTENDS Restore, TLC

CONSTANTS p1, p2, d1, d2, a1, a2, torn

SwapData == Permutations({d1, d2})

\* A part of a file may have any length but that of the whole.
Lengths == (d1 :> 5 @@ d2 :> 5 @@ torn :> 3)

\* Two versions that differ in their tags; a part of one is no version of it.
SameSound == (d1 :> "tune" @@ d2 :> "tune" @@ torn :> "part")

\* Linux: the path without its root is the target.
OwnTarget == [p \in {p1, p2} |-> p]
\* Windows: C:\\a and D:\\a have the same target.
SameTarget == [p \in {p1, p2} |-> p1]

Archives == <<a1, a2>>
AllOrOne == {{p1, p2}, {p2}}

\* The newest backup lists both files, with the same contents or not; the one
\* before may list anything.
TwoBackups ==
    {<<old, new>> : old \in Partial(Path, Id),
                    new \in {p1 :> 1 @@ p2 :> 1, p1 :> 1 @@ p2 :> 2}}
=============================================================================
