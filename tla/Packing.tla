------------------------------- MODULE Packing -------------------------------
(***************************************************************************)
(* What a backup expects of the archive manager (util_archiver.h): each    *)
(* content handed to it goes to an archive whose number it is told,        *)
(* archives are filled one after the other, and in the end either every    *)
(* archive is delivered with exactly what was put in it, at the sizes that *)
(* were reported, or nothing is.                                           *)
(***************************************************************************)
EXTENDS Naturals, Functions

CONSTANTS Id, Sizes, Archives

VARIABLES
    placed,      \* content |-> archive number and size reported for it
    delivered    \* archive number |-> size of each content in it

EmptyFcn == [x \in {} |-> x]

Init == placed = EmptyFcn /\ delivered = EmptyFcn

Place(i, n, s) ==
    /\ i \notin DOMAIN placed
    /\ delivered = EmptyFcn
    /\ \A j \in DOMAIN placed : placed[j].num <= n
    /\ placed' = [j \in DOMAIN placed \cup {i} |->
                    IF j = i THEN [num |-> n, size |-> s] ELSE placed[j]]
    /\ UNCHANGED delivered

\* The archives the contents were placed in, and nothing else.
Contents(n) == {i \in DOMAIN placed : placed[i].num = n}

Deliver ==
    /\ delivered = EmptyFcn
    /\ delivered' = [n \in {placed[i].num : i \in DOMAIN placed} |->
                        [i \in Contents(n) |-> placed[i].size]]
    /\ UNCHANGED placed

Next == \/ \E i \in Id, n \in Archives, s \in Sizes : Place(i, n, s)
        \/ Deliver

Spec == Init /\ [][Next]_<<placed, delivered>>
=============================================================================
