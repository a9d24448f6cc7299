----------------------------- MODULE MCCloudSync -----------------------------
(* Values for the constants of CloudSync. *)
EXTENDS CloudSync, TLC

CONSTANTS f1, f2, d1, d2, v1, v2

OneLength == (d1 :> 5 @@ d2 :> 5)

\* Files, vaults and contents of one length are interchangeable.
SwapAll == Permutations(File) \cup Permutations(Data) \cup Permutations(Vault)

\* Bound: a walk knows one vault only, so the second one is registered while no
\* listing fails and no file is left out; copies of the index with both vaults,
\* and with one while a file is written, are left to the proofs.
SecondVault ==
    Cardinality(vaults) > 1 =>
        /\ attempt <= 1 /\ again = {} /\ unshown = {}
        /\ Cardinality(copy.vaults) <= 1
        /\ clock = 0 \/ copy.vaults = {}
=============================================================================
