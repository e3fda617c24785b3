----------------------------- MODULE MCRelease -----------------------------
(* Small instances of Release. *)
EXTENDS Release, TLC
Symmetry == Permutations(Runs)
MCContractOf == [t \in Targets |-> IF t = 2 THEN 2 ELSE 1]
=============================================================================
