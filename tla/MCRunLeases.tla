---------------------------- MODULE MCRunLeases ----------------------------
(***************************************************************************)
(* Instances of RunLeases for TLC.                                         *)
(***************************************************************************)
EXTENDS RunLeases, FiniteSets, TLC

BootPidSymmetry == Permutations(Boots) \cup Permutations(Pids)

(* Bound: at most two instances overlap, and one dies.  A behaviour is     *)
(* followed up to the last row it can insert.                              *)
OneReplaced ==
    /\ Cardinality({b \in Boots : boot[b] = "dead"}) <= 1
    /\ Cardinality({b \in Boots : Alive(b)}) <= 2
    /\ nruns < MaxRuns
=============================================================================
