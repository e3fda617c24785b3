----------------------------- MODULE MCDispatch -----------------------------
(***************************************************************************)
(* Instances of Dispatch for TLC.                                          *)
(***************************************************************************)
EXTENDS Dispatch, TLC

CONSTANTS i1, i2

Alone == [i \in Issues |-> {}]

(* The second ticket is blocked by the first. *)
Chain == [i \in Issues |-> IF i = i2 THEN {i1} ELSE {}]

(* One ticket and everything that can happen to it but the stall timeout,  *)
(* whose force-eject may leave a worker alive, and the reopen hold; and    *)
(* two tickets that compete for a slot.                                    *)
SafetyWorlds ==
    {[tickets |-> {i1}, blocked |-> Alone, events |-> EventKinds \ {"stall", "reopen"}],
     [tickets |-> {i1, i2}, blocked |-> Alone,
      events |-> {"fetch", "park", "peer", "unconfirmed", "open", "registry"}]}

(* One ticket whose tracker fails and that is parked or held; one whose    *)
(* worker is cancelled for a stall; one that is paused, resumed or out of  *)
(* budget; and one that waits for another.                                 *)
ProgressWorlds ==
    {[tickets |-> {i1}, blocked |-> Alone,
      events |-> {"tracker", "fetch", "reopen", "park"}],
     [tickets |-> {i1}, blocked |-> Alone, events |-> {"stall"}],
     [tickets |-> {i1}, blocked |-> Alone, events |-> {"pause", "budget"}],
     [tickets |-> {i1, i2}, blocked |-> Chain, events |-> {"open"}]}

TaskSymmetry == Permutations(Tasks)
=============================================================================
