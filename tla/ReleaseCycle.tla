---------------------------- MODULE ReleaseCycle ----------------------------
(***************************************************************************)
(* What the host promises about one application release, seen from the     *)
(* outside: verification goes in cycles, each opened under a fresh          *)
(* generation.  A cycle is approved at most once, for one commit; it is     *)
(* completed at most once, by the finalizer, after its approval; and once    *)
(* a newer cycle is open nothing more happens to it.  The registry, the      *)
(* board and the crashes of Release are shown to implement this.            *)
(***************************************************************************)
EXTENDS Naturals

VARIABLES current,      \* generation of the open cycle, 0 before the first
          approvedAt,   \* [generations -> commit approved, or NoTarget]
          completed     \* generations whose finalizer completed

vars == <<current, approvedAt, completed>>

CONSTANTS Generations, Commits, NoTarget

Init == /\ current = 0
        /\ approvedAt = [g \in Generations |-> NoTarget]
        /\ completed = {}

Open == /\ current' \in Generations
        /\ current' > current
        /\ UNCHANGED <<approvedAt, completed>>

Approve == /\ current \in Generations
           /\ approvedAt[current] = NoTarget
           /\ \E t \in Commits : approvedAt' = [approvedAt EXCEPT ![current] = t]
           /\ UNCHANGED <<current, completed>>

Complete == /\ current \in Generations \ completed
            /\ approvedAt[current] # NoTarget
            /\ completed' = completed \cup {current}
            /\ UNCHANGED <<current, approvedAt>>

Next == Open \/ Approve \/ Complete

Spec == Init /\ [][Next]_vars
=============================================================================
