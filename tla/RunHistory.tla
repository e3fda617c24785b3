----------------------------- MODULE RunHistory -----------------------------
(***************************************************************************)
(* What the registry promises about the runs of all tickets, seen from the *)
(* outside: a log.  A run is appended to it, lives, may be claimed by a    *)
(* reclaimer, and ends; what ended stays as it was.  Completed turns are   *)
(* only added to a run that lives.  A run that resumes another takes over  *)
(* its turns; the one it resumes has ended, is the newest of the ticket    *)
(* and has not been resumed before.  The leases, instances, processes and  *)
(* crashes of RunLeases are shown to implement this.                       *)
(***************************************************************************)
EXTENDS Naturals

CONSTANTS Issues, NoIssue, MaxRuns

VARIABLES log,   \* [1..MaxRuns -> Entry]
          last   \* the newest entry, 0 before the first

vars == <<log, last>>

Places == 1..MaxRuns

Entry == [issue : Issues \cup {NoIssue}, life : {"none", "active", "reclaiming", "ended"},
          turn : Nat, from : 0..MaxRuns]

Nothing == [issue |-> NoIssue, life |-> "none", turn |-> 0, from |-> 0]

Init == log = [p \in Places |-> Nothing] /\ last = 0

(* What may become of an entry: turns while it is active, then the end.    *)
Goes(old, new) ==
    /\ new.issue = old.issue /\ new.from = old.from
    /\ \/ new.life = old.life
       \/ old.life = "active" /\ new.life \in {"reclaiming", "ended"}
       \/ old.life = "reclaiming" /\ new.life = "ended"
    /\ \/ new.turn = old.turn
       \/ old.life = "active" /\ new.turn > old.turn

(* Leases run out and are reclaimed in the transaction that appends, too.  *)
GoOn(places) ==
    /\ log' \in [Places -> Entry]
    /\ \A p \in places : Goes(log[p], log'[p])

Append(entry) ==
    /\ last < MaxRuns /\ last' = last + 1
    /\ GoOn(Places \ {last'}) /\ log'[last'] = entry

Live == last' = last /\ GoOn(Places)

Begin(i) == Append([issue |-> i, life |-> "active", turn |-> 0, from |-> 0])

Resume(i, src) ==
    /\ log[src].issue = i /\ log[src].life = "ended"
    /\ \A p \in Places : log[p].issue = i => p <= src
    /\ \A p \in Places : log[p].from # src
    /\ Append([issue |-> i, life |-> "active", turn |-> log[src].turn, from |-> src])

Next ==
    \/ Live
    \/ \E i \in Issues : Begin(i) \/ \E src \in Places : Resume(i, src)

Spec == Init /\ [][Next]_vars
=============================================================================
