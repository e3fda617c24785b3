---------------------------- MODULE RunRegistry ----------------------------
(***************************************************************************)
(* The `runs` table of `.symphony/state.db` and the transactions           *)
(* src/symphony/orchestrator/run_registry.py runs on it.  Every method of  *)
(* the registry is one `BEGIN IMMEDIATE` transaction (or one UPDATE), so   *)
(* each is an operator from the table before to the table after.           *)
(*                                                                         *)
(* Abstractions.  A run id is the row's rowid (uuids are only ever         *)
(* compared).  `lease_expires_at` is the time the lease has left, `ttl`:   *)
(* `lease_expires_at > now` is `ttl > 0`.  `fresh` is the comparison of    *)
(* the checkpoint with the ticket (same state and agent, checkpointed_at   *)
(* not older than updated_at).  Titles, tokens, events and other columns   *)
(* no guard reads are left out, and so are the PM and release tables.      *)
(***************************************************************************)
EXTENDS Naturals

CONSTANTS
    Issues,      \* tickets
    Boots,       \* registry instances (`_boot_id`), one per service start
    Pids,        \* numeric process ids of backend process groups
    NoIssue, NoBoot, NoPid,   \* SQL NULL in the three columns
    MaxRuns,     \* bound: rows ever inserted
    TTL,         \* `_lease_ttl`, in clock steps
    MaxTurn,     \* bound: checkpointed turns
    MaxInc       \* bound: incarnations of one numeric pid

ASSUME RegistryAssumption ==
    /\ NoIssue \notin Issues /\ NoBoot \notin Boots /\ NoPid \notin Pids
    /\ MaxRuns \in Nat \ {0} /\ TTL \in Nat \ {0}
    /\ MaxTurn \in Nat /\ MaxInc \in Nat \ {0}

RunIds == 1..MaxRuns
NoRun == 0        \* `continued_from_run_id` NULL, or an entry's empty run_id
NoIdent == 0      \* `backend_process_identity` NULL

(* "done" stands for every status complete_run writes except               *)
(* "shutdown_interrupted"; no guard tells the others apart.                *)
Statuses == {"none", "active", "reclaiming", "expired", "orphaned",
             "shutdown_interrupted", "done"}

Row == [issue : Issues \cup {NoIssue}, status : Statuses, ttl : 0..TTL,
        owner : Boots \cup {NoBoot}, pid : Pids \cup {NoPid},
        ident : 0..MaxInc, turn : 0..MaxTurn, fresh : BOOLEAN,
        from : 0..MaxRuns]

Table == [RunIds -> Row]

FreeRow == [issue |-> NoIssue, status |-> "none", ttl |-> 0,
            owner |-> NoBoot, pid |-> NoPid, ident |-> NoIdent, turn |-> 0,
            fresh |-> FALSE, from |-> NoRun]

EmptyTable == [r \in RunIds |-> FreeRow]

(* `_active_issue_locked`: the row still fences its issue. *)
LeaseBlocking(row) ==
    \/ row.status = "reclaiming"
    \/ row.status = "active" /\ row.ttl > 0

ActiveIssue(t, i) == \E r \in RunIds : t[r].issue = i /\ LeaseBlocking(t[r])

(* `_expire_stale_locked`: only a lapsed lease with no recorded backend. *)
Stale(row) == row.status = "active" /\ row.pid = NoPid /\ row.ttl = 0

ExpireStale(t) ==
    [r \in RunIds |-> IF Stale(t[r])
                      THEN [t[r] EXCEPT !.status = "expired"]
                      ELSE t[r]]

(* The row acquire_run inserts. *)
NewRow(b, i) == [FreeRow EXCEPT !.issue = i, !.status = "active",
                                !.ttl = TTL, !.owner = b]

(* acquire_run refuses, after expiring stale leases, an issue that still   *)
(* has a blocking lease.                                                   *)
AcquireRefused(t, i) == ActiveIssue(ExpireStale(t), i)

AcquireRun(t, n, b, i) == [ExpireStale(t) EXCEPT ![n] = NewRow(b, i)]

MutantContinuationSource(t, src, i) ==   \* any interrupted run, not the newest
    /\ t[src].issue = i
    /\ t[src].status \in {"orphaned", "shutdown_interrupted"}
    /\ t[src].pid = NoPid /\ t[src].turn > 0 /\ t[src].fresh
    /\ \A s \in RunIds : t[s].from # src

(* latest_continuation_source, and the source predicate                    *)
(* acquire_continuation_run repeats: an interrupted or kill-confirmed run  *)
(* with a checkpoint, no backend pid, no successor and no newer row.       *)
ContinuationSource(t, src, i) ==
    /\ t[src].issue = i
    /\ t[src].status \in {"orphaned", "shutdown_interrupted"}
    /\ t[src].pid = NoPid
    /\ t[src].turn > 0
    /\ t[src].fresh
    /\ \A s \in RunIds : t[s].from # src
    /\ \A s \in RunIds : t[s].issue = i => s <= src

(* acquire_continuation_run: the new row inherits the checkpoint. *)
AcquireContinuation(t, n, b, i, src) ==
    [ExpireStale(t) EXCEPT
        ![n] = [NewRow(b, i) EXCEPT !.turn = t[src].turn, !.fresh = TRUE,
                                    !.from = src]]

(* heartbeat: extends the lease of an active row, whoever owns it, and     *)
(* records the backend it is given.  A pid of NoPid records nothing.       *)
Beat(row, pid, ident) ==
    [row EXCEPT !.ttl = TTL,
                !.pid = IF pid = NoPid THEN @ ELSE pid,
                !.ident = IF pid = NoPid THEN @ ELSE ident]

Heartbeat(t, r, pid, ident) ==
    IF t[r].status = "active"
    THEN [t EXCEPT ![r] = Beat(t[r], pid, ident)]
    ELSE t

(* clear_backend_agent_pid *)
ClearBackendPid(t, r) ==
    IF t[r].status = "active"
    THEN [t EXCEPT ![r] = [t[r] EXCEPT !.ttl = TTL, !.pid = NoPid,
                                       !.ident = NoIdent]]
    ELSE t

(* checkpoint_completed_turn: fenced by the owner and an active row. *)
MutantCheckpointAllowed(t, r, b) ==      \* fenced by the owner only
    t[r].owner = b /\ t[r].turn < MaxTurn

CheckpointAllowed(t, r, b) ==
    t[r].status = "active" /\ t[r].owner = b /\ t[r].turn < MaxTurn

CheckpointTurn(t, r) ==
    [t EXCEPT ![r] = [t[r] EXCEPT !.turn = t[r].turn + 1, !.fresh = TRUE]]

(* complete_run looks at the run id only: it overwrites any status, and    *)
(* leaves the recorded backend in the row.                                 *)
CompleteRun(t, r, status) ==
    [t EXCEPT ![r] = [t[r] EXCEPT !.status = status, !.ttl = 0]]

(* reclaim_dead_owner_leases: rows of another boot whose owner process is  *)
(* not seen alive, or whose lease lapsed.                                  *)
MutantReclaimAnyStatus(row, b, seenAlive) ==
    /\ row.status # "none" /\ row.owner # b
    /\ row.owner \notin seenAlive \/ row.ttl = 0

MutantReclaimDeadOnly(row, b, seenAlive) ==    \* no expiry fallback
    row.status = "active" /\ row.owner # b /\ row.owner \notin seenAlive

Reclaimable(row, b, seenAlive) ==
    /\ row.status = "active"
    /\ row.owner # b
    /\ row.owner \notin seenAlive \/ row.ttl = 0

ReclaimDeadOwners(t, b, seenAlive) ==
    [r \in RunIds |-> IF Reclaimable(t[r], b, seenAlive)
                      THEN [t[r] EXCEPT !.status = "reclaiming"]
                      ELSE t[r]]

FinalizeReclaimed(t, r) ==
    IF t[r].status = "reclaiming"
    THEN [t EXCEPT ![r] = [t[r] EXCEPT !.status = "orphaned", !.ttl = 0,
                                       !.pid = NoPid, !.ident = NoIdent]]
    ELSE t

(* A clock step, and an edit of the ticket that outdates its checkpoints. *)
ElapseTable(t) ==
    [r \in RunIds |-> IF t[r].ttl > 0 THEN [t[r] EXCEPT !.ttl = t[r].ttl - 1]
                                      ELSE t[r]]

EditTable(t, i) ==
    [r \in RunIds |-> IF t[r].issue = i THEN [t[r] EXCEPT !.fresh = FALSE]
                                        ELSE t[r]]
=============================================================================
