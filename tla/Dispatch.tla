------------------------------ MODULE Dispatch ------------------------------
(***************************************************************************)
(* The live dispatch state of one orchestrator: which tickets run, which   *)
(* wait for a retry, who owns a claim, and the coroutines that change it:  *)
(* the tick, retry timers, worker exits, escalations and force-ejects      *)
(* (dispatch.py, dispatch_state.py, retry_reconcile.py, worker_exit.py).   *)
(*                                                                         *)
(* The orchestrator is one asyncio loop, so a step is what a coroutine     *)
(* does between two awaits.  Timers fire at any moment.  A worker's finally*)
(* starts its exit handler one loop iteration later; until then the entry  *)
(* is still registered, so the two are one step here.                      *)
(***************************************************************************)
EXTENDS Naturals, FiniteSets

CONSTANTS
    Issues,          \* tickets
    Tasks,           \* identities of worker tasks; a finished one is reused
    MaxAgents,       \* `agent.max_concurrent_agents`
    MaxRetries,      \* `agent.max_retries`; 0 (no cap) is left out
    EscalationMax,   \* ESCALATION_MAX_ATTEMPTS
    MaxEscalations,  \* bound: escalation coroutines of one ticket
    Worlds,          \* what a behaviour may be about: the tickets on the board,
                     \* their `blocked_by`, and which of EventKinds may happen
    NoTask, NoIssue, Orphan

(* tracker: a tracker write fails; fetch: a candidate fetch fails;         *)
(* registry: a registry call raises or a lease lapses during a worker's    *)
(* exit; peer: another service instance takes a lease first; stall: stall  *)
(* timeouts are on; reopen: a ticket is over `agent.max_reopens`; pause:   *)
(* operators and errors pause tickets; open, close: people move tickets    *)
(* on the board; park: a ticket conflicts or lacks the release component;  *)
(* budget: token and turn budgets run out; unconfirmed: the end of a       *)
(* worker's backend cannot be confirmed, so its lease is kept; fail:       *)
(* workers end with an error.                                              *)
EventKinds == {"tracker", "fetch", "registry", "peer", "stall", "reopen",
               "pause", "open", "close", "park", "budget", "unconfirmed", "fail"}

ASSUME DispatchAssumption ==
    /\ MaxAgents \in Nat \ {0} /\ MaxRetries \in Nat \ {0}
    /\ EscalationMax \in Nat \ {0} /\ MaxEscalations \in Nat \ {0}
    /\ Worlds \subseteq [tickets : SUBSET Issues, blocked : [Issues -> SUBSET Issues],
                         events : SUBSET EventKinds]
    /\ NoTask \notin Tasks /\ Orphan \notin Tasks /\ NoTask # Orphan
    /\ NoIssue \notin Issues /\ IsFiniteSet(Issues)

VARIABLES
    running,     \* running[i]: the task of the `_running` entry
    claimed,     \* `_claimed`
    retry,       \* retry[i]: the pending RetryEntry
    persisted,   \* persisted[i]: `_persisted_retry_attempts`, 0 when absent
    budget,      \* `_turn_budget_exhausted`
    paused,      \* `_paused_issue_ids`
    pending,     \* `_terminal_persist_pending`
    escal,       \* escal[i]: `_pending_escalations`, 0 when absent
    task,        \* task[t]: a worker and its exit handler
    firing,      \* firing[i]: a popped retry awaiting its candidate fetch
    escReady,    \* escReady[i]: escalations spawned or on their timer
    escWriting,  \* escWriting[i]: escalations awaiting the tracker
    tick,        \* the tick coroutine
    eject,       \* the force-eject awaiting its kill
    board,       \* board[i]: the ticket's state in the tracker
    lease,       \* lease[i]: holder of the ticket's active run lease
    world        \* the world of this behaviour, one of Worlds

slotVars == <<running, claimed, retry, persisted>>
escVars == <<escal, escReady, escWriting>>
vars == <<running, claimed, retry, persisted, budget, paused, pending, escal,
          task, firing, escReady, escWriting, tick, eject, board, lease, world>>

(* The tickets in i's `blocked_by`, and the events that may happen. *)
Blockers == world.blocked
Enabled == world.events

-----------------------------------------------------------------------------
(* Data *)

Kinds == {"retry", "continuation"}
Attempts == 0..MaxRetries

(* RetryEntry; `on` says that there is one. *)
Retry == [on : BOOLEAN, attempt : Attempts, kind : Kinds, slot : BOOLEAN]
NoRetry == [on |-> FALSE, attempt |-> 0, kind |-> "retry", slot |-> FALSE]

(* A worker task: working, then its exit handler before ("handling") and   *)
(* after ("tail") the outcome is decided.  `seen` is the ticket state the  *)
(* worker last read, `left` what the handler still has to write.           *)
Task == [phase : {"free", "working", "handling", "tail"},
         issue : Issues \cup {NoIssue}, attempt : Attempts,
         reason : {"none", "normal", "error", "cancelled"},
         seen : {"active", "closed"},
         cancelled : BOOLEAN, stalled : BOOLEAN,
         left : {"none", "budget", "no_stage_change"}]
FreeTask == [phase |-> "free", issue |-> NoIssue, attempt |-> 0,
             reason |-> "none", seen |-> "active", cancelled |-> FALSE,
             stalled |-> FALSE, left |-> "none"]

(* A force-eject of a task whose cancellation did not end it. *)
Eject == [issue : Issues \cup {NoIssue}, task : Tasks \cup {NoTask},
          attempt : Attempts]
NoEject == [issue |-> NoIssue, task |-> NoTask, attempt |-> 0]

(* The tick: `zombies` the cancelled entries in its snapshot of `_running`, *)
(* `todo` candidates not yet scanned of those it `fetched`; `open` is      *)
(* `mutating_scan_open`, `held` the ticket whose reopen hold is awaited.   *)
Tick == [phase : {"idle", "reconciling", "fetching", "scanning"},
         zombies : SUBSET Eject,
         todo : SUBSET Issues, fetched : SUBSET Issues,
         open : BOOLEAN, held : Issues \cup {NoIssue}]
IdleTick == [phase |-> "idle", zombies |-> {}, todo |-> {}, fetched |-> {},
             open |-> TRUE, held |-> NoIssue]

TypeOK ==
    /\ running \in [Issues -> Tasks \cup {NoTask}]
    /\ claimed \subseteq Issues /\ budget \subseteq Issues
    /\ paused \subseteq Issues /\ pending \subseteq Issues
    /\ retry \in [Issues -> Retry] /\ firing \in [Issues -> Retry]
    /\ persisted \in [Issues -> Attempts]
    /\ escal \in [Issues -> 0..(EscalationMax - 1)]
    /\ task \in [Tasks -> Task]
    /\ escReady \in [Issues -> 0..MaxEscalations]
    /\ escWriting \in [Issues -> 0..MaxEscalations]
    /\ tick \in Tick /\ eject \in Eject
    /\ board \in [Issues -> {"active", "closed"}]
    /\ lease \in [Issues -> Tasks \cup {NoTask, Orphan}]
    /\ world \in Worlds

Init ==
    /\ world \in Worlds
    /\ running = [i \in Issues |-> NoTask]
    /\ claimed = {} /\ budget = {} /\ paused = {} /\ pending = {}
    /\ retry = [i \in Issues |-> NoRetry] /\ firing = [i \in Issues |-> NoRetry]
    /\ persisted = [i \in Issues |-> 0] /\ escal = [i \in Issues |-> 0]
    /\ task = [t \in Tasks |-> FreeTask]
    /\ escReady = [i \in Issues |-> 0] /\ escWriting = [i \in Issues |-> 0]
    /\ tick = IdleTick /\ eject = NoEject
    /\ board \in [Issues -> {"active", "closed"}]
    /\ \A i \in Issues \ world.tickets : board[i] = "closed"
    /\ lease = [i \in Issues |-> NoTask]

-----------------------------------------------------------------------------
(* Slot budget and ownership (DispatchState) *)

Running == {i \in Issues : running[i] # NoTask}
Retrying == {i \in Issues : retry[i].on}

AvailableSlots ==
    LET inFlight == Cardinality(Running)
                        + Cardinality({i \in Retrying : retry[i].slot})
    IN  IF inFlight >= MaxAgents THEN 0 ELSE MaxAgents - inFlight

(* _in_flight_ids: a popped retry that awaits its fetch is in none of them,*)
(* nor is an escalation before its first failure.                          *)
InFlight == Running \cup Retrying \cup pending \cup {i \in Issues : escal[i] > 0}

Escalating(i) == escReady[i] + escWriting[i] > 0

(* A task identity that nothing in the program still refers to. *)
FreeTasks == {t \in Tasks : /\ task[t].phase = "free" /\ eject.task # t
                            /\ \A z \in tick.zombies : z.task # t}

WaitsForBlocker(i, active) == \E j \in Blockers[i] : j \in InFlight \/ j \in active

(* _has_active_run_lease.  A read that raises counts as no lease; when the *)
(* read of the release evidence after it raises, the ticket waits, as it   *)
(* does for a lease.                                                       *)
LeaseReads(i) == IF "registry" \in Enabled THEN BOOLEAN ELSE {lease[i] # NoTask}

(* Mutant: the ticket's exit handler is not looked at. *)
MutantDecisionPending(i, owningRetry, globalSlots, active, leased) ==
    CASE i \in Running -> "reject"
      [] leased -> "wait"
      [] ~owningRetry /\ i \in claimed -> "reject"
      [] i \in paused -> "wait_slot"
      [] i \in budget -> "reject"
      [] WaitsForBlocker(i, active) -> "wait"
      [] globalSlots /\ AvailableSlots = 0 -> "wait"
      [] OTHER -> "ready"

(* Mutant: a retry trusts the slot it held. *)
MutantDecisionSlots(i, owningRetry, globalSlots, active, leased) ==
    CASE i \in Running -> "reject"
      [] leased -> "wait"
      [] ~owningRetry /\ i \in claimed -> "reject"
      [] i \in paused -> "wait_slot"
      [] i \in budget \cup pending -> "reject"
      [] WaitsForBlocker(i, active) -> "wait"
      [] OTHER -> "ready"

(* _eligibility_decision, in its order.  `active` are the tickets that the *)
(* caller's fetch saw as active.                                           *)
Decision(i, owningRetry, globalSlots, active, leased) ==
    CASE i \in Running -> "reject"
      [] leased -> "wait"
      [] ~owningRetry /\ i \in claimed -> "reject"
      [] i \in paused -> "wait_slot"
      [] i \in budget -> "reject"
      [] i \in pending -> "reject"
      [] WaitsForBlocker(i, active) -> "wait"
      [] globalSlots /\ AvailableSlots = 0 -> "wait"
      [] OTHER -> "ready"

-----------------------------------------------------------------------------
(* _schedule_retry: beyond the cap an escalation is spawned and no retry   *)
(* is installed; a continuation forgets the persisted attempt.             *)
EscalationRoom(i, attempt) ==
    attempt > MaxRetries => escReady[i] + escWriting[i] < MaxEscalations

ScheduleRetry(i, attempt, kind, slot) ==
    IF kind # "continuation" /\ attempt > MaxRetries
    THEN /\ escReady' = [escReady EXCEPT ![i] = @ + 1]
         /\ persisted' = [persisted EXCEPT ![i] = 0]
         /\ UNCHANGED retry
    ELSE /\ retry' = [retry EXCEPT ![i] = [on |-> TRUE, attempt |-> attempt,
                                           kind |-> kind, slot |-> slot]]
         /\ persisted' = [persisted EXCEPT
                            ![i] = IF kind = "continuation" THEN 0 ELSE attempt]
         /\ UNCHANGED escReady

(* Mutant: every wait holds its slot. *)
MutantRepark(i, r, slot) == ScheduleRetry(i, r.attempt, r.kind, TRUE)

Repark(i, r, slot) == ScheduleRetry(i, r.attempt, r.kind, slot)

(* A failed run schedules the next attempt. *)
ScheduleFailure(i, attempt) ==
    /\ EscalationRoom(i, attempt + 1)
    /\ ScheduleRetry(i, attempt + 1, "retry", TRUE)

(* _release_retry_ownership *)
ReleaseRetry(i, clearPause) ==
    /\ claimed' = IF i \in Running \/ i \in pending \/ escal[i] > 0
                  THEN claimed ELSE claimed \ {i}
    /\ persisted' = [persisted EXCEPT ![i] = 0]
    /\ paused' = IF clearPause THEN paused \ {i} ELSE paused

(* _dispatch.  The registry grants a free lease or refuses; when it raises *)
(* the run starts without one.                                             *)
StartRun(i, attempt) ==
    \E t \in FreeTasks :
        /\ \/ lease[i] = NoTask /\ lease' = [lease EXCEPT ![i] = t]
           \/ "registry" \in Enabled /\ UNCHANGED lease
        /\ task' = [task EXCEPT ![t] = [FreeTask EXCEPT !.phase = "working",
                                            !.issue = i, !.attempt = attempt]]
        /\ running' = [running EXCEPT ![i] = t]
        /\ claimed' = claimed \cup {i}
        /\ retry' = [retry EXCEPT ![i] = NoRetry]

RefuseRun(i) ==
    /\ \/ lease[i] # NoTask /\ UNCHANGED lease
       \/ /\ lease[i] = NoTask /\ "peer" \in Enabled
          /\ lease' = [lease EXCEPT ![i] = Orphan]
    /\ retry' = [retry EXCEPT ![i] = NoRetry]
    /\ UNCHANGED <<task, running, claimed>>

(* _finish_run_lease of the entry of task `t` *)
FinishLease(i, t) ==
    \/ lease' = [lease EXCEPT ![i] = IF @ = t THEN NoTask ELSE @]
    \/ /\ "unconfirmed" \in Enabled /\ lease[i] = t
       /\ lease' = [lease EXCEPT ![i] = Orphan]

DispatchRun(i, attempt) == StartRun(i, attempt) \/ RefuseRun(i)

-----------------------------------------------------------------------------
(* The tick (_on_tick) *)

EjectOf(i) == [issue |-> i, task |-> running[i], attempt |-> task[running[i]].attempt]

TickStart ==
    /\ tick.phase = "idle"
    /\ tick' = [tick EXCEPT
                  !.phase = "reconciling",
                  !.zombies = {EjectOf(i) : i \in {j \in Running : task[running[j]].stalled}}]
    /\ UNCHANGED <<slotVars, escVars, world, budget, paused, pending, task,
                   firing, eject, board, lease>>

Reconciling(i) ==
    /\ tick.phase = "reconciling" /\ eject = NoEject
    /\ i \in Running /\ i \notin paused

(* _reconcile_stall_state: a silent worker is cancelled ... *)
StallCancel(i) ==
    /\ Reconciling(i) /\ "stall" \in Enabled
    /\ ~task[running[i]].stalled
    /\ task' = [task EXCEPT ![running[i]].stalled = TRUE,
                            ![running[i]].cancelled = TRUE]
    /\ UNCHANGED <<slotVars, escVars, world, budget, paused, pending, firing,
                   tick, eject, board, lease>>

(* ... and when the cancellation did not end it within the grace period,   *)
(* its backend is killed in a thread and the entry is dropped afterwards,  *)
(* also when the worker ended while another eject was awaited.             *)
EjectKill(z) ==
    /\ tick.phase = "reconciling" /\ eject = NoEject
    /\ eject' = z
    /\ tick' = [tick EXCEPT !.zombies = @ \ {z}]
    /\ UNCHANGED <<slotVars, escVars, world, budget, paused, pending, task,
                   firing, board, lease>>

(* _force_eject_zombie pops whatever entry the ticket has by now. *)
EjectFinish ==
    LET i == eject.issue IN
    /\ eject # NoEject
    /\ running' = [running EXCEPT ![i] = NoTask]
    /\ claimed' = claimed \ {i}
    /\ FinishLease(i, eject.task)
    /\ ScheduleFailure(i, eject.attempt)
    /\ eject' = NoEject
    /\ UNCHANGED <<budget, paused, pending, escal, world, task, firing,
                   escWriting, tick, board>>

(* _reconcile_one: the ticket was closed under a running worker. *)
CancelClosed(i) ==
    /\ Reconciling(i)
    /\ board[i] = "closed" /\ ~task[running[i]].cancelled
    /\ task' = [task EXCEPT ![running[i]].cancelled = TRUE]
    /\ UNCHANGED <<slotVars, escVars, world, budget, paused, pending, firing,
                   tick, eject, board, lease>>

(* Mutant: claims are never pruned. *)
MutantTickPrune ==
    /\ tick.phase = "reconciling" /\ eject = NoEject
    /\ tick' = [IdleTick EXCEPT !.phase = "fetching"]
    /\ UNCHANGED <<slotVars, escVars, world, budget, paused, pending, task,
                   firing, eject, board, lease>>

(* G1: claims nobody in flight owns are dropped; then the fetch begins. *)
TickPrune ==
    /\ tick.phase = "reconciling" /\ eject = NoEject
    /\ claimed' = claimed \cap InFlight
    /\ tick' = [IdleTick EXCEPT !.phase = "fetching"]
    /\ UNCHANGED <<running, retry, persisted, escVars, world, budget, paused,
                   pending, task, firing, eject, board, lease>>

TickFetch ==
    /\ tick.phase = "fetching"
    /\ LET active == {i \in Issues : board[i] = "active"} IN
         \/ tick' = [IdleTick EXCEPT !.phase = "scanning", !.todo = active,
                                     !.fetched = active]
         \/ "fetch" \in Enabled /\ tick' = IdleTick
    /\ UNCHANGED <<slotVars, escVars, world, budget, paused, pending, task,
                   firing, eject, board, lease>>

Scanning(i) == tick.phase = "scanning" /\ tick.held = NoIssue /\ i \in tick.todo
Scanned(i, open) == [tick EXCEPT !.todo = @ \ {i}, !.open = open, !.held = NoIssue]

(* The scan closes at the first candidate that finds no slot. *)
StillOpen == tick.open /\ AvailableSlots > 0
ScanReady(i, leased) ==
    /\ Scanning(i) /\ ~retry[i].on
    /\ Decision(i, FALSE, FALSE, tick.fetched, leased) = "ready"

ScanPass(i) ==
    /\ Scanning(i)
    /\ StillOpen => \E leased \in LeaseReads(i) : ~ScanReady(i, leased)
    /\ tick' = Scanned(i, StillOpen)
    /\ UNCHANGED <<slotVars, escVars, world, budget, paused, pending, task,
                   firing, eject, board, lease>>

(* _block_ticket_for_conflict, _hold_release_ticket_without_component: the *)
(* claim is taken even when the tracker write fails.                       *)
ParkTicket(i) ==
    /\ "park" \in Enabled
    /\ claimed' = claimed \cup {i}
    /\ \/ board' = [board EXCEPT ![i] = "closed"]
       \/ "tracker" \in Enabled /\ UNCHANGED board
    /\ UNCHANGED <<running, retry, task, lease>>

StartCandidate(i) == DispatchRun(i, persisted[i]) /\ UNCHANGED board

ScanStart(i) ==
    /\ StillOpen /\ \E leased \in LeaseReads(i) : ScanReady(i, leased)
    /\ ParkTicket(i) \/ StartCandidate(i)
    /\ tick' = Scanned(i, TRUE)
    /\ UNCHANGED <<persisted, escVars, world, budget, paused, pending, firing,
                   eject>>

(* _hold_reopened_ticket_over_budget awaits the tracker.  When the write   *)
(* fails the ticket is dispatched after all, without a second look at the  *)
(* slots or at its eligibility.                                            *)
HoldReopened(i) ==
    /\ "reopen" \in Enabled
    /\ StillOpen /\ \E leased \in LeaseReads(i) : ScanReady(i, leased)
    /\ tick' = [tick EXCEPT !.held = i]
    /\ UNCHANGED <<slotVars, escVars, world, budget, paused, pending, task,
                   firing, eject, board, lease>>

HoldEnds ==
    LET i == tick.held IN
    /\ i # NoIssue
    /\ \/ /\ board' = [board EXCEPT ![i] = "closed"]
          /\ UNCHANGED <<running, claimed, retry, task, lease>>
       \/ "tracker" \in Enabled /\ (ParkTicket(i) \/ StartCandidate(i))
    /\ tick' = Scanned(i, TRUE)
    /\ UNCHANGED <<persisted, escVars, world, budget, paused, pending, firing,
                   eject>>

TickEnd ==
    /\ tick.phase = "scanning" /\ tick.todo = {}
    /\ tick' = IdleTick
    /\ UNCHANGED <<slotVars, escVars, world, budget, paused, pending, task,
                   firing, eject, board, lease>>

-----------------------------------------------------------------------------
(* Retry timers (_on_retry_timer, _process_retry) *)

RetryFire(i) ==
    /\ retry[i].on /\ ~firing[i].on
    /\ IF i \in paused
       THEN Repark(i, retry[i], TRUE) /\ UNCHANGED firing
       ELSE /\ retry' = [retry EXCEPT ![i] = NoRetry]
            /\ firing' = [firing EXCEPT ![i] = retry[i]]
            /\ UNCHANGED <<persisted, escReady>>
    /\ UNCHANGED <<running, claimed, budget, paused, pending, escal, world,
                   task, escWriting, tick, eject, board, lease>>

RetryFetchFails(i) ==
    /\ firing[i].on /\ "fetch" \in Enabled
    /\ Repark(i, firing[i], firing[i].slot)
    /\ firing' = [firing EXCEPT ![i] = NoRetry]
    /\ UNCHANGED <<running, claimed, budget, paused, pending, escal, world,
                   task, escWriting, tick, eject, board, lease>>

RetryMissing(i) ==
    /\ firing[i].on /\ board[i] = "closed"
    /\ ReleaseRetry(i, TRUE)
    /\ firing' = [firing EXCEPT ![i] = NoRetry]
    /\ UNCHANGED <<running, retry, escVars, world, budget, pending, task, tick,
                   eject, board, lease>>

RetryDecide(i) ==
    LET active == {j \in Issues : board[j] = "active"} IN
    /\ firing[i].on /\ i \in active
    /\ \E leased \in LeaseReads(i) :
         LET decision == Decision(i, TRUE, TRUE, active, leased) IN
         \/ /\ decision = "reject" /\ ReleaseRetry(i, FALSE)
            /\ UNCHANGED <<running, retry, escReady, task, lease>>
         \/ /\ decision \in {"wait", "wait_slot"}
            /\ Repark(i, firing[i], decision = "wait_slot")
            /\ UNCHANGED <<running, claimed, paused, task, lease>>
         \/ /\ decision = "ready" /\ DispatchRun(i, firing[i].attempt)
            /\ UNCHANGED <<persisted, escReady, paused>>
    /\ firing' = [firing EXCEPT ![i] = NoRetry]
    /\ UNCHANGED <<budget, pending, escal, world, escWriting, tick, eject,
                   board>>

-----------------------------------------------------------------------------
(* Worker exit (run_agent_attempt's finally, _on_worker_exit) *)

Owns(t) == running[task[t].issue] = t

(* Only the task that owns the entry enters the exit handler; the task of  *)
(* a dropped entry ends unnoticed, and nobody finishes its lease.          *)
WorkerEnds(t) ==
    LET i == task[t].issue IN
    /\ task[t].phase = "working"
    /\ IF Owns(t)
       THEN /\ running' = [running EXCEPT ![i] = NoTask]
            /\ pending' = pending \cup {i}
            /\ \E reason \in {"normal", "error", "cancelled"} :
                 /\ reason = "error" => "fail" \in Enabled
                 /\ reason = "cancelled" => task[t].cancelled
                 /\ task' = [task EXCEPT ![t].phase = "handling",
                                         ![t].reason = reason, ![t].seen = board[i]]
            /\ UNCHANGED lease
       ELSE /\ task' = [task EXCEPT ![t] = FreeTask]
            /\ lease' = IF lease[i] = t THEN [lease EXCEPT ![i] = Orphan] ELSE lease
            /\ UNCHANGED <<running, pending>>
    /\ UNCHANGED <<claimed, retry, persisted, escVars, world, budget, paused,
                   firing, tick, eject, board>>

Decided(t, left) == task' = [task EXCEPT ![t].phase = "tail", ![t].left = left]

(* handle_worker_exit: the worker of a closed ticket was cancelled. *)
ExitClosed(t) ==
    LET i == task[t].issue IN
    /\ task[t].phase = "handling" /\ task[t].reason = "cancelled"
    /\ board[i] = "closed"
    /\ Decided(t, "none")
    /\ retry' = [retry EXCEPT ![i] = NoRetry]
    /\ claimed' = claimed \ {i}
    /\ persisted' = [persisted EXCEPT ![i] = 0]
    /\ UNCHANGED <<running, escVars, world, budget, paused, pending, firing,
                   tick, eject, board, lease>>

(* _handle_worker_error; a refresh that fails leaves `cancelled` here too. *)
ExitError(t) ==
    LET i == task[t].issue IN
    /\ task[t].phase = "handling"
    /\ \/ task[t].reason = "error"
       \/ /\ task[t].reason = "cancelled"
          /\ board[i] = "active" \/ "tracker" \in Enabled
    /\ Decided(t, "none")
    /\ ScheduleFailure(i, task[t].attempt)
    /\ \/ UNCHANGED paused
       \/ "pause" \in Enabled /\ paused' = paused \cup {i}
    /\ UNCHANGED <<running, claimed, budget, pending, escal, world, firing,
                   escWriting, tick, eject, board, lease>>

(* _handle_normal_exit: continue, stop on a budget, stop for want of       *)
(* progress, or leave a closed, handed-off or unpublished ticket alone.    *)
ExitNormal(t) ==
    LET i == task[t].issue IN
    /\ task[t].phase = "handling" /\ task[t].reason = "normal"
    /\ \/ /\ task[t].seen = "active"
          /\ ScheduleRetry(i, 1, "continuation", TRUE)
          /\ Decided(t, "none") /\ UNCHANGED <<claimed, budget>>
       \/ /\ "budget" \in Enabled
          /\ \/ Decided(t, "budget") /\ budget' = budget \cup {i}
             \/ Decided(t, "no_stage_change") /\ UNCHANGED budget
          /\ claimed' = claimed \cup {i}
          /\ persisted' = [persisted EXCEPT ![i] = 0]
          /\ UNCHANGED <<retry, escReady>>
       \/ /\ Decided(t, "none")
          /\ persisted' = [persisted EXCEPT ![i] = 0]
          /\ UNCHANGED <<claimed, budget, retry, escReady>>
    /\ UNCHANGED <<running, escal, world, paused, pending, firing, escWriting,
                   tick, eject, board, lease>>

(* _persist_budget_exhausted_state, and the pause that follows it when     *)
(* there was no stage change.  Without a target state nothing is written.  *)
ExitPersist(t) ==
    LET i == task[t].issue IN
    /\ task[t].phase = "tail" /\ task[t].left # "none"
    /\ board' \in {board, [board EXCEPT ![i] = "closed"]}
    /\ paused' = IF task[t].left = "no_stage_change" THEN paused \cup {i} ELSE paused
    /\ task' = [task EXCEPT ![t].left = "none"]
    /\ UNCHANGED <<slotVars, escVars, world, budget, pending, firing, tick,
                   eject, lease>>

(* The finally of _on_worker_exit: the lease, then the in-flight mark. *)
ExitFinish(t) ==
    LET i == task[t].issue IN
    /\ task[t].phase = "tail" /\ task[t].left = "none"
    /\ FinishLease(i, t)
    /\ pending' = pending \ {i}
    /\ task' = [task EXCEPT ![t] = FreeTask]
    /\ UNCHANGED <<slotVars, escVars, world, budget, paused, firing, tick,
                   eject, board>>

-----------------------------------------------------------------------------
(* Escalation (_escalate_max_retries) *)

EscalationBegin(i) ==
    /\ escReady[i] > 0
    /\ escReady' = [escReady EXCEPT ![i] = @ - 1]
    /\ escWriting' = [escWriting EXCEPT ![i] = @ + 1]
    /\ retry' = [retry EXCEPT ![i] = NoRetry]
    /\ UNCHANGED <<running, claimed, persisted, budget, paused, pending, escal,
                   world, task, firing, tick, eject, board, lease>>

EscalationEnds(i) ==
    /\ escWriting[i] > 0
    /\ escWriting' = [escWriting EXCEPT ![i] = @ - 1]
    /\ \/ /\ board' = [board EXCEPT ![i] = "closed"]
          /\ claimed' = claimed \ {i}
          /\ escal' = [escal EXCEPT ![i] = 0]
          /\ UNCHANGED escReady
       \/ /\ "tracker" \in Enabled /\ UNCHANGED board
          /\ IF escal[i] + 1 >= EscalationMax
             THEN /\ claimed' = claimed \ {i}
                  /\ escal' = [escal EXCEPT ![i] = 0]
                  /\ UNCHANGED escReady
             ELSE /\ escal' = [escal EXCEPT ![i] = @ + 1]
                  /\ escReady' = [escReady EXCEPT ![i] = @ + 1]
                  /\ UNCHANGED claimed
    /\ UNCHANGED <<running, world, retry, persisted, budget, paused, pending,
                   task, firing, tick, eject, lease>>

-----------------------------------------------------------------------------
(* Operators, the tracker and the registry *)

PauseWorker(i) ==
    /\ "pause" \in Enabled /\ i \in Running /\ i \notin paused
    /\ paused' = paused \cup {i}
    /\ UNCHANGED <<slotVars, escVars, world, budget, pending, task, firing,
                   tick, eject, board, lease>>

(* resume_worker; that it fires the waiting retry at once is RetryFire. *)
ResumeWorker(i) ==
    /\ i \in paused
    /\ paused' = paused \ {i}
    /\ UNCHANGED <<slotVars, escVars, world, budget, pending, task, firing,
                   tick, eject, board, lease>>

MoveTicket(i) ==
    /\ i \in world.tickets
    /\ \/ "open" \in Enabled /\ board' = [board EXCEPT ![i] = "active"]
       \/ "close" \in Enabled /\ board' = [board EXCEPT ![i] = "closed"]
    /\ UNCHANGED <<slotVars, escVars, world, budget, paused, pending, task,
                   firing, tick, eject, lease>>

(* A lease nobody renews lapses. *)
LeaseLapses(i) ==
    /\ \/ lease[i] = Orphan
       \/ lease[i] \in Tasks /\ task[lease[i]].phase = "working" /\ ~Owns(lease[i])
       \/ /\ "registry" \in Enabled
          /\ lease[i] \in Tasks /\ task[lease[i]].phase \in {"handling", "tail"}
    /\ lease' = [lease EXCEPT ![i] = NoTask]
    /\ UNCHANGED <<slotVars, escVars, world, budget, paused, pending, task,
                   firing, tick, eject, board>>

-----------------------------------------------------------------------------
TickNext ==
    \/ TickStart \/ TickPrune \/ TickFetch \/ TickEnd \/ HoldEnds \/ EjectFinish
    \/ \E z \in tick.zombies : EjectKill(z)
    \/ \E i \in Issues : \/ StallCancel(i) \/ CancelClosed(i)
                         \/ ScanPass(i) \/ ScanStart(i) \/ HoldReopened(i)
RetryNext ==
    \E i \in Issues : \/ RetryFire(i) \/ RetryFetchFails(i)
                      \/ RetryMissing(i) \/ RetryDecide(i)
ExitNext ==
    \E t \in Tasks : \/ WorkerEnds(t) \/ ExitClosed(t) \/ ExitError(t)
                     \/ ExitNormal(t) \/ ExitPersist(t) \/ ExitFinish(t)
OtherNext ==
    \E i \in Issues : \/ EscalationBegin(i) \/ EscalationEnds(i)
                      \/ PauseWorker(i) \/ ResumeWorker(i)
                      \/ MoveTicket(i) \/ LeaseLapses(i)

Next == TickNext \/ RetryNext \/ ExitNext \/ OtherNext
Spec == Init /\ [][Next]_vars

(* The loop goes on: ticks, timers, exit handlers and escalations run when *)
(* they can, and the turn timeout ends every worker nobody paused.  The    *)
(* tracker does not fail every fetch, an eligible ticket is not parked,    *)
(* held or refused its lease for ever, and a lease that nobody renews      *)
(* lapses.  How workers end, what operators do and which other calls fail  *)
(* is unconstrained.                                                       *)
Fairness ==
    /\ WF_vars(TickStart) /\ WF_vars(TickPrune) /\ WF_vars(TickEnd)
    /\ SF_vars(TickFetch /\ tick'.phase = "scanning")
    /\ WF_vars(\E i \in Issues : ScanPass(i) \/ ScanStart(i) \/ HoldReopened(i))
    /\ WF_vars(HoldEnds) /\ WF_vars(EjectFinish)
    /\ \A i \in Issues :
         /\ SF_vars(ScanStart(i) /\ i \in Running')
         /\ WF_vars(RetryFire(i)) /\ SF_vars(RetryMissing(i) \/ RetryDecide(i))
         /\ WF_vars(EscalationBegin(i)) /\ WF_vars(EscalationEnds(i))
         /\ WF_vars(LeaseLapses(i))
    /\ \A t \in Tasks :
         /\ WF_vars(task[t].issue \notin paused /\ WorkerEnds(t))
         /\ WF_vars(ExitClosed(t) \/ ExitError(t) \/ ExitNormal(t)
                       \/ ExitPersist(t) \/ ExitFinish(t))

FairSpec == Spec /\ Fairness

-----------------------------------------------------------------------------
(* Properties *)

(* No more workers run than `agent.max_concurrent_agents`, whichever of    *)
(* the tick and the retry timers starts them, although both decide after   *)
(* an awaited fetch (_available_slots, _process_retry, _on_tick).          *)
RunningWithinCap == Cardinality(Running) <= MaxAgents

(* A ticket has one worker at a time, counted until its exit handler has   *)
(* written the outcome and given the ticket back (_on_worker_exit), also   *)
(* when the registry fails open and runs start without a lease.            *)
OneOwner ==
    \A t, u \in Tasks :
        (t # u /\ task[t].phase # "free" /\ task[u].phase # "free")
            => task[t].issue # task[u].issue

(* No claim, dropped retry or refused lease keeps an open ticket from its  *)
(* worker for ever, whatever fails on the way (the G1 prune of _on_tick);  *)
(* only an operator's pause, an exhausted budget and an open blocker do.   *)
EventuallyServed ==
    \A i \in Issues :
        []<>(\/ i \in Running \cup paused \cup budget \/ board[i] = "closed"
             \/ \E j \in Blockers[i] : board[j] = "active")

(* A ticket that waits for its blocker does not hold the slot the blocker  *)
(* needs (_handle_retry_decision, RetryEntry.holds_slot): an open blocker  *)
(* is always served again.                                                 *)
BlockerServed ==
    \A i, j \in Issues :
        []<>(j \in Blockers[i] => j \in Running \/ board[j] = "closed")

-----------------------------------------------------------------------------
(* Claims of the repository that the code does not keep *)

(* dispatch_state.py: "only the entry whose `worker_task` is the finished  *)
(* task may be treated as stale".  A worker that was not cancelled for a   *)
(* stall is never dropped from `_running`: its entry leaves only through   *)
(* its own exit.                                                           *)
LiveWorkerKept ==
    \A t \in Tasks : (task[t].phase = "working" /\ ~task[t].stalled) => Owns(t)

(* _escalate_max_retries: "the _pending_escalations entry keeps the claim  *)
(* alive through G1".  A ticket whose retries are exhausted is not started *)
(* again while its escalation is in progress.                              *)
EscalatedStaysOut ==
    [][\A i \in Issues : (i \notin Running /\ i \in Running') => ~Escalating(i)]_vars
=============================================================================
