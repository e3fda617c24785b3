----------------------------- MODULE IssueFlags -----------------------------
(***************************************************************************)
(* What the orchestrator remembers of a ticket across workers, retries and *)
(* restarts: the pause and its reason, the exhausted budget and the retry  *)
(* attempt, kept in memory and written through to the issue_flags table    *)
(* (run_registry.py), which a new process reads back                       *)
(* (_rehydrate_issue_flags in run_leases.py).                              *)
(*                                                                         *)
(* Every registry call runs behind _registry_guard: one that fails is      *)
(* logged and the memory goes on without it.  A worker's exit writes more  *)
(* than one flag, and the process can die between two writes.  One ticket, *)
(* one process at a time.  Attempt 0 stands for no attempt recorded.       *)
(***************************************************************************)
EXTENDS Naturals, FiniteSets

CONSTANTS
  MaxRetries,   \* agent.max_retries
  Kinds,        \* the backends: the board's and agent.fallback_kinds, 1 the board's
  MaxFailures,  \* bound: failed registry and tracker calls
  MaxEnds,      \* bound: ends of the process
  MaxActs,      \* bound: pauses, resumes and moves of the card
  MaxRuns       \* bound: workers started

VARIABLES
  up,       \* the process runs
  reg,      \* its registry is open; a tick that cannot open it dispatches nothing
  mem,      \* [reason, budget, attempt]: _paused_issue_ids and _pause_reasons,
            \* _turn_budget_exhausted, _persisted_retry_attempts
  row,      \* the same in the issue_flags table; Empty: no row
  claimed,  \* the ticket is in _claimed
  worker,   \* the running entry: [st, attempt]
  retry,    \* _retry[issue]: [kind, attempt]
  polling,  \* the retry a timer has popped while it awaits the candidates
  step,     \* what the exit of a worker still has to do
  ticket,   \* [active, kind: the pinned backend, handed: a durable handoff]
  tried,    \* debug.quota_exhausted_kinds
  held,     \* ghost: the holds that are on record and nobody has lifted
  fails,    \* ghost: retries granted since the last clean exit, release or escalation
  lost,     \* ghost: an attempt was not recorded or read back, or a worker
            \* overtook the retry that was to count it
  failures, ends, acts, runs

flagVars == <<up, reg, mem, row, claimed, worker, retry, polling, step, ticket, tried,
              held, fails, lost, failures, ends, acts, runs>>

NoPause == "no"
Empty == [reason |-> NoPause, budget |-> FALSE, attempt |-> 0]
Unassigned == [st |-> "none", attempt |-> 0]
NoRetry == [kind |-> "none", attempt |-> 0]
Idle == [do |-> "idle", attempt |-> 0]

\* A row of an older build, which paused on errors this one retries.
Legacy == [reason |-> "transient", budget |-> FALSE, attempt |-> 1]

InitFlags ==
  /\ up = FALSE /\ reg = FALSE /\ mem = Empty
  /\ row \in {Empty, Legacy}
  /\ claimed = FALSE /\ worker = Unassigned /\ retry = NoRetry /\ polling = NoRetry
  /\ step = Idle
  /\ ticket = [active |-> TRUE, kind |-> 1, handed |-> FALSE]
  /\ tried = {} /\ held = {} /\ fails = row.attempt /\ lost = FALSE
  /\ failures = 0 /\ ends = 0 /\ acts = 0 /\ runs = 0

Ready == up /\ reg /\ step = Idle
Failure == failures < MaxFailures /\ failures' = failures + 1
Act == acts < MaxActs /\ acts' = acts + 1

-----------------------------------------------------------------------------
(* The issue_flags table.                                                  *)

\* A hold the table keeps, as held names it.
HoldsOf(r) == {h \in {"pause", "budget"} :
                 (h = "pause" /\ r.reason # NoPause) \/ (h = "budget" /\ r.budget)}

\* A plausible bug: a write resets the pause it was not given.
MutantSetIssueFlags(r, given) ==
  [f \in DOMAIN r |-> IF f \in DOMAIN given THEN given[f] ELSE Empty[f]]

\* set_issue_flags and clear_issue_flags read the row and write it back with the
\* flags they were given; a flag that was not given keeps its value.
SetIssueFlags(r, given) == [f \in DOMAIN r |-> IF f \in DOMAIN given THEN given[f] ELSE r[f]]

\* A write through _registry_guard, which succeeds or fails.  A hold is on record
\* once its write has succeeded, and lifted when the memory lifts it.
WriteFlags(given, lifts) ==
  \/ /\ row' = SetIssueFlags(row, given)
     /\ held' = (held \union HoldsOf(SetIssueFlags(Empty, given))) \ lifts
     /\ UNCHANGED <<failures, lost>>
  \/ /\ Failure /\ UNCHANGED row
     /\ held' = held \ lifts /\ lost' = TRUE

\* Memory and table together.
Flag(given, lifts) == mem' = SetIssueFlags(mem, given) /\ WriteFlags(given, lifts)

-----------------------------------------------------------------------------
(* The process: its start, the opening of its registry, and its end.       *)

Launch ==
  /\ ~up /\ up' = TRUE
  /\ UNCHANGED <<reg, mem, row, claimed, worker, retry, polling, step, ticket, tried,
                 held, fails, lost, failures, ends, acts, runs>>

\* A pause of an error the retry policy covers gives way to the recorded retry.
Retryable(r) == r.attempt > 0 /\ r.reason = "transient"

\* What a process takes from the row: a verifier whose handoff is durable keeps
\* neither retry nor pause, a retryable pause is released, the rest is kept.
Rehydrated(r, proven) ==
  [budget |-> mem.budget \/ r.budget,
   attempt |-> IF proven THEN 0 ELSE r.attempt,
   reason |-> CASE r.attempt > 0 /\ proven -> NoPause
                [] Retryable(r) -> NoPause
                [] r.reason # NoPause -> r.reason
                [] OTHER -> mem.reason]

\* What rehydration clears in the table.
Cleared(r, proven) ==
  IF r.attempt > 0 /\ proven THEN [r EXCEPT !.attempt = 0, !.reason = NoPause]
  ELSE IF Retryable(r) THEN [r EXCEPT !.reason = NoPause]
  ELSE r

\* A tick opens the registry when it is not open and reads the flags back.  A handoff
\* that cannot be proven now keeps its flags.
OpenRunRegistry ==
  /\ up /\ ~reg /\ reg' = TRUE
  /\ \E proven \in {ticket.handed, FALSE} :
       /\ mem' = Rehydrated(row, proven)
       /\ \/ row' = Cleared(row, proven) /\ UNCHANGED failures
          \/ row' = row /\ Cleared(row, proven) # row /\ Failure
       /\ held' = IF row.attempt > 0 /\ (proven \/ Retryable(row))
                  THEN held \ {"pause"} ELSE held
  /\ UNCHANGED <<up, claimed, worker, retry, polling, step, ticket, tried, fails, lost, ends,
                 acts, runs>>

\* The registry opens but its flags cannot be listed: none are taken.
ListFails ==
  /\ up /\ ~reg /\ reg' = TRUE /\ Failure
  /\ mem' = [mem EXCEPT !.attempt = 0]
  /\ held' = {} /\ lost' = TRUE
  /\ UNCHANGED <<up, row, claimed, worker, retry, polling, step, ticket, tried, fails,
                 ends, acts, runs>>

\* stop() and a crash leave the table as it is and take the memory with them; a
\* stopped worker's exit (shutdown_interrupted) writes no flag.
HandleShutdownInterrupted == row' = row /\ held' = held

Down ==
  /\ up /\ ends < MaxEnds /\ ends' = ends + 1
  /\ up' = FALSE /\ reg' = FALSE /\ mem' = Empty /\ claimed' = FALSE
  /\ worker' = Unassigned /\ retry' = NoRetry /\ polling' = NoRetry /\ step' = Idle
  /\ tried' = {}
  /\ HandleShutdownInterrupted
  /\ UNCHANGED <<ticket, fails, lost, failures, acts, runs>>

-----------------------------------------------------------------------------
(* Dispatch and the operator.                                              *)

\* A tick prunes the claim of a ticket that neither runs nor waits for a retry.
Claimed == claimed /\ (worker # Unassigned \/ retry # NoRetry)

Dispatchable ==
  /\ ticket.active /\ ~ticket.handed
  /\ mem.reason = NoPause /\ ~mem.budget /\ worker = Unassigned

StartWorker(attempt) ==
  /\ runs < MaxRuns /\ runs' = runs + 1
  /\ worker' = [st |-> "new", attempt |-> attempt] /\ claimed' = TRUE

\* _dispatch_candidates: a fresh worker continues the recorded count.
Tick ==
  /\ Ready /\ ~Claimed /\ Dispatchable
  /\ StartWorker(mem.attempt) /\ lost' = (lost \/ polling # NoRetry)
  /\ UNCHANGED <<up, reg, mem, row, retry, polling, step, ticket, tried, held, fails,
                 failures, ends, acts>>

Enter ==
  /\ Ready /\ worker.st = "new" /\ worker' = [worker EXCEPT !.st = "run"]
  /\ UNCHANGED <<up, reg, mem, row, claimed, retry, polling, step, ticket, tried, held,
                 fails, lost, failures, ends, acts, runs>>

PauseWorker ==
  /\ Ready /\ Act /\ worker # Unassigned /\ mem.reason = NoPause
  /\ Flag([reason |-> "operator"], {})
  /\ UNCHANGED <<up, reg, claimed, worker, retry, polling, step, ticket, tried, fails,
                 ends, runs>>

ResumeWorker ==
  /\ Ready /\ Act /\ mem.reason # NoPause
  /\ Flag([reason |-> NoPause], {"pause"})
  /\ UNCHANGED <<up, reg, claimed, worker, retry, polling, step, ticket, tried, fails,
                 ends, runs>>

\* The card leaves the active lanes or comes back.
MoveCard ==
  /\ Ready /\ Act
  /\ ticket' = [ticket EXCEPT !.active = ~@]
  /\ UNCHANGED <<up, reg, mem, row, claimed, worker, retry, polling, step, tried, held,
                 fails, lost, failures, ends, runs>>

-----------------------------------------------------------------------------
(* The exits of a worker.                                                  *)

Running == Ready /\ worker.st = "run"

\* The first of agent.fallback_kinds this ticket has not exhausted.
NextFallback(done) == {k \in Kinds \ ({1} \union done) : \A j \in Kinds \ ({1} \union done) : k <= j}

\* A quota error pins the next backend instead of pausing, where the tracker can
\* carry the pin.
SwitchBackend ==
  /\ Running
  /\ LET done == tried \union {ticket.kind} IN
     /\ tried' = done
     /\ \E k \in NextFallback(done) : ticket' = [ticket EXCEPT !.kind = k]
  /\ step' = [do |-> "schedule", attempt |-> worker.attempt + 1]
  /\ worker' = Unassigned
  /\ UNCHANGED <<up, reg, mem, row, claimed, retry, polling, held, fails, lost, failures, ends,
                 acts, runs>>

\* Every fallback is exhausted or the tracker cannot pin it: the quota error pauses like any
\* other error that no retry can help.
QuotaPauses ==
  /\ Running /\ tried' = tried \union {ticket.kind}
  /\ Flag([reason |-> "hard"], {})
  /\ step' = [do |-> "schedule", attempt |-> worker.attempt + 1]
  /\ worker' = Unassigned
  /\ UNCHANGED <<up, reg, claimed, retry, polling, ticket, fails, ends, acts, runs>>

\* A worker ended with an error, or its task was cancelled before it first ran
\* (_on_worker_task_done): one the retry policy covers keeps its flags, any other
\* pauses the ticket for the operator.
Fails ==
  /\ Ready /\ worker # Unassigned
  /\ \/ /\ worker.st = "run"
        /\ UNCHANGED <<mem, row, held, lost, failures>>
     \/ Flag([reason |-> "hard"], {})
  /\ step' = [do |-> "schedule", attempt |-> worker.attempt + 1]
  /\ worker' = Unassigned
  /\ UNCHANGED <<up, reg, claimed, retry, polling, ticket, tried, fails, ends, acts,
                 runs>>

\* _install_retry: one pending retry; its attempt is recorded, a continuation's is
\* cleared.
InstallRetry(kind, attempt) ==
  /\ retry' = [kind |-> kind, attempt |-> attempt]
  /\ Flag([attempt |-> IF kind = "continuation" THEN 0 ELSE attempt], {})

\* _schedule_retry after an error: past the cap the ticket is escalated, which moves
\* its card out of the active lanes.
ScheduleRetry ==
  /\ up /\ step.do = "schedule" /\ step' = Idle
  /\ IF step.attempt > MaxRetries
     THEN /\ Flag([attempt |-> 0], {})
          /\ ticket' = [ticket EXCEPT !.active = FALSE]
          /\ fails' = 0 /\ UNCHANGED <<retry, claimed>>
     ELSE /\ InstallRetry("retry", step.attempt)
          /\ claimed' = TRUE /\ fails' = fails + 1 /\ UNCHANGED ticket
  /\ UNCHANGED <<up, reg, worker, polling, tried, ends, acts, runs>>

\* _handle_normal_exit first forgets the retry, then does what the turn asks for.
ExitNormal ==
  /\ Running /\ ~ticket.handed
  /\ \E do \in {"continue", "gate", "stage", "spent"} : step' = [do |-> do, attempt |-> 0]
  /\ Flag([attempt |-> 0], {})
  /\ worker' = Unassigned /\ fails' = 0
  /\ UNCHANGED <<up, reg, claimed, retry, polling, ticket, tried, ends, acts, runs>>

ScheduleContinuation ==
  /\ up /\ step.do = "continue" /\ step' = Idle
  /\ InstallRetry("continuation", 1) /\ claimed' = TRUE
  /\ UNCHANGED <<up, reg, worker, polling, ticket, tried, fails, ends, acts, runs>>

\* The release gate has spent its rewinds, or the lane did not move.
PauseForOperator ==
  /\ up /\ step.do \in {"gate", "stage"} /\ step' = Idle
  /\ claimed' = TRUE
  /\ Flag([reason |-> step.do], {})
  /\ UNCHANGED <<up, reg, worker, retry, polling, ticket, tried, fails, ends, acts,
                 runs>>

MarkBudgetExhausted ==
  /\ up /\ step.do = "spent" /\ step' = Idle
  /\ claimed' = TRUE
  /\ Flag([budget |-> TRUE, attempt |-> 0], {})
  /\ UNCHANGED <<up, reg, worker, retry, polling, ticket, tried, fails, ends, acts,
                 runs>>

\* A release verifier's evidence becomes durable; the ticket is evidence from then on.
HandOff ==
  /\ Running /\ ~ticket.handed /\ ticket' = [ticket EXCEPT !.handed = TRUE]
  /\ UNCHANGED <<up, reg, mem, row, claimed, worker, retry, polling, step, tried, held,
                 fails, lost, failures, ends, acts, runs>>

\* A handed-over verifier, and a worker whose card has left the active lanes, give
\* up claim and retry.
ExitReleased ==
  /\ Running /\ (ticket.handed \/ ~ticket.active)
  /\ retry' = NoRetry /\ claimed' = FALSE
  /\ Flag([attempt |-> 0], {})
  /\ worker' = Unassigned /\ fails' = 0
  /\ UNCHANGED <<up, reg, polling, step, ticket, tried, ends, acts, runs>>

-----------------------------------------------------------------------------
(* The retry timer.                                                        *)

\* A paused ticket's retry is parked again; any other asks for the candidates.
OnRetryTimer ==
  /\ Ready /\ retry # NoRetry /\ polling = NoRetry
  /\ IF mem.reason # NoPause
     THEN /\ InstallRetry(retry.kind, retry.attempt)
          /\ UNCHANGED polling
     ELSE /\ polling' = retry /\ retry' = NoRetry
          /\ UNCHANGED <<mem, row, held, lost, failures>>
  /\ UNCHANGED <<up, reg, claimed, worker, step, ticket, tried, fails, ends, acts, runs>>

\* _release_retry_ownership.  A ticket that left the active view loses its pause too.
ReleaseRetry(clearPause) ==
  /\ claimed' = (worker # Unassigned) /\ retry' = retry
  /\ IF clearPause THEN Flag([attempt |-> 0, reason |-> NoPause], {"pause"})
     ELSE Flag([attempt |-> 0], {})
  /\ fails' = 0

\* _process_retry with the candidates it has fetched, or without.
ProcessRetry ==
  /\ Ready /\ polling # NoRetry /\ polling' = NoRetry
  /\ \/ /\ Failure
        /\ retry' = polling /\ claimed' = TRUE
        /\ UNCHANGED <<mem, row, held, lost, worker, fails, runs>>
     \/ ~ticket.active /\ ReleaseRetry(TRUE) /\ UNCHANGED <<worker, runs>>
     \/ /\ ticket.active /\ (mem.budget \/ ticket.handed \/ worker # Unassigned)
        /\ ReleaseRetry(FALSE) /\ UNCHANGED <<worker, runs>>
     \/ /\ Dispatchable /\ StartWorker(polling.attempt)
        /\ UNCHANGED <<mem, row, held, lost, failures, retry, fails>>
  /\ UNCHANGED <<up, reg, step, ticket, tried, ends, acts>>

NextFlags ==
  \/ Launch \/ OpenRunRegistry \/ ListFails \/ Down
  \/ Tick \/ Enter \/ PauseWorker \/ ResumeWorker \/ MoveCard
  \/ SwitchBackend \/ QuotaPauses \/ Fails \/ ScheduleRetry
  \/ ExitNormal \/ ScheduleContinuation \/ PauseForOperator \/ MarkBudgetExhausted
  \/ HandOff \/ ExitReleased \/ OnRetryTimer \/ ProcessRetry

FlagsSpec == InitFlags /\ [][NextFlags]_flagVars

-----------------------------------------------------------------------------
(* Properties.                                                             *)

TypeOK ==
  /\ up \in BOOLEAN /\ reg \in BOOLEAN /\ claimed \in BOOLEAN
  /\ mem.attempt \in Nat /\ row.attempt \in Nat
  /\ worker.st \in {"none", "new", "run"}
  /\ held \subseteq {"pause", "budget"}

(* A ticket that was paused, by the operator or by the orchestrator, or     *)
(* whose budget is exhausted, is not given a worker again before the hold   *)
(* is lifted: not by a retry, not after the process was stopped or crashed  *)
(* at any point of a worker's exit, and not because another flag was        *)
(* written (_write_issue_flags, _rehydrate_issue_flags).                    *)
HoldSurvives == [][worker = Unassigned /\ worker' # Unassigned => held = {}]_flagVars

(* A ticket gets at most max_retries retries before it is escalated,        *)
(* however often it is paused and resumed and the process restarts in       *)
(* between, as long as the registry has taken every attempt it was given    *)
(* and no tick overtook a retry that awaited its poll                       *)
(* (_retry_cap_exceeded, _rehydrate_issue_flags).                           *)
RetriesStayCapped == ~lost => fails <= MaxRetries
=============================================================================
