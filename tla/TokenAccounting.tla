-------------------------- MODULE TokenAccounting ---------------------------
(***************************************************************************)
(* What a ticket's agents report while they run, and what the orchestrator *)
(* makes of it: the event handler _on_codex_event (agent_phase.py), which  *)
(* turns the absolute usage a backend reports into deltas, stops a worker  *)
(* at its token cap and counts turns without output, the accounting reset  *)
(* of a phase transition, and the exit of a worker that was stopped        *)
(* (worker_exit.py).                                                       *)
(*                                                                         *)
(* Events carry the issue's id and nothing that names the worker: those of *)
(* the backend of an evicted worker reach the entry of its successor.      *)
(* The active lanes are 1 .. Lanes, Done follows them and Blocked is 0.    *)
(***************************************************************************)
EXTENDS Integers, Sequences, FiniteSets, FiniteSetsExt

CONSTANTS
  Lanes,       \* number of active lanes
  Cap,         \* agent.max_total_tokens
  Threshold,   \* EMPTY_TURN_LOOP_THRESHOLD
  MaxTurns,    \* agent.max_turns
  MaxClients,  \* bound: backends built
  MaxUse,      \* bound: tokens one backend uses
  MaxFaults,   \* bound: failed turns and tracker writes, evictions,
               \* events of an evicted worker's backend
  MaxResumes   \* bound: resumes by the operator

\* A cap of 0 would switch the budget off.
ASSUME TokenAssumption ==
  /\ Lanes \in Nat \ {0} /\ Cap \in Nat \ {0} /\ Threshold \in Nat \ {0}
  /\ MaxTurns \in Nat /\ MaxClients \in Nat /\ MaxUse \in Nat

VARIABLES
  cfg,      \* [target: budget_exhausted_state is set, factory: profile]
  clients,  \* every backend built: [used, live], and as ghosts whether its turn
            \* has spoken and how many turns in a row ended without a word
  entry,    \* the RunningEntry, or NoEntry
  w,        \* its worker: [pc, client, turn, reason, kill]
  ticket,   \* [lane, paused, exhausted]
  totals,   \* _totals.total_tokens
  stats,    \* tokens written to stats.jsonl
  ema,      \* tokens folded into the lanes' moving averages
  evicted,  \* ghost: some worker was evicted with its backend alive
  unkept,   \* ghost: a worker stopped at its cap left its card as it was,
            \* neither marked exhausted nor moved
  faults, resumes

vars == <<cfg, clients, entry, w, ticket, totals, stats, ema, evicted, unkept,
          faults, resumes>>

Done == Lanes + 1
Blocked == 0
Active == 1..Lanes
NoEntry == [in |-> FALSE]
NoWorker == [pc |-> "off", client |-> 0, turn |-> 0, reason |-> "normal", kill |-> FALSE]
Fresh(lane) ==
  [in |-> TRUE, reported |-> 0, phase |-> 0, total |-> 0, stats |-> 0, ema |-> 0,
   hit |-> FALSE, cancelled |-> FALSE, empty |-> 0, loop |-> FALSE, said |-> FALSE,
   at |-> 0, lane |-> lane]
Fault == faults < MaxFaults /\ faults' = faults + 1
Go(pc) == w' = [w EXCEPT !.pc = pc]
Leave(reason) == w' = [w EXCEPT !.pc = "leave", !.reason = reason]

Init ==
  /\ cfg \in [target : BOOLEAN, factory : BOOLEAN]
  /\ clients = <<>> /\ entry = NoEntry /\ w = NoWorker
  /\ ticket = [lane |-> 1, paused |-> FALSE, exhausted |-> FALSE]
  /\ totals = 0 /\ stats = 0 /\ ema = 0
  /\ evicted = FALSE /\ unkept = FALSE /\ faults = 0 /\ resumes = 0
-----------------------------------------------------------------------------
(* _on_codex_event.  Each operator takes the entry and returns it as a     *)
(* part of the handler leaves it.                                          *)

Delta(e, usage) == IF usage > e.reported THEN usage - e.reported ELSE 0

\* _apply_token_totals: the delta to the last absolute report.
ApplyTokenTotals(e, usage) ==
  [e EXCEPT !.reported = usage, !.phase = @ + Delta(e, usage), !.total = @ + Delta(e, usage)]

\* Mutant: the cap has to be exceeded, not reached.
MutantBreach(e) == ~e.cancelled /\ e.phase > Cap

\* The cap of _token_cap_for_entry is reached and no stop is under way.
Breach(e) == ~e.cancelled /\ e.phase >= Cap

\* The hard token-budget cap: remember the breach and cancel the worker.
Charge(e) == IF Breach(e) THEN [e EXCEPT !.hit = TRUE, !.cancelled = TRUE] ELSE e

\* The preview of an event's payload, if it has one.
Preview(e, said) == IF said THEN [e EXCEPT !.said = TRUE] ELSE e

Spoken(e, said, usage) == Charge(ApplyTokenTotals(Preview(e, said), usage))

\* The empty-response guard of a completed turn.
CountEmpty(e) ==
  IF e.said THEN [e EXCEPT !.empty = 0, !.loop = FALSE, !.said = FALSE]
  ELSE [e EXCEPT !.empty = @ + 1, !.loop = @ \/ (e.empty + 1 >= Threshold /\ ~e.cancelled)]

\* _record_stats_turn and the sample of _update_token_ema are taken.
Recorded(e) == [e EXCEPT !.stats = e.total, !.ema = e.phase]
Sampled(e) == ema + e.phase - e.ema

\* The worker's task is cancelled by a breach.
Killed(e) == w.kill \/ (e.hit /\ ~entry.hit)

\* A backend uses tokens and reports the sum of what it has used.
Uses(c, said, used) ==
  /\ clients[c].live /\ clients[c].used + used <= MaxUse
  /\ clients' = [clients EXCEPT ![c].used = @ + used, ![c].spoke = @ \/ said]

\* The handler, for an event of backend c; one for an issue that is not
\* running is dropped.
Handled(c, said) ==
  IF ~entry.in THEN UNCHANGED <<entry, totals, w>>
  ELSE LET e == Spoken(entry, said, clients'[c].used)
       IN  /\ entry' = e
           /\ totals' = totals + e.total - entry.total
           /\ w' = [w EXCEPT !.kill = Killed(e)]

\* The agent speaks, calls a tool, or only re-reads its history.
Message(said, used) ==
  /\ w.pc \in {"turn", "leave"} /\ Uses(w.client, said, used) /\ Handled(w.client, said)
  /\ UNCHANGED <<cfg, ticket, stats, ema, evicted, unkept, faults, resumes>>

\* EVENT_TURN_COMPLETED: the turn's tokens go to the statistics and to the
\* average of the lane it began in, and an empty turn is counted.
TurnCompleted(used) ==
  /\ w.pc = "turn"
  /\ LET c == clients[w.client]
         e == Spoken(entry, FALSE, c.used + used)
     IN  /\ c.used + used <= MaxUse
         /\ clients' = [clients EXCEPT
              ![w.client].used = @ + used, ![w.client].spoke = FALSE,
              ![w.client].idle = IF c.spoke THEN 0 ELSE @ + 1]
         /\ entry' = CountEmpty(Recorded(e))
         /\ totals' = totals + e.total - entry.total
         /\ stats' = stats + e.total - e.stats
         /\ ema' = Sampled(e)
         /\ w' = [w EXCEPT !.pc = "returned", !.kill = Killed(e)]
  /\ UNCHANGED <<cfg, ticket, evicted, unkept, faults, resumes>>

\* The backend of an evicted worker reports into its successor's entry, up
\* to the moment the successor leaves the running set.
LateEvent(c, used) ==
  /\ c # w.client /\ Fault /\ Uses(c, TRUE, used) /\ Handled(c, TRUE)
  /\ UNCHANGED <<cfg, ticket, stats, ema, evicted, unkept, resumes>>
-----------------------------------------------------------------------------
(* The worker.  Each action is one await of its task, so a cancelled task  *)
(* takes none of them: its next step is Cancelled.                         *)

New == Append(clients, [used |-> 0, spoke |-> FALSE, idle |-> 0, live |-> TRUE])
Stop(c) == [clients EXCEPT ![c].live = FALSE]

Dispatch ==
  /\ w.pc = "off" /\ Len(clients) < MaxClients
  /\ ticket.lane \in Active /\ ~ticket.paused /\ ~ticket.exhausted
  /\ clients' = New
  /\ entry' = Fresh(ticket.lane)
  /\ w' = [NoWorker EXCEPT !.pc = "top", !.client = Len(clients) + 1]
  /\ UNCHANGED <<cfg, ticket, totals, stats, ema, evicted, unkept, faults, resumes>>

StartTurn ==
  /\ w.pc = "top" /\ ~w.kill /\ ~entry.loop
  /\ entry' = [entry EXCEPT !.at = entry.lane]
  /\ w' = [w EXCEPT !.pc = "turn", !.turn = @ + 1]
  /\ UNCHANGED <<cfg, clients, ticket, totals, stats, ema, evicted, unkept, faults, resumes>>

\* _persist_budget_exhausted_state: move the card, unless no lane is set for
\* it or the tracker fails.
Persisted(t) ==
  \/ /\ cfg.target /\ ticket' = [t EXCEPT !.lane = Blocked] /\ UNCHANGED faults
  \/ /\ ~cfg.target /\ ticket' = t /\ UNCHANGED faults
  \/ /\ cfg.target /\ Fault /\ ticket' = t

\* _escalate_empty_response_loop at the top of the loop: the ticket is
\* paused and the worker stops.
LoopStops ==
  /\ w.pc = "top" /\ ~w.kill /\ entry.loop
  /\ Persisted([ticket EXCEPT !.paused = TRUE])
  /\ entry' = [entry EXCEPT !.loop = FALSE, !.cancelled = TRUE]
  /\ Leave("normal")
  /\ UNCHANGED <<cfg, clients, totals, stats, ema, evicted, unkept, resumes>>

AgentMoves(to) ==
  /\ w.pc = "turn" /\ ticket.lane \in Active /\ to \in (Active \cup {Done}) \ {ticket.lane}
  /\ ticket' = [ticket EXCEPT !.lane = to]
  /\ UNCHANGED <<cfg, clients, entry, w, totals, stats, ema, evicted, unkept, faults, resumes>>

TurnFails ==
  /\ w.pc = "turn" /\ ~w.kill /\ Fault /\ Leave("error")
  /\ UNCHANGED <<cfg, clients, entry, ticket, totals, stats, ema, evicted, unkept, resumes>>

\* _reset_phase_accounting
ResetPhase(e, lane) ==
  [e EXCEPT !.reported = 0, !.phase = 0, !.ema = 0, !.hit = FALSE, !.at = lane,
            !.lane = lane, !.empty = 0, !.loop = FALSE]

\* _run_phase_transition: a card in another active lane continues with a
\* backend of its own, and with fresh accounting.
NextBackend ==
  /\ Len(clients) < MaxClients
  /\ clients' = Append(Stop(w.client), New[Len(New)])
  /\ entry' = ResetPhase(entry, ticket.lane)
  /\ w' = [w EXCEPT !.pc = "top", !.client = Len(clients) + 1]

\* The turn's result: a worker whose card left the active lanes, or that used
\* its turns, stops.
Evaluate ==
  /\ w.pc = "returned" /\ ~w.kill
  /\ IF ticket.lane = entry.lane /\ w.turn < MaxTurns
     THEN Go("top") /\ UNCHANGED <<clients, entry>>
     ELSE IF ticket.lane \notin Active \/ w.turn = MaxTurns
     THEN Leave("normal") /\ entry' = [entry EXCEPT !.lane = ticket.lane] /\ UNCHANGED clients
     ELSE NextBackend
  /\ UNCHANGED <<cfg, ticket, totals, stats, ema, evicted, unkept, faults, resumes>>

\* CancelledError at the worker's next await, the backend's stop included.
Cancelled ==
  /\ w.kill /\ w.pc \in {"top", "turn", "returned", "leave"}
  /\ w' = [w EXCEPT !.pc = "exit", !.reason = "cancelled", !.kill = FALSE]
  /\ clients' = Stop(w.client)
  /\ UNCHANGED <<cfg, entry, ticket, totals, stats, ema, evicted, unkept, faults, resumes>>

\* _cleanup_backend of an attempt that was not cancelled.
CleanUp ==
  /\ w.pc = "leave" /\ ~w.kill
  /\ clients' = Stop(w.client) /\ Go("exit")
  /\ UNCHANGED <<cfg, entry, ticket, totals, stats, ema, evicted, unkept, faults, resumes>>

\* The tick drops the entry of a cancelled worker that does not finish.
Evict ==
  /\ w.kill /\ Fault
  /\ evicted' = TRUE /\ entry' = NoEntry /\ w' = NoWorker
  /\ UNCHANGED <<cfg, clients, ticket, totals, stats, ema, unkept, resumes>>
-----------------------------------------------------------------------------
(* The exit, from the pop of the entry on.                                 *)

Exits(reason) == w.pc = "exit" /\ w.reason = reason /\ entry' = NoEntry /\ w' = NoWorker
Kept == unkept' = (unkept \/ (entry.hit /\ cfg.target /\ ~ticket'.exhausted /\ ticket'.lane = entry.at))

\* A normal exit: _handle_token_budget holds a card that has not moved since
\* its turn began, and the rest of the exit continues or ends the ticket.
ExitNormal ==
  /\ Exits("normal")
  /\ IF entry.hit /\ ticket.lane = entry.at
     THEN Persisted([ticket EXCEPT !.exhausted = TRUE])
     ELSE UNCHANGED <<ticket, faults>>
  /\ Kept
  /\ UNCHANGED <<cfg, clients, totals, stats, ema, evicted, resumes>>

\* A cancelled worker whose card is terminal by now: only a factory delivery
\* that was cut off by its budget is held and taken back.
ExitTerminal ==
  /\ Exits("cancelled") /\ ticket.lane \notin Active
  /\ IF entry.hit /\ cfg.factory /\ ticket.lane = Done
     THEN \/ ticket' = [ticket EXCEPT !.paused = TRUE, !.lane = Blocked] /\ UNCHANGED faults
          \/ ticket' = [ticket EXCEPT !.paused = TRUE] /\ Fault
     ELSE UNCHANGED <<ticket, faults>>
  /\ Kept
  /\ UNCHANGED <<cfg, clients, totals, stats, ema, evicted, resumes>>

\* _handle_worker_error: a cancelled or failed worker pauses its ticket
\* unless its error can be retried; the retry is scheduled either way.
ExitError ==
  /\ \/ Exits("cancelled") /\ ticket.lane \in Active /\ ticket' = [ticket EXCEPT !.paused = TRUE]
     \/ Exits("error") /\ \E p \in BOOLEAN : ticket' = [ticket EXCEPT !.paused = @ \/ p]
  /\ Kept
  /\ UNCHANGED <<cfg, clients, totals, stats, ema, evicted, faults, resumes>>

Resume ==
  /\ ticket.paused /\ resumes < MaxResumes
  /\ ticket' = [ticket EXCEPT !.paused = FALSE] /\ resumes' = resumes + 1
  /\ UNCHANGED <<cfg, clients, entry, w, totals, stats, ema, evicted, unkept, faults>>

Next ==
  \/ Dispatch \/ StartTurn \/ LoopStops \/ TurnFails \/ Evaluate
  \/ \E said \in BOOLEAN, used \in 0..1 : Message(said, used)
  \/ \E used \in 0..1 : TurnCompleted(used)
  \/ \E c \in DOMAIN clients, used \in 0..1 : LateEvent(c, used)
  \/ \E to \in Active \cup {Done} : AgentMoves(to)
  \/ Cancelled \/ CleanUp \/ Evict
  \/ ExitNormal \/ ExitTerminal \/ ExitError \/ Resume

Spec == Init /\ [][Next]_vars
-----------------------------------------------------------------------------
Used(C) == MapThenSumSet(LAMBDA c : clients[c].used, C)

(***************************************************************************)
(* Until a worker is evicted, the total the service shows is exactly what  *)
(* the backends of all attempts and phases have used, and neither the      *)
(* statistics nor the averages count a token twice (_apply_token_totals,   *)
(* _reset_phase_accounting, _record_stats_turn).                           *)
(***************************************************************************)
TokensAddUp ==
  ~evicted => /\ totals = Used(DOMAIN clients)
              /\ stats <= totals
              /\ ema <= totals

(***************************************************************************)
(* A backend that has used up the cap of its phase gets no further turn,   *)
(* whatever an evicted worker's backend reports in between (the hard       *)
(* token-budget cap of _on_codex_event).                                   *)
(***************************************************************************)
BudgetHolds ==
  [][(w'.pc = "turn" /\ w.pc # "turn") => clients[w.client].used < Cap]_vars

(***************************************************************************)
(* An agent never ends more than Threshold turns in a row without a word   *)
(* in one phase (the empty-response guard, across the event that counts    *)
(* the turns and the loop that stops the worker).                          *)
(***************************************************************************)
EmptyLoopStops ==
  ~evicted => \A c \in DOMAIN clients : clients[c].idle <= Threshold

(***************************************************************************)
(* A worker stopped at its token cap, on a board with a lane for exhausted *)
(* budgets, leaves its ticket marked exhausted or its card moved.          *)
(***************************************************************************)
BudgetIsPersisted == ~unkept

=============================================================================
