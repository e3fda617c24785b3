------------------------------ MODULE Attempt -------------------------------
(***************************************************************************)
(* One ticket walking through the lanes of its board under a worker: the   *)
(* turn loop (attempt.py), phase transitions and stage gates               *)
(* (agent_phase.py, workflow/verify.py), the worker's exit                 *)
(* (worker_exit.py) and the poll tick's reconciliation of the same ticket  *)
(* (retry_reconcile.py), which run concurrently and each read the card,    *)
(* await something, and then act on what they read.                        *)
(*                                                                         *)
(* The active lanes are 1 .. N in board order, Done is N + 1 and Stopped   *)
(* (Blocked, Cancelled) is 0.  The verify command of a gated lane must     *)
(* pass before a card that a worker has moved beyond that lane counts;     *)
(* owed is the set of gated lanes whose command the present trip of the    *)
(* card has still to pass.                                                 *)
(***************************************************************************)
EXTENDS Integers, FiniteSets

CONSTANTS
  N,              \* number of active lanes
  Gated,          \* lanes with a verify.commands entry
  Contracted,     \* lanes with a stage contract
  MaxTurns,       \* agent.max_turns
  MaxTotalTurns,  \* agent.max_total_turns
  MaxStateTurns,  \* agent.max_state_turns
  MaxAttempts,    \* agent.max_attempts: rewinds before the ticket is stopped
  MaxMoves,       \* bound: moves of the card by its agent and its operator
  MaxFaults,      \* bound: failures, cancellations, gate failures and stops
  MaxCrashes      \* bound: stops of the host without a handled exit

ASSUME AttemptAssumption ==
  /\ N \in Nat \ {0} /\ Gated \subseteq 1..N

VARIABLES
  card,      \* the lane of the card on the board
  pending,   \* verify-pending.json: lane recorded for this ticket, 0 none
  owed,      \* gated lanes whose command has still to pass
  excused,   \* why a gate may have been missed: the host died in a turn whose
             \* lane was not recorded ("crash"), a worker without a turn forgot
             \* the record ("forgot"), the agent moved its card while the tick's
             \* gate verified it ("agent"), the operator moved it under a running
             \* worker ("operator"), a retry overtook the tick ("retry"), the card
             \* could not be read and had moved since it last was ("stale")
  work,      \* its workspace: "here", "merged" (and removed) or "removed"
  debt,      \* what a Done card still owed when it was shipped
  w,         \* the worker: [pc, seen, cur, prev, turn, reason]
  en,        \* its RunningEntry: [in, at, issue, turns, cleanup, why]
  gate,      \* stage-gate evaluation of the worker and of the tick
  tick,      \* reconciliation of this ticket: [pc, live, state]
  dbg,       \* _IssueDebug and retry timer: [turns, rewinds, lane, count, retry]
  hold,      \* "no", "paused" or "exhausted"
  svc,       \* "up", "stopping" or "down"
  moves, faults, crashes

vars == <<card, pending, owed, excused, work, debt, w, en, gate, tick, dbg, hold, svc,
          moves, faults, crashes>>
ghosts == <<excused, work, debt>>
bounds == <<moves, faults, crashes>>

Done == N + 1
Stopped == 0
Active == 1..N
Cards == 0..Done
NoGate == [pc |-> "off", from |-> 0, cur |-> 0]
NoWorker == [pc |-> "off", seen |-> 0, cur |-> 0, prev |-> 0, turn |-> 0,
             reason |-> "normal"]
NoEntry == [in |-> FALSE, at |-> 0, issue |-> 0, turns |-> 0, cleanup |-> FALSE,
            why |-> "none"]
NoTick == [pc |-> "idle", live |-> FALSE, state |-> 0]
NoDebug == [turns |-> 0, rewinds |-> 0, lane |-> 0, count |-> 0, retry |-> FALSE]
-----------------------------------------------------------------------------
(* Lanes and gates.                                                        *)

\* crossed_commands: the gated lanes a move leaves or jumps over.
Crossed(from, to) ==
  IF from \notin Active THEN {}
  ELSE {l \in Gated : from <= l /\ l < (IF to \in Active THEN to ELSE Done)}

GatesFrom(from) == Crossed(from, Done) # {}

\* _is_rewind_transition
IsRewind(from, to) == from \in Active /\ to \in Active /\ to < from

\* _evaluate_stage_gates runs commands only for a forward move to an active
\* lane or into Done.
RunsCommands(from, to) ==
  GatesFrom(from) /\ to # from /\ ~IsRewind(from, to) /\ to # Stopped

\* verification_in_progress: some evaluation holds the ticket's scope.
Verifying == \E a \in DOMAIN gate : gate[a].pc # "off" /\ GatesFrom(gate[a].from)

\* A turn begun in a lane has to pass the commands from that lane on; an
\* operator who moves the card forward answers for the lanes that skips.
Owing(lane) == IF lane \in Active THEN owed \cup {l \in Gated : l >= lane} ELSE owed
Waived(to) == IF to = Stopped THEN owed ELSE {l \in owed : l >= to}

Excuse(when, reason) == IF when THEN excused \cup {reason} ELSE excused

Init ==
  /\ card = 1 /\ pending = 0 /\ owed = {} /\ excused = {} /\ work = "here" /\ debt = {}
  /\ w = NoWorker /\ en = NoEntry
  /\ gate = [a \in {"worker", "tick"} |-> NoGate]
  /\ tick = NoTick
  /\ dbg = NoDebug
  /\ hold = "no" /\ svc = "up"
  /\ moves = 0 /\ faults = 0 /\ crashes = 0

Go(pc) == w' = [w EXCEPT !.pc = pc]
Leave(reason) == w' = [w EXCEPT !.pc = "leave", !.reason = reason]
Fault == faults < MaxFaults /\ faults' = faults + 1

\* _refresh_issue_full, _refresh_issue_state: None when the tracker cannot be
\* read, and the caller goes on with the lane it had.
Refreshed(had, got) ==
  \/ got = card /\ UNCHANGED faults
  \/ got = had /\ had # card /\ Fault
-----------------------------------------------------------------------------
(* _evaluate_stage_gates, in four awaits: refresh the card, run the        *)
(* commands, evaluate the contract, and write the card back on a failure.  *)

EnterGate(a, from, cur) ==
  gate' = [gate EXCEPT ![a] = [pc |-> "refresh", from |-> from, cur |-> cur]]

\* running_entry.issue, while the entry is registered
Seen(state) == IF en.in THEN [en EXCEPT !.issue = state] ELSE en

GateRefresh(a) ==
  /\ gate[a].pc = "refresh"
  /\ \E got \in {card, gate[a].cur} :
       /\ Refreshed(gate[a].cur, got)
       /\ gate' = [gate EXCEPT ![a].cur = got,
                               ![a].pc = IF RunsCommands(gate[a].from, got) THEN "run"
                                         ELSE "contract"]
       /\ en' = IF got = card THEN Seen(card) ELSE en
       /\ excused' = Excuse(got # card, "stale")
  /\ UNCHANGED <<card, pending, owed, work, debt, w, tick, dbg, hold, svc, moves, crashes>>

\* Every crossed command passed: the record of the lane is cleared.  A command
\* cannot pass in a workspace that has been removed.
GatePass(a) ==
  /\ gate[a].pc = "run" /\ work = "here"
  /\ gate' = [gate EXCEPT ![a].pc = "contract"]
  /\ owed' = owed \ Crossed(gate[a].from, gate[a].cur)
  /\ pending' = 0
  /\ UNCHANGED <<card, ghosts, w, en, tick, dbg, hold, svc, bounds>>

GateFail(a) ==
  /\ gate[a].pc = "run" /\ Crossed(gate[a].from, gate[a].cur) # {}
  /\ IF work = "here" THEN Fault ELSE UNCHANGED faults
  /\ gate' = [gate EXCEPT ![a].pc = "rewind"]
  /\ UNCHANGED <<card, pending, owed, ghosts, w, en, tick, dbg, hold, svc, moves, crashes>>

GateContract(a) ==
  /\ gate[a].pc = "contract"
  /\ gate' = [gate EXCEPT ![a].pc = "passed"]
  /\ UNCHANGED <<card, pending, owed, ghosts, w, en, tick, dbg, hold, svc, bounds>>

ContractFails(a) ==
  /\ gate[a].pc = "contract" /\ gate[a].from \in Contracted /\ Fault
  /\ gate' = [gate EXCEPT ![a].pc = "rewind"]
  /\ UNCHANGED <<card, pending, owed, ghosts, w, en, tick, dbg, hold, svc, moves, crashes>>

\* _rewind_failed_gate
GateRewind(a) ==
  /\ gate[a].pc = "rewind"
  /\ card' = gate[a].from
  /\ gate' = [gate EXCEPT ![a].cur = gate[a].from, ![a].pc = "rewound"]
  /\ en' = Seen(gate[a].from)
  /\ UNCHANGED <<pending, owed, ghosts, w, tick, dbg, hold, svc, bounds>>

GateStep(a) ==
  \/ GateRefresh(a) \/ GatePass(a) \/ GateFail(a)
  \/ GateContract(a) \/ ContractFails(a) \/ GateRewind(a)

Returned(a) == gate[a].pc \in {"passed", "rewound"}
EndGate(a) == gate' = [gate EXCEPT ![a] = NoGate]
-----------------------------------------------------------------------------
(* The attempt: session, turn loop and phase transitions.                  *)

\* By the poll tick, after it has reconciled, or by the retry timer.
Dispatch ==
  /\ svc = "up" /\ w.pc = "off" /\ ~en.in /\ card \in Active /\ hold = "no"
  /\ tick.pc = "idle" \/ dbg.retry
  /\ dbg' = [dbg EXCEPT !.retry = FALSE]
  /\ w' = [NoWorker EXCEPT !.pc = "recover", !.seen = card]
  /\ en' = [NoEntry EXCEPT !.in = TRUE, !.issue = card]
  /\ tick' = [tick EXCEPT !.live = FALSE]
  /\ work' = "here" /\ debt' = {}
  /\ excused' = Excuse(tick.pc # "idle", "retry")
  /\ UNCHANGED <<card, pending, owed, gate, hold, svc, bounds>>

\* _gate_move_left_by_unhandled_exit
RecoverGate ==
  /\ w.pc = "recover"
  /\ IF Crossed(pending, w.seen) # {}
     THEN EnterGate("worker", pending, w.seen) /\ Go("recovering")
     ELSE Go("open") /\ UNCHANGED gate
  /\ UNCHANGED <<card, pending, owed, ghosts, en, tick, dbg, hold, svc, bounds>>

Recovered ==
  /\ w.pc = "recovering" /\ Returned("worker")
  /\ w' = [w EXCEPT !.pc = "open", !.seen = gate["worker"].cur]
  /\ en' = [en EXCEPT !.issue = gate["worker"].cur]
  /\ EndGate("worker")
  /\ UNCHANGED <<card, pending, owed, ghosts, tick, dbg, hold, svc, bounds>>

OpenSession ==
  /\ w.pc = "open"
  /\ w' = [w EXCEPT !.pc = "top", !.turn = 1, !.prev = w.seen]
  /\ UNCHANGED <<card, pending, owed, ghosts, en, gate, tick, dbg, hold, svc, bounds>>

\* _honour_pause_gate: a held worker reads the card again when it is resumed.
PauseGate ==
  /\ w.pc = "top"
  /\ Go(IF hold = "paused" THEN "held" ELSE "loop")
  /\ UNCHANGED <<card, pending, owed, ghosts, en, gate, tick, dbg, hold, svc, bounds>>

Resumed ==
  /\ w.pc = "held" /\ hold # "paused"
  /\ \E got \in {card, w.seen} :
       /\ Refreshed(w.seen, got)
       /\ w' = [w EXCEPT !.pc = "loop", !.seen = got]
       /\ en' = IF got = card THEN [en EXCEPT !.issue = card] ELSE en
  /\ UNCHANGED <<card, pending, owed, ghosts, gate, tick, dbg, hold, svc, moves, crashes>>

\* _remember_turn_lane
Remembered(lane) == IF GatesFrom(lane) THEN lane ELSE pending

Checked(lane) == GatesFrom(lane) \/ lane \in Contracted

LoopTop ==
  /\ w.pc = "loop"
  /\ pending' = Remembered(w.seen)
  /\ w' = [w EXCEPT !.cur = w.seen,
                    !.pc = IF dbg.turns + w.turn > MaxTotalTurns THEN "leave"
                           ELSE IF w.turn > 1 /\ w.seen # w.prev THEN "moved"
                           ELSE "start"]
  /\ UNCHANGED <<card, owed, ghosts, en, gate, tick, dbg, hold, svc, bounds>>

\* _transition_agent_phase
Transition ==
  /\ w.pc = "moved"
  /\ IF ~IsRewind(w.prev, w.cur) /\ Checked(w.prev)
     THEN EnterGate("worker", w.prev, w.cur) /\ Go("gate")
     ELSE Go(IF IsRewind(w.prev, w.cur) THEN "rewound" ELSE "rebuild") /\ UNCHANGED gate
  /\ UNCHANGED <<card, pending, owed, ghosts, en, tick, dbg, hold, svc, bounds>>

PhaseGated ==
  /\ w.pc = "gate" /\ Returned("worker")
  /\ w' = [w EXCEPT !.cur = gate["worker"].cur, !.seen = gate["worker"].cur,
                    !.pc = IF gate["worker"].pc = "rewound" THEN "rewound" ELSE "rebuild"]
  /\ EndGate("worker")
  /\ UNCHANGED <<card, pending, owed, ghosts, en, tick, dbg, hold, svc, bounds>>

\* The rewind budget: beyond it the ticket is stopped.
CountRewind ==
  /\ w.pc = "rewound"
  /\ dbg' = [dbg EXCEPT !.rewinds = @ + 1]
  /\ IF dbg.rewinds + 1 > MaxAttempts
     THEN /\ card' = Stopped
          /\ en' = [en EXCEPT !.issue = Stopped]
          /\ Go("leave")
     ELSE Go("rebuild") /\ UNCHANGED <<card, en>>
  /\ UNCHANGED <<pending, owed, ghosts, gate, tick, hold, svc, bounds>>

\* _rebuild_backend_for_phase and _reset_phase_accounting
Rebuild ==
  /\ w.pc = "rebuild"
  /\ en' = [en EXCEPT !.at = w.cur]
  /\ dbg' = [dbg EXCEPT !.lane = w.cur, !.count = 0]
  /\ Go("start")
  /\ UNCHANGED <<card, pending, owed, ghosts, gate, tick, hold, svc, bounds>>

\* A failed stop or start of a backend, or a failed before_run hook.
SetupFails ==
  /\ w.pc \in {"open", "rebuild", "start"} /\ Fault
  /\ Leave("error")
  /\ UNCHANGED <<card, pending, owed, ghosts, en, gate, tick, dbg, hold, svc, moves, crashes>>

StartTurn ==
  /\ w.pc = "start"
  /\ en' = [en EXCEPT !.at = en.issue, !.turns = w.turn]
  /\ owed' = Owing(en.issue)
  /\ Go("turn")
  /\ UNCHANGED <<card, pending, ghosts, gate, tick, dbg, hold, svc, bounds>>

\* The agent moves its card at most once in a turn.
AgentMoves(to) ==
  /\ w.pc = "turn" /\ to # card /\ moves < MaxMoves
  /\ card' = to /\ moves' = moves + 1
  /\ Go("turned") /\ excused' = Excuse(tick.pc = "gate", "agent")
  /\ UNCHANGED <<pending, owed, work, debt, en, gate, tick, dbg, hold, svc, faults, crashes>>

TurnOk ==
  /\ w.pc \in {"turn", "turned"}
  /\ w' = [w EXCEPT !.pc = "result", !.prev = w.cur]
  /\ UNCHANGED <<card, pending, owed, ghosts, en, gate, tick, dbg, hold, svc, bounds>>

\* A turn that fails, or a refresh of the card that does.
TurnError ==
  /\ w.pc \in {"turn", "turned", "result"} /\ Fault
  /\ Leave("error")
  /\ UNCHANGED <<card, pending, owed, ghosts, en, gate, tick, dbg, hold, svc, moves, crashes>>

\* _evaluate_turn_result
Result ==
  /\ w.pc = "result"
  /\ en' = [en EXCEPT !.issue = card]
  /\ IF card = Done /\ w.prev \in Active /\ Checked(w.prev)
     THEN /\ EnterGate("worker", w.prev, card)
          /\ w' = [w EXCEPT !.seen = card, !.pc = "donegate"]
     ELSE /\ w' = [w EXCEPT !.seen = card, !.pc = IF card \in Active THEN "count" ELSE "leave"]
          /\ UNCHANGED gate
  /\ UNCHANGED <<card, pending, owed, ghosts, tick, dbg, hold, svc, bounds>>

DoneGated ==
  /\ w.pc = "donegate" /\ Returned("worker")
  /\ LET back == gate["worker"].pc = "rewound"
         over == back /\ dbg.rewinds + 1 > MaxAttempts
         now  == IF over THEN Stopped ELSE gate["worker"].cur
     IN /\ dbg' = IF back THEN [dbg EXCEPT !.rewinds = @ + 1] ELSE dbg
        /\ card' = IF over THEN Stopped ELSE card
        /\ en' = [en EXCEPT !.issue = now]
        /\ w' = [w EXCEPT !.seen = now,
                          !.pc = IF back \/ now \notin Active THEN "leave" ELSE "count"]
  /\ EndGate("worker")
  /\ UNCHANGED <<pending, owed, ghosts, tick, hold, svc, bounds>>

\* _update_state_turn_counter: a lane seen for the first time counts one, a
\* change of lane starts at zero.
StateTurns(lane) ==
  IF dbg.lane = 0 THEN 1 ELSE IF dbg.lane = lane THEN dbg.count + 1 ELSE 0

CountTurn ==
  /\ w.pc = "count"
  /\ LET n == StateTurns(w.seen)
         why == IF n >= MaxStateTurns THEN "nostage"
                ELSE IF w.turn >= MaxTurns THEN "maxturns" ELSE "none"
     IN /\ dbg' = [dbg EXCEPT !.lane = w.seen, !.count = n]
        /\ en' = [en EXCEPT !.why = why]
        /\ w' = IF why = "none" THEN [w EXCEPT !.turn = @ + 1, !.pc = "top"]
                ELSE [w EXCEPT !.pc = "leave"]
  /\ UNCHANGED <<card, pending, owed, ghosts, gate, tick, hold, svc, bounds>>
-----------------------------------------------------------------------------
(* Leaving: cancellation, the exit handler and what follows from it.       *)

Leaving == {"off", "leave", "ask", "exitgate", "mark", "act", "settle"}

\* Task.cancel() unwinds the attempt unless its shielded exit has begun; the
\* worker's own gate evaluation goes with it.
Unwound(reason) ==
  IF w.pc \in Leaving THEN w ELSE [w EXCEPT !.pc = "leave", !.reason = reason]
Ended ==
  IF w.pc \in Leaving THEN gate ELSE [gate EXCEPT !["worker"] = NoGate]

\* _pop_running_entry
PopEntry ==
  /\ w.pc = "leave"
  /\ en' = [en EXCEPT !.in = FALSE]
  /\ Go("ask")
  /\ UNCHANGED <<card, pending, owed, ghosts, gate, tick, dbg, hold, svc, bounds>>

\* A shutdown runs no commands; reconcile gated a ticket it cleans up.
GatesExit ==
  /\ ~en.cleanup /\ GatesFrom(en.at)
  /\ w.reason = "normal" \/ (w.reason # "shutdown" /\ svc = "up")

\* _enforce_factory_exit_contract: the gate is for a move ahead of the lane the
\* last turn started in.
MovedOn(at, to) == to # Stopped /\ to # at /\ ~IsRewind(at, to)

\* An exit that cannot read the card decides on the lane it read last.
AskExitGate ==
  /\ w.pc = "ask" /\ GatesExit
  /\ \E got \in {card, en.issue} :
       /\ Refreshed(en.issue, got)
       /\ en' = [en EXCEPT !.issue = got]
       /\ excused' = Excuse(got # card, "stale")
       /\ IF MovedOn(en.at, got)
          THEN EnterGate("worker", en.at, got) /\ Go("exitgate")
          ELSE Go("mark") /\ UNCHANGED gate
  /\ UNCHANGED <<card, pending, owed, work, debt, tick, dbg, hold, svc, moves, crashes>>

\* Not asked: an entry reconcile cleans up, a stop, a lane without gates ahead.
LeaveUngated ==
  /\ w.pc = "ask" /\ ~GatesExit /\ Go("mark")
  /\ UNCHANGED <<card, pending, owed, ghosts, en, gate, tick, dbg, hold, svc, bounds>>

ExitGated ==
  /\ w.pc = "exitgate" /\ Returned("worker")
  /\ en' = [en EXCEPT !.issue = gate["worker"].cur]
  /\ EndGate("worker") /\ Go("mark")
  /\ UNCHANGED <<card, pending, owed, ghosts, tick, dbg, hold, svc, bounds>>

\* The exit of a worker that ran no turn forgets the lane of the one before it.
Forgotten == pending # 0 /\ en.at = 0

\* Mutant: a stop of the service forgets the lane, as a handled exit does.
MutantMarkExit ==
  /\ w.pc = "mark" /\ Go("act")
  /\ pending' = 0 /\ excused' = Excuse(Forgotten, "forgot")
  /\ UNCHANGED <<card, owed, work, debt, en, gate, tick, dbg, hold, svc, bounds>>

\* A handled exit forgets the lane; a stop of the service records it and
\* returns a Done card it can read to it (return_unverified_success_to_lane).
MarkExit ==
  /\ w.pc = "mark" /\ Go("act")
  /\ IF w.reason # "shutdown" /\ svc = "up"
     THEN pending' = 0 /\ excused' = Excuse(Forgotten, "forgot") /\ UNCHANGED <<card, faults>>
     ELSE /\ pending' = Remembered(en.at) /\ UNCHANGED excused
          /\ IF card = Done /\ GatesFrom(en.at)
             THEN (card' = en.at /\ UNCHANGED faults) \/ (Fault /\ UNCHANGED card)
             ELSE UNCHANGED <<card, faults>>
  /\ UNCHANGED <<owed, work, debt, en, gate, tick, dbg, hold, svc, moves, crashes>>

\* _post_process_done: merge, then remove the workspace.
Ship ==
  /\ work' = "merged"
  /\ debt' = IF card = Done THEN owed ELSE {}
  /\ UNCHANGED <<card, excused, faults>>
ShipFails == Fault /\ card' = Stopped /\ UNCHANGED <<excused, work, debt>>

\* _on_worker_exit: the ticket stays ineligible until reconcile has finished
\* the clean-up it had begun.
Released == [NoWorker EXCEPT !.pc = IF en.cleanup /\ tick.pc = "ship" THEN "settle" ELSE "off"]

Settled ==
  /\ w.pc = "settle" /\ tick.pc # "ship"
  /\ w' = NoWorker
  /\ UNCHANGED <<card, pending, owed, ghosts, en, gate, tick, dbg, hold, svc, bounds>>

Accounted == dbg.turns + en.turns
Account(retry) == dbg' = [dbg EXCEPT !.turns = Accounted, !.retry = retry]

\* _handle_worker_error: a retry is scheduled; the ticket is paused when the
\* error is not one that retrying can help.  A cancelled worker comes here when
\* its card is in a lane, or cannot be read.
ExitError ==
  /\ w.pc = "act"
  /\ \/ w.reason = "error" /\ UNCHANGED faults
     \/ w.reason = "cancelled" /\ (IF card \in Active THEN UNCHANGED faults ELSE Fault)
  /\ w' = Released /\ Account(TRUE)
  /\ hold' \in (IF hold = "no" THEN {"no", "paused"} ELSE {hold})
  /\ UNCHANGED <<card, pending, owed, ghosts, en, gate, tick, svc, moves, crashes>>

\* _handle_shutdown_interrupted, and a cancellation that finds the card in a
\* terminal state: neither delivers.
ExitQuietly ==
  /\ w.pc = "act" /\ (w.reason = "shutdown" \/ (w.reason = "cancelled" /\ card \notin Active))
  /\ w' = Released /\ Account(FALSE)
  /\ UNCHANGED <<card, pending, owed, ghosts, en, gate, tick, hold, svc, bounds>>

NormalExit == w.pc = "act" /\ w.reason = "normal" /\ w' = Released
Stops == NormalExit /\ Account(FALSE)

\* _handle_no_stage_change
ExitNoStage ==
  /\ Stops /\ en.why = "nostage"
  /\ card' = Stopped /\ hold' = "paused"
  /\ UNCHANGED <<pending, owed, ghosts, en, gate, tick, svc, bounds>>

Spent == Accounted >= MaxTotalTurns

\* _stop_on_total_turn_budget
ExitSpent ==
  /\ Stops /\ en.why # "nostage" /\ Spent
  /\ card' = Stopped /\ hold' = "exhausted"
  /\ UNCHANGED <<pending, owed, ghosts, en, gate, tick, svc, bounds>>

Finalize == NormalExit /\ en.why # "nostage" /\ ~Spent

ExitDone ==
  /\ Finalize /\ Account(FALSE) /\ ~en.cleanup /\ en.issue = Done
  /\ Ship \/ ShipFails
  /\ UNCHANGED <<pending, owed, en, gate, tick, hold, svc, moves, crashes>>

\* _stop_on_max_turns
ExitMaxTurns ==
  /\ Finalize /\ Account(FALSE) /\ ~en.cleanup /\ en.issue # Done /\ en.why = "maxturns"
  /\ card' = Stopped /\ hold' = "exhausted"
  /\ UNCHANGED <<pending, owed, ghosts, en, gate, tick, svc, bounds>>

\* A continuation, or nothing when reconcile has taken the workspace.
ExitContinue ==
  /\ Finalize /\ Account(~en.cleanup /\ en.issue \in Active)
  /\ en.cleanup \/ (en.issue # Done /\ en.why = "none")
  /\ UNCHANGED <<card, pending, owed, ghosts, en, gate, tick, hold, svc, bounds>>
-----------------------------------------------------------------------------
(* Reconciliation of the running ticket on the poll tick.                  *)

TickReads == svc = "up" /\ tick.pc = "idle" /\ en.in /\ hold # "paused"

TickActive ==
  /\ TickReads /\ card \in Active /\ ~Verifying
  /\ en' = [en EXCEPT !.issue = card]
  /\ UNCHANGED <<card, pending, owed, ghosts, w, gate, tick, dbg, hold, svc, bounds>>

\* A terminal card whose worker has been silent for the grace period.
TickTerminal ==
  /\ TickReads /\ card \notin Active /\ ~(Verifying /\ card = Done)
  /\ IF GatesFrom(en.at) /\ MovedOn(en.at, card)
     THEN /\ EnterGate("tick", en.at, card)
          /\ tick' = [pc |-> "gate", live |-> TRUE, state |-> card]
          /\ en' = [en EXCEPT !.issue = card]
          /\ UNCHANGED w
     ELSE /\ tick' = [pc |-> "ship", live |-> TRUE, state |-> card]
          /\ en' = [en EXCEPT !.issue = card, !.cleanup = TRUE]
          /\ w' = Unwound("cancelled") /\ gate' = Ended
  /\ UNCHANGED <<card, pending, owed, ghosts, dbg, hold, svc, bounds>>

TickRewound ==
  /\ tick.pc = "gate" /\ gate["tick"].pc = "rewound"
  /\ tick' = NoTick /\ EndGate("tick")
  /\ en' = IF tick.live THEN [en EXCEPT !.issue = gate["tick"].cur] ELSE en
  /\ UNCHANGED <<card, pending, owed, ghosts, w, dbg, hold, svc, bounds>>

\* Cancel the worker and mark the clean-up; the entry may have been popped, and
\* a new one registered, since it was read.
TickKills ==
  /\ tick.pc = "gate" /\ gate["tick"].pc = "passed"
  /\ tick' = [tick EXCEPT !.pc = "ship", !.state = gate["tick"].cur]
  /\ IF tick.live
     THEN /\ w' = Unwound("cancelled")
          /\ gate' = [Ended EXCEPT !["tick"] = NoGate]
          /\ en' = [en EXCEPT !.issue = gate["tick"].cur, !.cleanup = TRUE]
     ELSE EndGate("tick") /\ UNCHANGED <<w, en>>
  /\ UNCHANGED <<card, pending, owed, ghosts, dbg, hold, svc, bounds>>

\* A snapshot of a workspace that is gone is not durable: the card is blocked.
TickShips ==
  /\ tick.pc = "ship"
  /\ IF work # "here"
     THEN card' = Stopped /\ UNCHANGED <<ghosts, faults>>
     ELSE IF tick.state = Done THEN Ship \/ ShipFails
     ELSE work' = "removed" /\ UNCHANGED <<card, excused, debt, faults>>
  /\ tick' = NoTick
  /\ UNCHANGED <<pending, owed, w, en, gate, dbg, hold, svc, moves, crashes>>

\* _reconcile_stall_state: a silent worker is cancelled, unless its ticket is
\* being verified.
StallCancel ==
  /\ TickReads /\ ~Verifying /\ w.pc \notin Leaving /\ Fault
  /\ w' = Unwound("cancelled") /\ gate' = Ended
  /\ UNCHANGED <<card, pending, owed, ghosts, en, tick, dbg, hold, svc, moves, crashes>>

\* What is owed is not on record: the lane recorded is none, or a later one.
Unrecorded == w.pc # "off" /\ \E l \in owed : pending = 0 \/ l < pending

\* _force_eject_zombie: the entry of a worker that does not unwind is dropped.
ForceEject ==
  /\ svc = "up" /\ tick.pc = "idle" /\ en.in /\ ~Verifying /\ Fault
  /\ w.pc = "leave" /\ w.reason = "cancelled"
  /\ w' = NoWorker /\ en' = NoEntry /\ excused' = Excuse(Unrecorded, "crash")
  /\ dbg' = [dbg EXCEPT !.retry = TRUE]
  /\ UNCHANGED <<card, pending, owed, work, debt, gate, tick, hold, svc, moves, crashes>>
-----------------------------------------------------------------------------
(* The service and the operator.                                           *)

\* Orchestrator.stop
Stop ==
  /\ svc = "up" /\ Fault
  /\ svc' = "stopping" /\ tick' = NoTick
  /\ w' = Unwound("shutdown") /\ gate' = [Ended EXCEPT !["tick"] = NoGate]
  /\ UNCHANGED <<card, pending, owed, ghosts, en, dbg, hold, moves, crashes>>

Drained ==
  /\ svc = "stopping" /\ w.pc = "off"
  /\ svc' = "down" /\ dbg' = NoDebug
  /\ UNCHANGED <<card, pending, owed, ghosts, w, en, gate, tick, hold, bounds>>

Crash ==
  /\ svc # "down" /\ crashes < MaxCrashes /\ crashes' = crashes + 1
  /\ svc' = "down" /\ dbg' = NoDebug
  /\ w' = NoWorker /\ en' = NoEntry /\ tick' = NoTick
  /\ gate' = [a \in DOMAIN gate |-> NoGate]
  /\ excused' = Excuse(Unrecorded, "crash")
  /\ UNCHANGED <<card, pending, owed, work, debt, hold, moves, faults>>

\* _startup_terminal_cleanup: a Done card with a recorded lane is returned to
\* it (_return_unverified_done); any other is delivered.
Startup ==
  /\ svc = "down" /\ svc' = "up"
  /\ IF card = Done /\ hold # "paused" /\ Crossed(pending, Done) # {}
     THEN card' = pending /\ UNCHANGED <<ghosts, faults>>
     ELSE IF card = Done /\ hold # "paused" /\ work = "here"
     THEN Ship \/ ShipFails
     ELSE UNCHANGED <<card, ghosts, faults>>
  /\ UNCHANGED <<pending, owed, w, en, gate, tick, dbg, hold, moves, crashes>>

\* An operator's move answers for the lanes it skips.
OperatorMoves(to) ==
  /\ to # card /\ moves < MaxMoves /\ moves' = moves + 1
  /\ card' = to /\ owed' = Waived(to)
  /\ excused' = Excuse(w.pc # "off" \/ tick.pc # "idle", "operator")
  /\ UNCHANGED <<pending, work, debt, w, en, gate, tick, dbg, hold, svc, faults, crashes>>

OperatorHolds ==
  /\ svc = "up" /\ moves < MaxMoves /\ moves' = moves + 1
  /\ hold' = IF hold = "no" THEN "paused" ELSE "no"
  /\ UNCHANGED <<card, pending, owed, ghosts, w, en, gate, tick, dbg, svc, faults, crashes>>

WorkerStep ==
  \/ Dispatch \/ RecoverGate \/ Recovered \/ OpenSession \/ PauseGate \/ Resumed
  \/ LoopTop \/ Transition \/ PhaseGated \/ CountRewind \/ Rebuild \/ SetupFails
  \/ StartTurn \/ TurnOk \/ TurnError \/ Result \/ DoneGated \/ CountTurn
  \/ \E to \in Cards : AgentMoves(to)

ExitStep ==
  \/ PopEntry \/ AskExitGate \/ LeaveUngated \/ ExitGated \/ MarkExit \/ ExitError \/ ExitQuietly
  \/ ExitNoStage \/ ExitSpent \/ ExitDone \/ ExitMaxTurns \/ ExitContinue \/ Settled

TickStep ==
  \/ TickActive \/ TickTerminal \/ TickRewound \/ TickKills \/ TickShips
  \/ StallCancel \/ ForceEject

ServiceStep ==
  \/ Stop \/ Drained \/ Crash \/ Startup \/ OperatorHolds
  \/ \E to \in Cards : OperatorMoves(to)

Next ==
  \/ \E a \in DOMAIN gate : GateStep(a)
  \/ WorkerStep \/ ExitStep \/ TickStep \/ ServiceStep

Spec == Init /\ [][Next]_vars
-----------------------------------------------------------------------------
(* Properties.                                                             *)

\* The command of every gated lane a worker took its card through has passed
\* before the card is merged, however workers, ticks, stops and crashes
\* interleave, but for the windows excused lists
\* (workflow/verify.py, worker_exit.py: "must still face the verify gate").
GatesRun == debt # {} => excused # {}

\* A crash or an ejection of the worker alone is no excuse:
\* _remember_turn_lane records the lane "so a shutdown cannot skip it".
CrashSkipsNoGate == debt # {} => excused \ {"crash"} # {}

\* The turns of the attempts of one service process stay within
\* agent.max_total_turns.
TurnsWithinBudget == dbg.turns + (IF w.pc \in {"off", "settle"} THEN 0 ELSE en.turns) <= MaxTotalTurns
=============================================================================
