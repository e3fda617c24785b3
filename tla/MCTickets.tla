------------------------------ MODULE MCTickets ------------------------------
(*****************************************************************************)
(* What happens to a ticket: its file, written by several processes and      *)
(* hands (FileBoard); an attempt on it, through its lanes and gates          *)
(* (Attempt); the fix tickets of a blocked one (BlockedRecovery); its pause, *)
(* budget and retry flags (IssueFlags); the tickets that improvement         *)
(* heartbeats file (Improvement). Every behaviour is about one of them: the  *)
(* small instances, side by side.                                            *)
(*****************************************************************************)
EXTENDS IssueFlags, Attempt, Improvement, BlockedRecovery, FileBoard, TLC

VARIABLE part    \* the component a behaviour is about

CONSTANTS w1, w2

\* The first writer may do anything, the second one of three things.
BoardOperations == w1 :> AllKinds @@ w2 :> {"note", "create", "delete"}
BoardTargets == w1 :> {1} @@ w2 :> {1}
BoardPatches == {{"blocked_by"}, {"description"}, {"close", "unpin", "description"}, {"open", "pin"}}

\* One turn each and one incident: the heartbeats of both orchestrators meet.
OneTurnEach ==
  /\ incidents <= 1
  /\ \A o \in Orchs : turns[o] <= 1 /\ (turns[o] = 1 => pc[o] = "idle")

\* One orchestrator runs, the others stay idle.
OneOrchestrator ==
  LET o == CHOOSE q \in Orchs : TRUE
  IN  \A q \in Orchs \ {o} : pc[q] = "idle" /\ turns[q] = 0

-----------------------------------------------------------------------------
\* The variables of FileBoard while a behaviour is about another component.
IdleBoard ==
  /\ file = [t \in TicketIds |-> NoFile] /\ flock = "none" /\ alloc = "none"
  /\ job = [q \in Writers |-> IdleJob] /\ hand = "none"

\* The variables of BlockedRecovery while a behaviour is about another component.
IdleRecovery ==
  InitFixes /\ hist = {}

\* The variables of Improvement while a behaviour is about another component.
IdleBeats ==
  InitImprovement

\* The variables of Attempt while a behaviour is about another component.
IdleAttempt ==
  /\ card = 0 /\ pending = 0 /\ owed = {} /\ excused = {} /\ work = "none" /\ debt = {}
  /\ w = NoWorker /\ en = NoEntry /\ gate = "none" /\ tick = NoTick /\ dbg = NoDebug
  /\ hold = "none" /\ svc = "none" /\ moves = 0 /\ faults = 0 /\ crashes = 0

\* The variables of IssueFlags while a behaviour is about another component.
IdleFlags ==
  /\ up = FALSE /\ reg = FALSE /\ mem = Empty /\ row = Empty /\ claimed = FALSE
  /\ worker = Unassigned /\ retry = NoRetry /\ polling = NoRetry /\ step = Idle
  /\ ticket = "none" /\ tried = {} /\ held = {} /\ fails = 0 /\ lost = FALSE
  /\ failures = 0 /\ ends = 0 /\ acts = 0 /\ runs = 0

\* One ticket, two backends, a process that ends twice.
FlagsInit == part = "Flags" /\ InitFlags /\ IdleAttempt /\ IdleBeats /\ IdleRecovery /\ IdleBoard
FlagsNext == part = "Flags" /\ NextFlags /\ UNCHANGED <<vars, improvementVars, fixVars, boardVars, part>>

\* Two gated lanes, the first with a stage contract; explored until a gate is excused, after which GatesRun holds for good.
AttemptInit == part = "Attempt" /\ Init /\ IdleFlags /\ IdleBeats /\ IdleRecovery /\ IdleBoard
AttemptNext == part = "Attempt" /\ excused = {} /\ Next /\ UNCHANGED <<flagVars, improvementVars, fixVars, boardVars, part>>

\* Two orchestrators on one workflow directory.
BeatsInit == part = "Beats" /\ InitImprovement /\ IdleFlags /\ IdleAttempt /\ IdleRecovery /\ IdleBoard
BeatsNext == part = "Beats" /\ NextImprovement /\ OneTurnEach' /\ UNCHANGED <<flagVars, vars, fixVars, boardVars, part>>

\* One source and two fix tickets.
RecoveryInit == part = "Recovery" /\ InitFixes /\ IdleFlags /\ IdleAttempt /\ IdleBeats /\ IdleBoard
RecoveryNext == part = "Recovery" /\ NextFixes /\ UNCHANGED <<flagVars, vars, improvementVars, boardVars, part>>

\* Any operation against a note, a new ticket or a delete on one of the tickets.
BoardInit == part = "Board" /\ InitBoard /\ IdleFlags /\ IdleAttempt /\ IdleBeats /\ IdleRecovery
BoardNext == part = "Board" /\ NextBoard /\ UNCHANGED <<flagVars, vars, improvementVars, fixVars, part>>

\* One orchestrator and more time.
AloneInit == part = "Alone" /\ InitImprovement /\ IdleFlags /\ IdleAttempt /\ IdleRecovery /\ IdleBoard
AloneNext == part = "Alone" /\ NextImprovement /\ OneOrchestrator' /\ UNCHANGED <<flagVars, vars, fixVars, boardVars, part>>

-----------------------------------------------------------------------------
AllInit == FlagsInit \/ AttemptInit \/ BeatsInit \/ RecoveryInit \/ BoardInit \/ AloneInit
AllNext == FlagsNext \/ AttemptNext \/ BeatsNext \/ RecoveryNext \/ BoardNext \/ AloneNext
AllSpec == AllInit /\ [][AllNext]_<<flagVars, vars, improvementVars, fixVars, boardVars, part>>

-----------------------------------------------------------------------------
===============================================================================
