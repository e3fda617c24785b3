---------------------------- MODULE TicketProofs ----------------------------
(***************************************************************************)
(* Proofs about a ticket.  Its flags (IssueFlags): a hold on record        *)
(* outlives restarts and every other write, and the retry cap holds while  *)
(* no attempt is lost.  An attempt on it (Attempt): no merge before the    *)
(* gates.                                                                  *)
(*                                                                         *)
(* Its fix tickets when it is blocked (BlockedRecovery): one is open at a  *)
(* time.  Only a caller that holds the lock scans and creates, and between *)
(* its scan and its creation no other ticket is made.                      *)
(*                                                                         *)
(* Its file (FileBoard): a save undoes no tracker write and no stamped     *)
(* edit that was read.  Tracker writes are kept apart by the file's lock;  *)
(* a direct edit takes no lock, but between the parse and the rename it    *)
(* only adds, and one that matters to the comparison moves the stamp.      *)
(***************************************************************************)
EXTENDS IssueFlags, Attempt, BlockedRecovery, FileBoard, WellFoundedInduction, TLAPS

(* The records of a ticket's flags.                                        *)
Reasons == {NoPause, "operator", "hard", "gate", "stage", "transient"}
FlagRow == [reason : Reasons, budget : BOOLEAN, attempt : Nat]
FlagWorker == [st : {"none", "new", "run"}, attempt : Nat]
Pending == [kind : {"none", "retry", "continuation"}, attempt : Nat]
Step == [do : {"idle", "schedule", "continue", "gate", "stage", "spent"}, attempt : Nat]
Ticket == [active : BOOLEAN, kind : Kinds \union {1}, handed : BOOLEAN]

FlagsTyped ==
  /\ up \in BOOLEAN /\ reg \in BOOLEAN /\ claimed \in BOOLEAN
  /\ mem \in FlagRow /\ row \in FlagRow
  /\ worker \in FlagWorker /\ retry \in Pending /\ polling \in Pending /\ step \in Step
  /\ ticket \in Ticket
  /\ held \subseteq {"pause", "budget"} /\ fails \in Nat /\ lost \in BOOLEAN

(* A hold on record is in the table and, once the flags were read back, in *)
(* the memory dispatch looks at.                                           *)
HeldOnRecord == held \subseteq HoldsOf(row) /\ (reg => held \subseteq HoldsOf(mem))

(* The writes the orchestrator makes: a pause, a resume, an attempt, an    *)
(* exhausted budget, a ticket that left the active view.                   *)
Proper(given, lifts) ==
  \/ lifts = {} /\ \E x \in Reasons \ {NoPause} : given = [reason |-> x]
  \/ lifts = {"pause"} /\ given = [reason |-> NoPause]
  \/ lifts = {} /\ \E a \in Nat : given = [attempt |-> a]
  \/ lifts = {} /\ given = [budget |-> TRUE, attempt |-> 0]
  \/ lifts = {"pause"} /\ given = [attempt |-> 0, reason |-> NoPause]

LEMMA EmptyIsRow == Empty \in FlagRow /\ Legacy \in FlagRow
  BY DEF Empty, Legacy, FlagRow, Reasons, NoPause

LEMMA HoldsIff ==
  ASSUME NEW r
  PROVE  /\ HoldsOf(r) \subseteq {"pause", "budget"}
         /\ "pause" \in HoldsOf(r) <=> r.reason # NoPause
         /\ "budget" \in HoldsOf(r) <=> r.budget
  BY DEF HoldsOf

(* What a write makes of a row, flag by flag.                              *)
LEMMA WriteFields ==
  ASSUME NEW r \in FlagRow, NEW given, NEW lifts, Proper(given, lifts)
  PROVE  LET new == SetIssueFlags(r, given) IN
         /\ new \in FlagRow
         /\ \/ new.reason = r.reason /\ lifts = {}
            \/ new.reason # NoPause /\ lifts = {}
            \/ lifts = {"pause"}
         /\ new.budget = r.budget \/ new.budget
  <1> DEFINE new == SetIssueFlags(r, given)
  <1>1. ASSUME NEW x \in Reasons, given = [reason |-> x]
        PROVE  new = [reason |-> x, budget |-> r.budget, attempt |-> r.attempt]
    BY <1>1 DEF SetIssueFlags, FlagRow
  <1>2. ASSUME NEW a \in Nat, given = [attempt |-> a]
        PROVE  new = [reason |-> r.reason, budget |-> r.budget, attempt |-> a]
    BY <1>2 DEF SetIssueFlags, FlagRow
  <1>3. ASSUME given = [budget |-> TRUE, attempt |-> 0]
        PROVE  new = [reason |-> r.reason, budget |-> TRUE, attempt |-> 0]
    <2>1. DOMAIN given = {"budget", "attempt"} /\ given["budget"] = TRUE /\ given["attempt"] = 0
      BY <1>3
    <2>2. DOMAIN r = {"reason", "budget", "attempt"} /\ r["reason"] = r.reason
      BY DEF FlagRow
    <2>3. new = [f \in {"reason", "budget", "attempt"} |->
                   IF f = "budget" THEN TRUE ELSE IF f = "attempt" THEN 0 ELSE r.reason]
      BY <2>1, <2>2 DEF SetIssueFlags
    <2> QED BY <2>3
  <1>4. ASSUME given = [attempt |-> 0, reason |-> NoPause]
        PROVE  new = [reason |-> NoPause, budget |-> r.budget, attempt |-> 0]
    BY <1>4 DEF SetIssueFlags, FlagRow
  <1>5. NoPause \in Reasons
    BY DEF Reasons
  <1> HIDE DEF new
  <1>6. new \in FlagRow
    <2>1. r.reason \in Reasons /\ r.budget \in BOOLEAN /\ r.attempt \in Nat
      BY DEF FlagRow
    <2>2. \E x \in Reasons, u \in BOOLEAN, a \in Nat :
            new = [reason |-> x, budget |-> u, attempt |-> a]
      <3>1. CASE \E x \in Reasons : given = [reason |-> x]
        BY <1>1, <2>1, <3>1
      <3>2. CASE \E a \in Nat : given = [attempt |-> a]
        BY <1>2, <2>1, <3>2
      <3>3. CASE given = [budget |-> TRUE, attempt |-> 0]
        BY <1>3, <2>1, <3>3
      <3>4. CASE given = [attempt |-> 0, reason |-> NoPause]
        BY <1>4, <1>5, <2>1, <3>4
      <3> QED BY <1>5, <3>1, <3>2, <3>3, <3>4 DEF Proper
    <2> QED BY <2>2 DEF FlagRow
  <1>7. new.budget = r.budget \/ new.budget
    BY <1>1, <1>2, <1>3, <1>4, <1>5 DEF Proper
  <1>8. \/ new.reason = r.reason /\ lifts = {}
        \/ new.reason # NoPause /\ lifts = {}
        \/ lifts = {"pause"}
    BY <1>1, <1>2, <1>3 DEF Proper
  <1> QED BY <1>6, <1>7, <1>8 DEF new

(* A write keeps the row well formed and every hold it does not lift, and  *)
(* the row has the holds the write sets.                                   *)
LEMMA ProperWrite ==
  ASSUME NEW r \in FlagRow, NEW given, NEW lifts, Proper(given, lifts)
  PROVE  /\ SetIssueFlags(r, given) \in FlagRow
         /\ HoldsOf(r) \ lifts \subseteq HoldsOf(SetIssueFlags(r, given))
         /\ HoldsOf(SetIssueFlags(Empty, given)) \ lifts \subseteq HoldsOf(SetIssueFlags(r, given))
  <1>1. /\ SetIssueFlags(r, given) \in FlagRow
        /\ HoldsOf(r) \ lifts \subseteq HoldsOf(SetIssueFlags(r, given))
    BY WriteFields, HoldsIff
  <1>2. ASSUME "pause" \in HoldsOf(SetIssueFlags(Empty, given)), "pause" \notin lifts
        PROVE  "pause" \in HoldsOf(SetIssueFlags(r, given))
    <2>1. SetIssueFlags(Empty, given).reason # NoPause
      BY <1>2, HoldsIff
    <2>2. "reason" \in DOMAIN given
      <3>1. SetIssueFlags(Empty, given).reason =
              IF "reason" \in DOMAIN given THEN given["reason"] ELSE NoPause
        BY DEF SetIssueFlags, Empty
      <3> QED BY <2>1, <3>1
    <2>3. SetIssueFlags(Empty, given).reason = SetIssueFlags(r, given).reason
      BY <2>2 DEF SetIssueFlags, Empty, FlagRow
    <2> QED BY <2>1, <2>3, HoldsIff
  <1>3. ASSUME "budget" \in HoldsOf(SetIssueFlags(Empty, given))
        PROVE  "budget" \in HoldsOf(SetIssueFlags(r, given))
    <2>1. SetIssueFlags(Empty, given).budget
      BY <1>3, HoldsIff
    <2>2. "budget" \in DOMAIN given
      <3>1. SetIssueFlags(Empty, given).budget =
              IF "budget" \in DOMAIN given THEN given["budget"] ELSE FALSE
        BY DEF SetIssueFlags, Empty
      <3> QED BY <2>1, <3>1
    <2>3. SetIssueFlags(Empty, given).budget = SetIssueFlags(r, given).budget
      BY <2>2 DEF SetIssueFlags, Empty, FlagRow
    <2> QED BY <2>1, <2>3, HoldsIff
  <1> QED BY <1>1, <1>2, <1>3, HoldsIff

(* A write through the guard, whether or not the registry takes it.        *)
LEMMA FlagKeeps ==
  ASSUME mem \in FlagRow, row \in FlagRow, held \subseteq {"pause", "budget"}, lost \in BOOLEAN,
         HeldOnRecord, NEW given, NEW lifts, Proper(given, lifts), Flag(given, lifts), UNCHANGED reg
  PROVE  /\ mem' \in FlagRow /\ row' \in FlagRow /\ held' \subseteq {"pause", "budget"}
         /\ lost' \in BOOLEAN /\ HeldOnRecord'
         /\ mem' = SetIssueFlags(mem, given)
         /\ ~lost' => ~lost /\ row' = SetIssueFlags(row, given)
  <1>1. /\ mem' = SetIssueFlags(mem, given)
        /\ \/ /\ row' = SetIssueFlags(row, given) /\ UNCHANGED lost
              /\ held' = (held \union HoldsOf(SetIssueFlags(Empty, given))) \ lifts
           \/ UNCHANGED row /\ held' = held \ lifts /\ lost' = TRUE
    BY DEF Flag, WriteFlags
  <1>2. /\ SetIssueFlags(mem, given) \in FlagRow /\ SetIssueFlags(row, given) \in FlagRow
        /\ HoldsOf(mem) \ lifts \subseteq HoldsOf(SetIssueFlags(mem, given))
        /\ HoldsOf(row) \ lifts \subseteq HoldsOf(SetIssueFlags(row, given))
        /\ HoldsOf(SetIssueFlags(Empty, given)) \ lifts \subseteq HoldsOf(SetIssueFlags(mem, given))
        /\ HoldsOf(SetIssueFlags(Empty, given)) \ lifts \subseteq HoldsOf(SetIssueFlags(row, given))
    BY ProperWrite
  <1>3. \A r : HoldsOf(r) \subseteq {"pause", "budget"}
    BY DEF HoldsOf
  <1> QED BY <1>1, <1>2, <1>3 DEF HeldOnRecord

-----------------------------------------------------------------------------
(* Soundness: the types, and the holds on record *)

FlagsSound == FlagsTyped /\ HeldOnRecord

(* What a step leaves alone besides the flags and the retries. *)
LEMMA FlagStep ==
  ASSUME FlagsSound, NEW given, NEW lifts, Proper(given, lifts), Flag(given, lifts), UNCHANGED reg,
         up' \in BOOLEAN, claimed' \in BOOLEAN, worker' \in FlagWorker, retry' \in Pending,
         polling' \in Pending, step' \in Step, fails' \in Nat, ticket' \in Ticket
  PROVE  FlagsSound'
  <1>1. /\ mem' \in FlagRow /\ row' \in FlagRow /\ held' \subseteq {"pause", "budget"}
        /\ lost' \in BOOLEAN /\ HeldOnRecord'
    BY FlagKeeps DEF FlagsSound, FlagsTyped
  <1> QED BY <1>1 DEF FlagsSound, FlagsTyped

LEMMA QuietStep ==
  ASSUME FlagsSound, UNCHANGED <<mem, row, held, reg>>,
         up' \in BOOLEAN, claimed' \in BOOLEAN, worker' \in FlagWorker, retry' \in Pending,
         polling' \in Pending, step' \in Step, fails' \in Nat, ticket' \in Ticket, lost' \in BOOLEAN
  PROVE  FlagsSound'
  BY DEF FlagsSound, FlagsTyped, HeldOnRecord

LEMMA RecordTypes ==
  /\ Unassigned \in FlagWorker /\ NoRetry \in Pending /\ Idle \in Step /\ Empty \in FlagRow
  /\ \A v \in FlagWorker : v.attempt \in Nat /\ [v EXCEPT !.st = "run"] \in FlagWorker
                        /\ (v.st # "none" => v # Unassigned)
                        /\ [v EXCEPT !.st = "run"].attempt = v.attempt
  /\ \A p \in Pending : p.attempt \in Nat
  /\ \A q \in Step : q.attempt \in Nat
  /\ \A m \in FlagRow : m.attempt \in Nat
  /\ \A a \in Nat : /\ [st |-> "new", attempt |-> a] \in FlagWorker
                     /\ [do |-> "schedule", attempt |-> a + 1] \in Step
                     /\ [kind |-> "retry", attempt |-> a] \in Pending
                     /\ [kind |-> "continuation", attempt |-> a] \in Pending
  /\ \A d \in {"continue", "gate", "stage", "spent"} : [do |-> d, attempt |-> 0] \in Step
  <1>1. Unassigned \in FlagWorker /\ NoRetry \in Pending /\ Idle \in Step /\ Empty \in FlagRow
    BY EmptyIsRow DEF Unassigned, FlagWorker, NoRetry, Pending, Idle, Step
  <1>2. ASSUME NEW v \in FlagWorker
        PROVE  /\ v.attempt \in Nat /\ [v EXCEPT !.st = "run"] \in FlagWorker
               /\ (v.st # "none" => v # Unassigned) /\ [v EXCEPT !.st = "run"].attempt = v.attempt
    BY DEF FlagWorker, Unassigned
  <1>3. /\ \A p \in Pending : p.attempt \in Nat
        /\ \A q \in Step : q.attempt \in Nat
        /\ \A m \in FlagRow : m.attempt \in Nat
    BY DEF Pending, Step, FlagRow
  <1>4. \A a \in Nat : /\ [st |-> "new", attempt |-> a] \in FlagWorker
                       /\ [do |-> "schedule", attempt |-> a + 1] \in Step
                       /\ [kind |-> "retry", attempt |-> a] \in Pending
                       /\ [kind |-> "continuation", attempt |-> a] \in Pending
    BY DEF FlagWorker, Step, Pending
  <1>5. \A d \in {"continue", "gate", "stage", "spent"} : [do |-> d, attempt |-> 0] \in Step
    BY DEF Step
  <1> QED BY <1>1, <1>2, <1>3, <1>4, <1>5

LEMMA InitFlagsSound == InitFlags => FlagsSound
  <1> SUFFICES ASSUME InitFlags PROVE FlagsSound
    OBVIOUS
  <1>1. row \in FlagRow /\ row.attempt \in Nat
    BY EmptyIsRow DEF InitFlags, FlagRow
  <1> QED BY <1>1, RecordTypes DEF InitFlags, FlagsSound, FlagsTyped, Ticket, HeldOnRecord

(* A registry that is opened brings back every hold on record, but for the *)
(* pauses rehydration lifts.                                               *)
LEMMA RehydrateKeeps ==
  ASSUME FlagsSound, OpenRunRegistry
  PROVE  FlagsSound'
  <1>0. FlagsTyped /\ held \subseteq HoldsOf(row)
    BY DEF FlagsSound, HeldOnRecord
  <1>1. PICK proven \in {ticket.handed, FALSE} :
             /\ mem' = Rehydrated(row, proven)
             /\ row' \in {row, Cleared(row, proven)}
             /\ held' = IF row.attempt > 0 /\ (proven \/ Retryable(row))
                        THEN held \ {"pause"} ELSE held
    BY DEF OpenRunRegistry
  <1>2. /\ mem.reason \in Reasons /\ mem.budget \in BOOLEAN
        /\ row.reason \in Reasons /\ row.budget \in BOOLEAN /\ row.attempt \in Nat
    BY <1>0 DEF FlagsTyped, FlagRow
  <1>3. mem' \in FlagRow
    <2>1. Rehydrated(row, proven).reason \in Reasons
      BY <1>2 DEF Rehydrated, Reasons
    <2> QED BY <1>1, <1>2, <2>1 DEF Rehydrated, FlagRow
  <1>4. /\ Cleared(row, proven) \in FlagRow
        /\ Cleared(row, proven).budget = row.budget
        /\ \/ Cleared(row, proven).reason = row.reason
           \/ row.attempt > 0 /\ (proven \/ Retryable(row))
    <2>1. CASE row.attempt > 0 /\ proven
      BY <1>0, <1>2, <2>1 DEF Cleared, FlagsTyped, FlagRow, Reasons
    <2>2. CASE ~(row.attempt > 0 /\ proven) /\ Retryable(row)
      BY <1>0, <1>2, <2>2 DEF Cleared, Retryable, FlagsTyped, FlagRow, Reasons
    <2>3. CASE ~(row.attempt > 0 /\ proven) /\ ~Retryable(row)
      BY <1>0, <2>3 DEF Cleared, FlagsTyped
    <2> QED BY <2>1, <2>2, <2>3
  <1>5. held' \subseteq held /\ held' \subseteq HoldsOf(row')
    BY <1>0, <1>1, <1>4, HoldsIff
  <1>6. held' \subseteq HoldsOf(mem')
    <2>1. "budget" \in held' => mem'.budget
      BY <1>0, <1>1, HoldsIff DEF Rehydrated
    <2>2. ASSUME "pause" \in held' PROVE mem'.reason # NoPause
      <3>1. row.reason # NoPause
        BY <1>0, <1>5, <2>2, HoldsIff
      <3>2. ~(row.attempt > 0 /\ (proven \/ Retryable(row)))
        BY <1>1, <2>2
      <3>3. ~Retryable(row) /\ ~(row.attempt > 0 /\ proven)
        BY <3>2 DEF Retryable
      <3> QED BY <1>1, <3>1, <3>3 DEF Rehydrated
    <2>3. held' \subseteq {"pause", "budget"}
      BY <1>0, <1>5 DEF FlagsTyped
    <2> QED BY <2>1, <2>2, <2>3, HoldsIff
  <1>7. /\ up' = up /\ reg' = TRUE /\ claimed' = claimed /\ worker' = worker /\ retry' = retry
        /\ polling' = polling /\ step' = step /\ fails' = fails /\ lost' = lost /\ ticket' = ticket
    BY DEF OpenRunRegistry
  <1> QED BY <1>0, <1>1, <1>3, <1>4, <1>5, <1>6, <1>7 DEF FlagsSound, FlagsTyped, HeldOnRecord

-----------------------------------------------------------------------------
(* Every step keeps the holds *)

LEMMA ProcessFlags ==
  ASSUME FlagsSound, Launch \/ OpenRunRegistry \/ ListFails \/ Down
  PROVE  FlagsSound'
  <1> USE RecordTypes DEF FlagsSound
  <1>1. CASE Launch
    BY <1>1 DEF Launch, FlagsTyped, HeldOnRecord
  <1>2. CASE OpenRunRegistry
    BY <1>2, RehydrateKeeps
  <1>3. CASE ListFails
    <2>1. mem' \in FlagRow
      BY <1>3 DEF ListFails, FlagsTyped, FlagRow
    <2> QED BY <1>3, <2>1 DEF ListFails, FlagsTyped, HeldOnRecord
  <1>4. CASE Down
    BY <1>4 DEF Down, HandleShutdownInterrupted, FlagsTyped, HeldOnRecord
  <1> QED BY <1>1, <1>2, <1>3, <1>4

LEMMA WorkerFlags ==
  ASSUME FlagsSound, Tick \/ Enter \/ PauseWorker \/ ResumeWorker \/ MoveCard
  PROVE  FlagsSound'
  <1> USE RecordTypes
  <1>0. FlagsTyped
    BY DEF FlagsSound
  <1>1. CASE Tick
    BY <1>0, <1>1, QuietStep DEF Tick, StartWorker, FlagsTyped
  <1>2. CASE Enter
    BY <1>0, <1>2, QuietStep DEF Enter, FlagsTyped
  <1>3. CASE PauseWorker
    <2>1. Proper([reason |-> "operator"], {})
      BY DEF Proper, Reasons, NoPause
    <2> QED BY <1>0, <1>3, <2>1, FlagStep DEF PauseWorker, FlagsTyped
  <1>4. CASE ResumeWorker
    <2>1. Proper([reason |-> NoPause], {"pause"})
      BY DEF Proper
    <2> QED BY <1>0, <1>4, <2>1, FlagStep DEF ResumeWorker, FlagsTyped
  <1>5. CASE MoveCard
    <2>1. ticket' \in Ticket
      BY <1>0, <1>5 DEF MoveCard, FlagsTyped, Ticket
    <2> QED BY <1>0, <1>5, <2>1, QuietStep DEF MoveCard, FlagsTyped
  <1> QED BY <1>1, <1>2, <1>3, <1>4, <1>5

LEMMA ExitFlags ==
  ASSUME FlagsSound,
         \/ SwitchBackend \/ QuotaPauses \/ Fails \/ ScheduleRetry
         \/ ExitNormal \/ ScheduleContinuation \/ PauseForOperator \/ MarkBudgetExhausted
         \/ HandOff \/ ExitReleased
  PROVE  FlagsSound'
  <1> USE RecordTypes
  <1>0. FlagsTyped
    BY DEF FlagsSound
  <1>a. \A a \in Nat : Proper([attempt |-> a], {})
    BY DEF Proper
  <1>h. Proper([reason |-> "hard"], {})
    BY DEF Proper, Reasons, NoPause
  <1>1. CASE SwitchBackend
    <2>1. ticket' \in Ticket
      BY <1>0, <1>1 DEF SwitchBackend, NextFallback, FlagsTyped, Ticket
    <2> QED BY <1>0, <1>1, <2>1, QuietStep DEF SwitchBackend, FlagsTyped
  <1>2. CASE QuotaPauses
    BY <1>0, <1>2, <1>h, FlagStep DEF QuotaPauses, FlagsTyped
  <1>3. CASE Fails
    <2>1. CASE UNCHANGED <<mem, row, held, lost, failures>>
      BY <1>0, <1>3, <2>1, QuietStep DEF Fails, FlagsTyped
    <2>2. CASE Flag([reason |-> "hard"], {})
      BY <1>0, <1>3, <1>h, <2>2, FlagStep DEF Fails, FlagsTyped
    <2> QED BY <1>3, <2>1, <2>2 DEF Fails
  <1>4. CASE ScheduleRetry
    <2>1. CASE step.attempt > MaxRetries
      <3>1. Flag([attempt |-> 0], {}) /\ UNCHANGED <<retry, claimed, up, reg, worker, polling>>
            /\ fails' = 0 /\ step' = Idle
        BY <1>4, <2>1 DEF ScheduleRetry
      <3>2. ticket' \in Ticket
        BY <1>0, <1>4, <2>1 DEF ScheduleRetry, FlagsTyped, Ticket
      <3> QED BY <1>0, <1>a, <3>1, <3>2, FlagStep DEF FlagsTyped
    <2>2. CASE ~(step.attempt > MaxRetries)
      <3>1. Flag([attempt |-> step.attempt], {}) /\ UNCHANGED <<ticket, up, reg, worker, polling>>
            /\ fails' = fails + 1 /\ step' = Idle /\ claimed' = TRUE
            /\ retry' = [kind |-> "retry", attempt |-> step.attempt]
        BY <1>4, <2>2 DEF ScheduleRetry, InstallRetry
      <3> QED BY <1>0, <1>a, <3>1, FlagStep DEF FlagsTyped
    <2> QED BY <2>1, <2>2
  <1>5. CASE ExitNormal
    BY <1>0, <1>5, <1>a, FlagStep DEF ExitNormal, FlagsTyped
  <1>6. CASE ScheduleContinuation
    <2>1. Flag([attempt |-> 0], {}) /\ retry' = [kind |-> "continuation", attempt |-> 1]
      BY <1>6 DEF ScheduleContinuation, InstallRetry
    <2> QED BY <1>0, <1>6, <1>a, <2>1, FlagStep DEF ScheduleContinuation, FlagsTyped
  <1>7. CASE PauseForOperator
    <2>1. Proper([reason |-> step.do], {})
      BY <1>7 DEF PauseForOperator, Proper, Reasons, NoPause
    <2> QED BY <1>0, <1>7, <2>1, FlagStep DEF PauseForOperator, FlagsTyped
  <1>8. CASE MarkBudgetExhausted
    <2>1. Proper([budget |-> TRUE, attempt |-> 0], {})
      BY DEF Proper
    <2> QED BY <1>0, <1>8, <2>1, FlagStep DEF MarkBudgetExhausted, FlagsTyped
  <1>9. CASE HandOff
    <2>1. ticket' \in Ticket
      BY <1>0, <1>9 DEF HandOff, FlagsTyped, Ticket
    <2> QED BY <1>0, <1>9, <2>1, QuietStep DEF HandOff, FlagsTyped
  <1>10. CASE ExitReleased
    BY <1>0, <1>10, <1>a, FlagStep DEF ExitReleased, FlagsTyped
  <1> QED BY <1>1, <1>2, <1>3, <1>4, <1>5, <1>6, <1>7, <1>8, <1>9, <1>10

LEMMA RetryFlags ==
  ASSUME FlagsSound, OnRetryTimer \/ ProcessRetry
  PROVE  FlagsSound'
  <1> USE RecordTypes
  <1>0. FlagsTyped
    BY DEF FlagsSound
  <1>a. \A a \in Nat : Proper([attempt |-> a], {})
    BY DEF Proper
  <1>1. CASE OnRetryTimer
    <2>1. CASE mem.reason # NoPause
      <3>1. /\ Flag([attempt |-> IF retry.kind = "continuation" THEN 0 ELSE retry.attempt], {})
            /\ retry' = [kind |-> retry.kind, attempt |-> retry.attempt] /\ UNCHANGED polling
        BY <1>1, <2>1 DEF OnRetryTimer, InstallRetry
      <3>2. retry' \in Pending
        BY <1>0, <3>1 DEF FlagsTyped, Pending
      <3>3. (IF retry.kind = "continuation" THEN 0 ELSE retry.attempt) \in Nat
        BY <1>0 DEF FlagsTyped
      <3> QED BY <1>0, <1>1, <1>a, <3>1, <3>2, <3>3, FlagStep DEF OnRetryTimer, FlagsTyped
    <2>2. CASE ~(mem.reason # NoPause)
      BY <1>0, <1>1, <2>2, QuietStep DEF OnRetryTimer, FlagsTyped
    <2> QED BY <2>1, <2>2
  <1>2. CASE ProcessRetry
    <2>1. CASE /\ retry' = polling /\ claimed' = TRUE
               /\ UNCHANGED <<mem, row, held, lost, worker, fails, runs>>
      BY <1>0, <1>2, <2>1, QuietStep DEF ProcessRetry, FlagsTyped
    <2>2. CASE ReleaseRetry(TRUE) /\ UNCHANGED <<worker, runs>>
      <3>1. Proper([attempt |-> 0, reason |-> NoPause], {"pause"})
        BY DEF Proper
      <3> QED BY <1>0, <1>2, <2>2, <3>1, FlagStep DEF ProcessRetry, ReleaseRetry, FlagsTyped
    <2>3. CASE ReleaseRetry(FALSE) /\ UNCHANGED <<worker, runs>>
      BY <1>0, <1>2, <1>a, <2>3, FlagStep DEF ProcessRetry, ReleaseRetry, FlagsTyped
    <2>4. CASE StartWorker(polling.attempt) /\ UNCHANGED <<mem, row, held, lost, failures, retry, fails>>
      BY <1>0, <1>2, <2>4, QuietStep DEF ProcessRetry, StartWorker, FlagsTyped
    <2> QED BY <1>2, <2>1, <2>2, <2>3, <2>4 DEF ProcessRetry
  <1> QED BY <1>1, <1>2

LEMMA NextFlagsSound == FlagsSound /\ [NextFlags]_flagVars => FlagsSound'
  <1>1. FlagsSound /\ UNCHANGED flagVars => FlagsSound'
    BY DEF flagVars, FlagsSound, FlagsTyped, HeldOnRecord
  <1> QED BY <1>1, ProcessFlags, WorkerFlags, ExitFlags, RetryFlags DEF NextFlags

(* Whatever stops the process, whichever registry calls fail and in        *)
(* whatever order flags are written, a hold that is on record is in the    *)
(* table, and in the memory of every process whose registry is open.       *)
THEOREM HoldsAreOnRecord == FlagsSpec => []FlagsSound
  BY InitFlagsSound, NextFlagsSound, PTL DEF FlagsSpec

(* Only a tick and a retry start a worker, and both look at the memory.    *)
LEMMA StartLooks ==
  ASSUME FlagsSound, [NextFlags]_flagVars, worker = Unassigned, worker' # Unassigned
  PROVE  Ready /\ Dispatchable
  <1>1. CASE Tick \/ ProcessRetry
    BY <1>1 DEF Tick, ProcessRetry
  <1>2. CASE Launch \/ OpenRunRegistry \/ ListFails \/ Down \/ PauseWorker \/ ResumeWorker \/ MoveCard
    BY <1>2 DEF Launch, OpenRunRegistry, ListFails, Down, PauseWorker, ResumeWorker, MoveCard
  <1>3. CASE \/ SwitchBackend \/ QuotaPauses \/ Fails \/ ScheduleRetry
             \/ ExitNormal \/ ScheduleContinuation \/ PauseForOperator \/ MarkBudgetExhausted
             \/ HandOff \/ ExitReleased \/ OnRetryTimer
    BY <1>3 DEF SwitchBackend, QuotaPauses, Fails, ScheduleRetry, ExitNormal, ScheduleContinuation,
                PauseForOperator, MarkBudgetExhausted, HandOff, ExitReleased, OnRetryTimer
  <1>4. CASE Enter
    BY <1>4 DEF Enter, Unassigned
  <1>5. CASE UNCHANGED flagVars
    BY <1>5 DEF flagVars
  <1> QED BY <1>1, <1>2, <1>3, <1>4, <1>5 DEF NextFlags

(* A ticket on which a pause or an exhausted budget is on record is not    *)
(* given a worker before the hold is lifted: not by a retry, not by        *)
(* another process after any crash, and not because another flag was       *)
(* written (_write_issue_flags, _rehydrate_issue_flags).                   *)
THEOREM HoldsAreKept == FlagsSpec => HoldSurvives
  <1>1. FlagsSound /\ [NextFlags]_flagVars => (worker = Unassigned /\ worker' # Unassigned => held = {})
    <2> SUFFICES ASSUME FlagsSound, [NextFlags]_flagVars, worker = Unassigned, worker' # Unassigned
                 PROVE  held = {}
      OBVIOUS
    <2>1. reg /\ mem.reason = NoPause /\ ~mem.budget
      BY StartLooks DEF Ready, Dispatchable
    <2> QED BY <2>1, HoldsIff DEF FlagsSound, HeldOnRecord
  <1> QED BY <1>1, HoldsAreOnRecord, PTL DEF FlagsSpec, HoldSurvives

-----------------------------------------------------------------------------
(* The retry cap *)

Idles == worker = Unassigned /\ step = Idle

(* While no attempt was lost, every place that holds a retry's attempt     *)
(* counts at least the retries granted, and one of them at a time is in    *)
(* the hands of a worker, of an exit, of a timer or of a poll.  A verifier *)
(* that has handed over is never dispatched again, so its count may go.    *)
Counted ==
  ~lost =>
    /\ ticket.handed \/ row.attempt >= fails
    /\ reg => ticket.handed \/ mem.attempt >= fails
    /\ worker # Unassigned => worker.attempt >= fails
    /\ step.do = "schedule" => step.attempt > fails
    /\ step.do \in {"continue", "gate", "stage", "spent"} => fails = 0
    /\ \A p \in {retry, polling} :
         p # NoRetry => /\ p.attempt >= fails /\ Idles
                        /\ p.kind = "continuation" => fails = 0
    /\ step # Idle => worker = Unassigned
    /\ retry # NoRetry => claimed /\ polling = NoRetry
    /\ fails <= MaxRetries

(* The attempt a write leaves in a row.                                    *)
LEMMA WrittenAttempt ==
  ASSUME NEW r \in FlagRow
  PROVE  /\ \A x \in Reasons : SetIssueFlags(r, [reason |-> x]).attempt = r.attempt
         /\ \A a \in Nat : SetIssueFlags(r, [attempt |-> a]).attempt = a
         /\ SetIssueFlags(r, [budget |-> TRUE, attempt |-> 0]).attempt = 0
         /\ SetIssueFlags(r, [attempt |-> 0, reason |-> NoPause]).attempt = 0
  BY DEF SetIssueFlags, FlagRow

(* A pause or a resume leaves the attempts alone.                          *)
LEMMA PauseAttempts ==
  ASSUME FlagsSound, NEW x \in Reasons, NEW lifts, Proper([reason |-> x], lifts),
         Flag([reason |-> x], lifts), UNCHANGED reg, ~lost'
  PROVE  ~lost /\ mem'.attempt = mem.attempt /\ row'.attempt = row.attempt
  <1>1. /\ mem' = SetIssueFlags(mem, [reason |-> x]) /\ row' = SetIssueFlags(row, [reason |-> x])
        /\ ~lost
    BY FlagKeeps DEF FlagsSound, FlagsTyped
  <1>2. mem \in FlagRow /\ row \in FlagRow
    BY DEF FlagsSound, FlagsTyped
  <1> QED BY <1>1, <1>2, WrittenAttempt

(* A write of an attempt reaches memory and table.                         *)
LEMMA RecordAttempt ==
  ASSUME FlagsSound, NEW a \in Nat, NEW given, NEW lifts, Flag(given, lifts), UNCHANGED reg, ~lost',
         \/ given = [attempt |-> a] /\ lifts = {}
         \/ given = [budget |-> TRUE, attempt |-> 0] /\ lifts = {} /\ a = 0
         \/ given = [attempt |-> 0, reason |-> NoPause] /\ lifts = {"pause"} /\ a = 0
  PROVE  ~lost /\ mem'.attempt = a /\ row'.attempt = a
  <1>1. Proper(given, lifts)
    BY DEF Proper
  <1>2. mem' = SetIssueFlags(mem, given) /\ row' = SetIssueFlags(row, given) /\ ~lost
    BY <1>1, FlagKeeps DEF FlagsSound, FlagsTyped
  <1>3. mem \in FlagRow /\ row \in FlagRow
    BY DEF FlagsSound, FlagsTyped
  <1>4. CASE given = [attempt |-> a]
    BY <1>2, <1>3, <1>4, WrittenAttempt
  <1>5. CASE given = [budget |-> TRUE, attempt |-> 0] /\ a = 0
    BY <1>2, <1>3, <1>5, WrittenAttempt
  <1>6. CASE given = [attempt |-> 0, reason |-> NoPause] /\ a = 0
    BY <1>2, <1>3, <1>6, WrittenAttempt
  <1> QED BY <1>4, <1>5, <1>6

LEMMA CountedByTicks ==
  ASSUME FlagsSound, Counted, MaxRetries \in Nat, ~lost',
         \/ Launch \/ OpenRunRegistry \/ ListFails \/ Down
         \/ Tick \/ Enter \/ PauseWorker \/ ResumeWorker \/ MoveCard
  PROVE  Counted'
  <1> USE RecordTypes
  <1>0. FlagsTyped /\ fails \in Nat /\ ticket \in Ticket
    BY DEF FlagsSound, FlagsTyped
  <1>1. CASE Launch
    BY <1>0, <1>1 DEF Launch, Counted, Idles
  <1>2. CASE OpenRunRegistry
    <2>1. PICK proven \in {ticket.handed, FALSE} :
               mem' = Rehydrated(row, proven) /\ row' \in {row, Cleared(row, proven)}
      BY <1>2 DEF OpenRunRegistry
    <2>2. mem'.attempt = IF proven THEN 0 ELSE row.attempt
      BY <2>1 DEF Rehydrated
    <2>3. proven \/ row'.attempt = row.attempt
      BY <1>0, <2>1 DEF Cleared, FlagsTyped, FlagRow
    <2>4. proven => ticket.handed
      BY <2>1
    <2> QED BY <1>0, <1>2, <2>2, <2>3, <2>4 DEF OpenRunRegistry, Counted, Idles
  <1>3. CASE ListFails
    BY <1>3 DEF ListFails
  <1>4. CASE Down
    BY <1>0, <1>4 DEF Down, HandleShutdownInterrupted, Counted, Idles, Idle, NoRetry
  <1>5. CASE Tick
    <2>1. retry = NoRetry /\ polling = NoRetry /\ ~ticket.handed /\ reg /\ step = Idle /\ ~lost
      BY <1>5 DEF Tick, Claimed, Dispatchable, Ready, Counted
    <2>2. worker' = [st |-> "new", attempt |-> mem.attempt] /\ worker' # Unassigned
      BY <1>5 DEF Tick, StartWorker, Unassigned
    <2> QED BY <1>0, <1>5, <2>1, <2>2 DEF Tick, Counted, Idles
  <1>6. CASE Enter
    <2>1. worker # Unassigned /\ worker'.attempt = worker.attempt /\ worker' # Unassigned
      BY <1>0, <1>6 DEF Enter, Unassigned, FlagsTyped, FlagWorker
    <2> QED BY <1>0, <1>6, <2>1 DEF Enter, Counted, Idles
  <1>7. CASE PauseWorker
    <2>1. ~lost /\ mem'.attempt = mem.attempt /\ row'.attempt = row.attempt
      <3>1. "operator" \in Reasons /\ Proper([reason |-> "operator"], {})
        BY DEF Proper, Reasons, NoPause
      <3> QED BY <1>7, <3>1, PauseAttempts DEF PauseWorker
    <2> QED BY <1>0, <1>7, <2>1 DEF PauseWorker, Counted, Idles
  <1>8. CASE ResumeWorker
    <2>1. ~lost /\ mem'.attempt = mem.attempt /\ row'.attempt = row.attempt
      <3>1. NoPause \in Reasons /\ Proper([reason |-> NoPause], {"pause"})
        BY DEF Proper, Reasons
      <3> QED BY <1>8, <3>1, PauseAttempts DEF ResumeWorker
    <2> QED BY <1>0, <1>8, <2>1 DEF ResumeWorker, Counted, Idles
  <1>9. CASE MoveCard
    <2>1. ticket'.handed = ticket.handed
      BY <1>0, <1>9 DEF MoveCard, Ticket
    <2> QED BY <1>0, <1>9, <2>1 DEF MoveCard, Counted, Idles
  <1> QED BY <1>1, <1>2, <1>3, <1>4, <1>5, <1>6, <1>7, <1>8, <1>9

LEMMA CountedByExits ==
  ASSUME FlagsSound, Counted, MaxRetries \in Nat, ~lost',
         \/ SwitchBackend \/ QuotaPauses \/ Fails \/ ScheduleRetry
         \/ ExitNormal \/ ScheduleContinuation \/ PauseForOperator \/ MarkBudgetExhausted
         \/ HandOff \/ ExitReleased
  PROVE  Counted'
  <1> USE RecordTypes
  <1>0. /\ FlagsTyped /\ fails \in Nat /\ ticket \in Ticket
        /\ worker.attempt \in Nat /\ step.attempt \in Nat /\ Idle.do = "idle"
    BY DEF FlagsSound, FlagsTyped, Idle
  <1>h. "hard" \in Reasons /\ Proper([reason |-> "hard"], {})
    BY DEF Proper, Reasons, NoPause
  <1>w. ASSUME Running PROVE worker # Unassigned
    BY <1>w DEF Running, Unassigned
  \* An exit that schedules the next attempt: one more than the worker's.
  <1>s. ASSUME ~lost, worker # Unassigned, worker' = Unassigned, fails' = fails,
               step' = [do |-> "schedule", attempt |-> worker.attempt + 1],
               mem'.attempt = mem.attempt, row'.attempt = row.attempt,
               ticket'.handed = ticket.handed, UNCHANGED <<reg, retry, polling, claimed>>
        PROVE  Counted'
    BY <1>0, <1>s DEF Counted, Idles
  \* A write that forgets the count, as the retries granted are forgotten.
  <1>z. ASSUME ~lost, fails' = 0, mem'.attempt = 0, row'.attempt = 0, worker' = Unassigned,
               retry' = NoRetry, polling' = NoRetry, step'.do # "schedule"
        PROVE  Counted'
    BY <1>z DEF Counted
  <1>1. CASE SwitchBackend
    <2>1. ticket'.handed = ticket.handed
      BY <1>0, <1>1 DEF SwitchBackend, Ticket
    <2> QED BY <1>1, <1>s, <1>w, <2>1 DEF SwitchBackend
  <1>2. CASE QuotaPauses
    <2>1. ~lost /\ mem'.attempt = mem.attempt /\ row'.attempt = row.attempt
      BY <1>2, <1>h, PauseAttempts DEF QuotaPauses
    <2> QED BY <1>2, <1>s, <1>w, <2>1 DEF QuotaPauses
  <1>3. CASE Fails
    <2>1. ~lost /\ mem'.attempt = mem.attempt /\ row'.attempt = row.attempt
      BY <1>3, <1>h, PauseAttempts DEF Fails
    <2> QED BY <1>3, <1>s, <2>1 DEF Fails
  <1>4. CASE ScheduleRetry
    <2>0. step # Idle
      BY <1>0, <1>4 DEF ScheduleRetry
    <2>1. CASE step.attempt > MaxRetries
      <3>1. /\ Flag([attempt |-> 0], {}) /\ UNCHANGED <<retry, claimed, up, reg, worker, polling>>
            /\ fails' = 0 /\ step' = Idle
        BY <1>4, <2>1 DEF ScheduleRetry
      <3>2. ~lost /\ mem'.attempt = 0 /\ row'.attempt = 0
        BY <3>1, RecordAttempt
      <3>3. retry = NoRetry /\ polling = NoRetry /\ worker = Unassigned
        BY <2>0, <3>2 DEF Counted, Idles
      <3> QED BY <1>0, <1>z, <3>1, <3>2, <3>3
    <2>2. CASE ~(step.attempt > MaxRetries)
      <3>1. /\ Flag([attempt |-> step.attempt], {}) /\ UNCHANGED <<ticket, up, reg, worker, polling>>
            /\ fails' = fails + 1 /\ step' = Idle /\ claimed' = TRUE
            /\ retry' = [kind |-> "retry", attempt |-> step.attempt]
        BY <1>4, <2>2 DEF ScheduleRetry, InstallRetry
      <3>2. ~lost /\ mem'.attempt = step.attempt /\ row'.attempt = step.attempt
        BY <1>0, <3>1, RecordAttempt
      <3>3. polling = NoRetry /\ worker = Unassigned /\ step.attempt > fails
        BY <1>4, <2>0, <3>2 DEF Counted, Idles, ScheduleRetry
      <3> QED BY <1>0, <2>2, <3>1, <3>2, <3>3 DEF Counted, Idles
    <2> QED BY <2>1, <2>2
  <1>5. CASE ExitNormal
    <2>1. ~lost /\ mem'.attempt = 0 /\ row'.attempt = 0
      BY <1>5, RecordAttempt DEF ExitNormal
    <2>2. retry = NoRetry /\ polling = NoRetry
      BY <1>5, <1>w, <2>1 DEF ExitNormal, Counted, Idles
    <2>3. step'.do # "schedule"
      BY <1>5 DEF ExitNormal
    <2> QED BY <1>5, <1>z, <2>1, <2>2, <2>3 DEF ExitNormal
  <1>6. CASE ScheduleContinuation
    <2>1. Flag([attempt |-> 0], {}) /\ retry' = [kind |-> "continuation", attempt |-> 1]
      BY <1>6 DEF ScheduleContinuation, InstallRetry
    <2>2. ~lost /\ mem'.attempt = 0 /\ row'.attempt = 0
      BY <1>6, <2>1, RecordAttempt DEF ScheduleContinuation
    <2>3. fails = 0 /\ polling = NoRetry /\ worker = Unassigned
      BY <1>0, <1>6, <2>2 DEF ScheduleContinuation, Counted, Idles
    <2> QED BY <1>0, <1>6, <2>1, <2>2, <2>3 DEF ScheduleContinuation, Counted, Idles
  <1>7. CASE PauseForOperator
    <2>1. step.do \in Reasons /\ Proper([reason |-> step.do], {})
      BY <1>7 DEF PauseForOperator, Proper, Reasons, NoPause
    <2>2. ~lost /\ mem'.attempt = mem.attempt /\ row'.attempt = row.attempt
      BY <1>7, <2>1, PauseAttempts DEF PauseForOperator
    <2>3. fails = 0 /\ polling = NoRetry /\ retry = NoRetry /\ worker = Unassigned
      BY <1>0, <1>7, <2>2 DEF PauseForOperator, Counted, Idles
    <2> QED BY <1>0, <1>7, <2>2, <2>3 DEF PauseForOperator, Counted, Idles
  <1>8. CASE MarkBudgetExhausted
    <2>1. ~lost /\ mem'.attempt = 0 /\ row'.attempt = 0
      BY <1>8, RecordAttempt DEF MarkBudgetExhausted
    <2>2. fails = 0 /\ polling = NoRetry /\ retry = NoRetry /\ worker = Unassigned
      BY <1>0, <1>8, <2>1 DEF MarkBudgetExhausted, Counted, Idles
    <2> QED BY <1>0, <1>8, <1>z, <2>1, <2>2 DEF MarkBudgetExhausted
  <1>9. CASE HandOff
    <2>1. ticket'.handed = TRUE
      BY <1>0, <1>9 DEF HandOff, Ticket
    <2> QED BY <1>0, <1>9, <2>1 DEF HandOff, Counted, Idles
  <1>10. CASE ExitReleased
    <2>1. ~lost /\ mem'.attempt = 0 /\ row'.attempt = 0
      BY <1>10, RecordAttempt DEF ExitReleased
    <2>2. polling = NoRetry /\ step = Idle
      BY <1>10, <1>w, <2>1 DEF ExitReleased, Counted, Idles, Running, Ready
    <2> QED BY <1>0, <1>10, <1>z, <2>1, <2>2 DEF ExitReleased
  <1> QED BY <1>1, <1>2, <1>3, <1>4, <1>5, <1>6, <1>7, <1>8, <1>9, <1>10

LEMMA CountedByTimers ==
  ASSUME FlagsSound, Counted, MaxRetries \in Nat, ~lost', OnRetryTimer \/ ProcessRetry
  PROVE  Counted'
  <1> USE RecordTypes
  <1>0. FlagsTyped /\ fails \in Nat /\ retry \in Pending /\ retry.attempt \in Nat /\ polling.attempt \in Nat
    BY DEF FlagsSound, FlagsTyped
  <1>1. CASE OnRetryTimer
    <2>1. CASE mem.reason # NoPause
      <3>1. /\ Flag([attempt |-> IF retry.kind = "continuation" THEN 0 ELSE retry.attempt], {})
            /\ retry' = [kind |-> retry.kind, attempt |-> retry.attempt] /\ UNCHANGED polling
        BY <1>1, <2>1 DEF OnRetryTimer, InstallRetry
      <3>2. retry' = retry
        BY <1>0, <3>1 DEF Pending
      <3>3. /\ ~lost
            /\ mem'.attempt = IF retry.kind = "continuation" THEN 0 ELSE retry.attempt
            /\ row'.attempt = IF retry.kind = "continuation" THEN 0 ELSE retry.attempt
        BY <1>0, <1>1, <3>1, RecordAttempt DEF OnRetryTimer
      <3> QED BY <1>0, <1>1, <3>1, <3>2, <3>3 DEF OnRetryTimer, Counted, Idles
    <2>2. CASE ~(mem.reason # NoPause)
      BY <1>0, <1>1, <2>2 DEF OnRetryTimer, Counted, Idles
    <2> QED BY <2>1, <2>2
  <1>2. CASE ProcessRetry
    <2>1. CASE /\ retry' = polling /\ claimed' = TRUE
               /\ UNCHANGED <<mem, row, held, lost, worker, fails, runs>>
      BY <1>0, <1>2, <2>1 DEF ProcessRetry, Counted, Idles
    <2>2. CASE (ReleaseRetry(TRUE) \/ ReleaseRetry(FALSE)) /\ UNCHANGED <<worker, runs>>
      <3>1. ~lost /\ mem'.attempt = 0 /\ row'.attempt = 0
        <4>1. CASE ReleaseRetry(TRUE)
          BY <1>2, <4>1, RecordAttempt DEF ProcessRetry, ReleaseRetry
        <4>2. CASE ReleaseRetry(FALSE)
          BY <1>2, <4>2, RecordAttempt DEF ProcessRetry, ReleaseRetry
        <4> QED BY <2>2, <4>1, <4>2
      <3>2. retry = NoRetry /\ worker = Unassigned /\ step = Idle
        BY <1>2, <3>1 DEF ProcessRetry, Counted, Idles
      <3> QED BY <1>0, <1>2, <2>2, <3>1, <3>2 DEF ProcessRetry, ReleaseRetry, Counted, Idle
    <2>3. CASE StartWorker(polling.attempt) /\ UNCHANGED <<mem, row, held, lost, failures, retry, fails>>
      <3>1. retry = NoRetry /\ ~lost /\ step = Idle
        BY <1>2, <2>3 DEF ProcessRetry, Counted, Idles
      <3>2. worker' = [st |-> "new", attempt |-> polling.attempt] /\ worker' # Unassigned
        BY <2>3 DEF StartWorker, Unassigned
      <3> QED BY <1>0, <1>2, <2>3, <3>1, <3>2 DEF ProcessRetry, Counted, Idles
    <2> QED BY <1>2, <2>1, <2>2, <2>3 DEF ProcessRetry
  <1> QED BY <1>1, <1>2

(* A ticket gets at most max_retries retries before it is escalated,       *)
(* however often it is paused and resumed, and whatever ends the process,  *)
(* as long as no attempt was lost (_retry_cap_exceeded,                    *)
(* _rehydrate_issue_flags).                                                *)
THEOREM RetryCapHolds ==
  ASSUME MaxRetries \in Nat \ {0}
  PROVE  FlagsSpec => []RetriesStayCapped
  <1>1. InitFlags => Counted
    BY RecordTypes DEF InitFlags, Counted, Idles, Empty, Legacy, Idle, NoRetry
  <1>2. FlagsSound /\ Counted /\ [NextFlags]_flagVars => Counted'
    <2>1. CASE UNCHANGED flagVars
      BY <2>1 DEF flagVars, Counted, Idles
    <2>2. CASE lost'
      BY <2>2 DEF Counted
    <2> QED BY <2>1, <2>2, CountedByTicks, CountedByExits, CountedByTimers DEF NextFlags
  <1>3. Counted => RetriesStayCapped
    BY DEF Counted, RetriesStayCapped
  <1> QED BY <1>1, <1>2, <1>3, HoldsAreOnRecord, PTL DEF FlagsSpec

-----------------------------------------------------------------------------
(* An attempt.                                                             *)

(* Where a worker is: in the loop of its attempt, or on its way out. *)
Loop == {"recover", "recovering", "open", "top", "held", "loop", "moved", "gate", "rewound",
         "rebuild", "start", "turn", "turned", "result", "donegate", "count"}
Steps == Loop \cup Leaving
GateSteps == {"off", "refresh", "run", "contract", "rewind", "passed", "rewound"}

(* The records of the model's variables. *)
Worker ==
  [pc : Steps, seen : Cards, cur : Cards, prev : Cards, turn : Nat,
   reason : {"normal", "error", "cancelled", "shutdown"}]
Entry ==
  [in : BOOLEAN, at : Cards, issue : Cards, turns : Nat, cleanup : BOOLEAN,
   why : {"none", "nostage", "maxturns"}]
Gates == [{"worker", "tick"} -> [pc : GateSteps, from : Cards, cur : Cards]]
Ticks == [pc : {"idle", "gate", "ship"}, live : BOOLEAN, state : Cards]

Typed ==
  /\ card \in Cards /\ pending \in 0..N /\ owed \subseteq Gated
  /\ w \in Worker /\ en \in Entry /\ gate \in Gates /\ tick \in Ticks
  /\ svc \in {"up", "stopping", "down"}

(* The parts of the state that say where an attempt is agree.              *)
Shape ==
  /\ en.in <=> w.pc \in Loop \cup {"leave"}
  /\ gate["worker"].pc # "off" <=> w.pc \in {"recovering", "gate", "donegate", "exitgate"}
  /\ gate["tick"].pc # "off" <=> tick.pc = "gate"
  /\ svc = "down" => w.pc = "off"
  /\ svc # "up" => tick.pc = "idle"
  /\ w.pc \in Loop \ {"recover", "recovering", "open"} => w.turn >= 1

WorkerGate == gate["worker"]
TickGate == gate["tick"]
OnTick == TickGate.pc \notin {"off", "rewound"}   \* the tick's evaluation is not over

(* No owed lane lies before c.                                             *)
Clear(c) == c = Stopped \/ \A l \in owed : c <= l
OwedFrom(c) == \A l \in owed : c <= l
(* One that does is on record.                                             *)
Kept == card = Stopped \/ \A l \in owed : card <= l \/ (pending # 0 /\ pending <= l)

Away == {"off", "settle"}

(* Where a worker and its card are, as long as nothing is excused.         *)
Trip ==
  /\ w.pc \in Loop \ {"turned", "result", "donegate"} => card \in Active
  /\ w.pc \in Loop \ {"turn", "turned", "result"} => en.issue = card
  /\ w.pc \in {"recover", "open", "top", "held", "loop", "count"} => w.seen = card
  /\ w.pc \in {"moved", "rewound", "rebuild", "start"} => w.cur = card
  /\ w.pc \notin Away => en.at # Done
  /\ w.pc \in {"recover", "recovering", "open"} => en.at = 0
  /\ w.pc \in {"rewound", "rebuild"} => en.at # 0
  /\ w.pc \in {"turn", "turned"} => en.at # 0 /\ w.cur = en.at
  /\ w.pc = "turn" => card = en.at
  /\ w.pc \in {"result", "donegate", "count", "moved", "gate"} => en.at # 0 /\ w.prev = en.at
  /\ w.pc \in {"top", "held", "loop"} =>
       IF en.at = 0 THEN w.turn = 1 ELSE w.turn > 1 /\ w.prev = en.at
  /\ w.pc \in {"recovering", "gate"} => WorkerGate.cur = card
  /\ w.pc = "recovering" /\ WorkerGate.pc \in {"refresh", "run"} => WorkerGate.from < card
  /\ w.pc \in {"gate", "donegate", "exitgate"} => en.at # 0 /\ WorkerGate.from = en.at
  /\ w.pc = "donegate" =>
       /\ card \in {Done, en.at} /\ WorkerGate.cur \in {Done, en.at}
       /\ WorkerGate.cur = en.at => card = en.at
       /\ WorkerGate.pc = "rewound" => WorkerGate.cur = en.at
  /\ en.at = 0 /\ w.pc \notin Away => card \in Active /\ tick.pc = "idle"
  /\ w.pc \in {"moved", "gate", "rewound", "rebuild"} => tick.pc = "idle"
  /\ en.cleanup => w.pc \in Leaving
  \* the tick
  /\ tick.pc = "ship" => w.pc \in Leaving
  /\ tick.pc # "idle" => tick.live
  /\ tick.pc = "gate" /\ w.pc \notin Away => en.at # 0 /\ TickGate.from = en.at
  /\ OnTick /\ w.pc \in Loop =>
       \/ w.pc \in {"turned", "result"} /\ card = Done
       \/ w.pc = "donegate" /\ (WorkerGate.pc = "rewound" \/ (card = Done /\ WorkerGate.cur = Done))
  /\ TickGate.pc = "rewound" /\ w.pc \in Loop => card = TickGate.cur /\ card = en.at

(* What is owed.                                                           *)
Debts ==
  /\ en.at # 0 /\ w.pc \notin Away => OwedFrom(en.at)
  /\ en.at = 0 \/ w.pc \in Away \cup {"act"} => Kept
  /\ w.pc \in {"open", "rewound", "rebuild", "start"} => OwedFrom(card)
  /\ w.pc \in {"top", "held", "loop"} /\ en.at = 0 => OwedFrom(card)
  /\ w.pc = "recovering" => OwedFrom(WorkerGate.from)
  /\ OnTick => OwedFrom(TickGate.from)
  /\ \A a \in {"worker", "tick"} :
       /\ gate[a].pc = "run" => card <= gate[a].cur /\ gate[a].from < gate[a].cur
       /\ gate[a].pc \in {"contract", "passed"} => Clear(card)
       /\ gate[a].pc \in {"refresh", "run", "contract", "passed", "rewind", "rewound"} =>
            gate[a].from \in Active
  /\ w.pc = "recovering" /\ WorkerGate.pc \in {"contract", "passed", "rewound"} => OwedFrom(card)
  /\ w.pc = "gate" /\ WorkerGate.pc \in {"contract", "passed", "rewound"} => OwedFrom(card)
  /\ w.pc = "mark" /\ en.at # 0 /\ (w.reason = "normal" \/ (w.reason # "shutdown" /\ svc = "up"))
       => Clear(card)
  /\ w.pc = "exitgate" /\ WorkerGate.pc = "rewound" => Clear(card)
  /\ en.cleanup /\ w.pc \notin Away => Clear(card)
  /\ (w.pc = "act" /\ w.reason = "normal") \/ tick.pc = "ship" => (card = Done => owed = {})

(* The inductive invariant.  A trip with an excuse keeps only its types. *)
AttemptInv ==
  /\ Typed /\ Shape /\ GatesRun
  /\ excused = {} => Trip /\ Debts

(* A worker that moves on in its attempt is still one. *)
LEMMA WorkerMoves ==
  ASSUME NEW v \in Worker, NEW pc \in Steps, NEW c \in Cards
  PROVE  /\ [v EXCEPT !.pc = pc] \in Worker
         /\ [v EXCEPT !.pc = pc, !.seen = c] \in Worker
         /\ [v EXCEPT !.seen = c, !.pc = pc] \in Worker
         /\ [v EXCEPT !.cur = c, !.pc = pc] \in Worker
         /\ [v EXCEPT !.pc = pc, !.prev = c] \in Worker
         /\ [v EXCEPT !.cur = c, !.seen = c, !.pc = pc] \in Worker
         /\ [v EXCEPT !.turn = @ + 1, !.pc = pc] \in Worker
<1> DEFINE more == v.turn + 1
<1>1. more \in Nat
  BY DEF Worker
<1>2. [v EXCEPT !.turn = @ + 1, !.pc = pc] = [v EXCEPT !.turn = more, !.pc = pc]
  BY DEF Worker
<1> HIDE DEF more
<1> QED BY <1>1, <1>2 DEF Worker

(* A worker that is cancelled leaves, and with it its gate evaluation. *)
LEMMA Unwinds ==
  ASSUME Typed, NEW reason \in {"cancelled", "shutdown"}
  PROVE  /\ Unwound(reason) \in Worker /\ Unwound(reason).pc \in Leaving
         /\ w.pc \in Leaving => Unwound(reason) = w /\ Ended = gate
         /\ w.pc \notin Leaving => /\ Unwound(reason).pc = "leave"
                                   /\ Ended["worker"].pc = "off"
         /\ Ended \in Gates /\ Ended["tick"] = gate["tick"]
<1>1. w \in Worker /\ gate \in Gates /\ NoGate \in [pc : GateSteps, from : Cards, cur : Cards]
  BY AttemptAssumption DEF Typed, NoGate, GateSteps, Cards, Done
<1>2. CASE w.pc \in Leaving
  BY <1>1, <1>2 DEF Unwound, Ended
<1>3. CASE w.pc \notin Leaving
  <2>1. Unwound(reason) = [w EXCEPT !.pc = "leave", !.reason = reason]
    BY <1>3 DEF Unwound
  <2>2. Ended = [gate EXCEPT !["worker"] = NoGate]
    BY <1>3 DEF Ended
  <2> QED BY <1>1, <1>3, <2>1, <2>2 DEF Worker, Steps, Leaving, Gates, NoGate
<1> QED BY <1>2, <1>3

-----------------------------------------------------------------------------
(* The steps with more than one case, and those that build new records.    *)

LEMMA ResultStep ==
  ASSUME AttemptInv, Result
  PROVE  AttemptInv'
<1> USE AttemptAssumption DEF AttemptInv, Stopped, Done, Active, Cards, Away, ghosts
<1>1. CASE card = Done /\ w.prev \in Active /\ Checked(w.prev)
  <2>a. /\ w' = [w EXCEPT !.seen = card, !.pc = "donegate"]
        /\ gate' = [gate EXCEPT !["worker"] = [pc |-> "refresh", from |-> w.prev, cur |-> card]]
    BY <1>1 DEF Result, EnterGate
  <2>b. /\ en' = [en EXCEPT !.issue = card] /\ w.pc = "result"
        /\ UNCHANGED <<card, pending, owed, ghosts, tick, svc>>
    BY DEF Result
  <2>1. Typed'
    BY <1>1, <2>a, <2>b DEF Typed, Worker, Entry, Gates, Ticks, Steps, Leaving, Loop,
      GateSteps
  <2>2. GatesRun'
    BY <1>1, <2>a, <2>b DEF Typed, GatesRun, Debts
  <2>3. Shape'
    BY <1>1, <2>a, <2>b DEF Typed, Worker, Entry, Gates, Ticks, Steps, Shape, Loop, Leaving
  <2>4. ASSUME excused' = {}  PROVE Trip'
    BY <1>1, <2>a, <2>b, <2>4 DEF Typed, Worker, Entry, Gates, Ticks, Steps, Shape, Trip,
      Debts, Loop, Leaving, WorkerGate, TickGate, OnTick
  <2>5. ASSUME excused' = {}  PROVE Debts'
    BY <1>1, <2>a, <2>b, <2>5 DEF Typed, Worker, Entry, Gates, Ticks, Steps, Shape, Trip,
      Debts, Loop, Leaving, WorkerGate, TickGate, OnTick, Clear, OwedFrom, Kept
  <2> QED BY <2>1, <2>2, <2>3, <2>4, <2>5
<1>2. CASE ~(card = Done /\ w.prev \in Active /\ Checked(w.prev))
  <2>a. /\ w' = [w EXCEPT !.seen = card, !.pc = IF card \in Active THEN "count" ELSE "leave"]
        /\ UNCHANGED gate
    BY <1>2 DEF Result
  <2>b. /\ en' = [en EXCEPT !.issue = card] /\ w.pc = "result"
        /\ UNCHANGED <<card, pending, owed, ghosts, tick, svc>>
    BY DEF Result
  <2>1. Typed'
    BY <1>2, <2>a, <2>b DEF Typed, Worker, Entry, Gates, Ticks, Steps, Leaving, Loop,
      GateSteps
  <2>2. GatesRun'
    BY <1>2, <2>a, <2>b DEF Typed, GatesRun, Debts
  <2>3. Shape'
    BY <1>2, <2>a, <2>b DEF Typed, Worker, Entry, Gates, Ticks, Steps, Shape, Loop, Leaving
  <2>4. ASSUME excused' = {}  PROVE Trip'
    BY <1>2, <2>a, <2>b, <2>4 DEF Typed, Worker, Entry, Gates, Ticks, Steps, Shape, Trip,
      Debts, Loop, Leaving, WorkerGate, TickGate, OnTick
  <2>5. ASSUME excused' = {}  PROVE Debts'
    BY <1>2, <2>a, <2>b, <2>5 DEF Typed, Worker, Entry, Gates, Ticks, Steps, Shape, Trip,
      Debts, Loop, Leaving, WorkerGate, TickGate, OnTick, Clear, OwedFrom, Kept
  <2> QED BY <2>1, <2>2, <2>3, <2>4, <2>5
<1> QED BY <1>1, <1>2

LEMMA TickTerminalStep ==
  ASSUME AttemptInv, TickTerminal
  PROVE  AttemptInv'
<1> USE AttemptAssumption DEF AttemptInv, Stopped, Done, Active, Cards, Away, ghosts
<1>1. CASE GatesFrom(en.at) /\ MovedOn(en.at, card)
  <2>a. /\ gate' = [gate EXCEPT !["tick"] = [pc |-> "refresh", from |-> en.at, cur |-> card]]
        /\ tick' = [pc |-> "gate", live |-> TRUE, state |-> card]
        /\ en' = [en EXCEPT !.issue = card]
        /\ UNCHANGED <<card, pending, owed, ghosts, w, svc>>
        /\ svc = "up" /\ tick.pc = "idle" /\ en.in /\ card \notin Active
    BY <1>1 DEF TickTerminal, TickReads, EnterGate
  <2>b. /\ en.at \in Active /\ card # Stopped
        /\ gate["worker"].pc = "off" \/ gate["worker"].from # en.at \/ card # Done
    BY <1>1 DEF TickTerminal, Verifying, GatesFrom, Crossed, MovedOn, Typed, Gates
  <2>1. Typed'
    BY <1>1, <2>a, <2>b DEF Typed, Worker, Entry, Gates, Ticks, Steps, Leaving, Loop,
      GateSteps
  <2>2. GatesRun'
    BY <1>1, <2>a, <2>b DEF Typed, GatesRun, Debts
  <2>3. Shape'
    BY <1>1, <2>a, <2>b DEF Typed, Worker, Entry, Gates, Ticks, Steps, Shape, Loop, Leaving
  <2>4. ASSUME excused' = {}  PROVE Trip'
    BY <1>1, <2>a, <2>b, <2>4 DEF Typed, Worker, Entry, Gates, Ticks, Steps, Shape, Trip,
      Debts, Loop, Leaving, WorkerGate, TickGate, OnTick
  <2>5. ASSUME excused' = {}  PROVE Debts'
    BY <1>1, <2>a, <2>b, <2>5 DEF Typed, Worker, Entry, Gates, Ticks, Steps, Shape, Trip,
      Debts, Loop, Leaving, WorkerGate, TickGate, OnTick, Clear, OwedFrom, Kept
  <2> QED BY <2>1, <2>2, <2>3, <2>4, <2>5
<1>2. CASE ~(GatesFrom(en.at) /\ MovedOn(en.at, card))
  <2>a. /\ w' = Unwound("cancelled") /\ gate' = Ended
        /\ tick' = [pc |-> "ship", live |-> TRUE, state |-> card]
        /\ en' = [en EXCEPT !.issue = card, !.cleanup = TRUE]
        /\ UNCHANGED <<card, pending, owed, ghosts, svc>>
        /\ svc = "up" /\ tick.pc = "idle" /\ en.in /\ card \notin Active
        /\ Unwound("cancelled") \in Worker /\ Unwound("cancelled").pc \in Leaving
        /\ w.pc \in Leaving => Unwound("cancelled") = w /\ Ended = gate
        /\ w.pc \notin Leaving => /\ Unwound("cancelled").pc = "leave"
                                  /\ Ended["worker"].pc = "off"
        /\ Ended \in Gates /\ Ended["tick"] = gate["tick"]
    BY <1>2, Unwinds DEF TickTerminal, TickReads
  <2>b. card = Done /\ en.at # 0 /\ en.at # Done /\ OwedFrom(en.at) => owed = {}
    BY <1>2 DEF GatesFrom, Crossed, MovedOn, IsRewind, OwedFrom, Typed, Entry
  <2>1. Typed'
    BY <1>2, <2>a, <2>b DEF Typed, Worker, Entry, Gates, Ticks, Steps, Leaving, Loop,
      GateSteps
  <2>2. GatesRun'
    BY <1>2, <2>a, <2>b DEF Typed, GatesRun, Debts
  <2>3. Shape'
    BY <1>2, <2>a, <2>b DEF Typed, Worker, Entry, Gates, Ticks, Steps, Shape, Loop, Leaving
  <2>4. ASSUME excused' = {}  PROVE Trip'
    BY <1>2, <2>a, <2>b, <2>4 DEF Typed, Worker, Entry, Gates, Ticks, Steps, Shape, Trip,
      Debts, Loop, Leaving, WorkerGate, TickGate, OnTick
  <2>5. ASSUME excused' = {}  PROVE Debts'
    BY <1>2, <2>a, <2>b, <2>5 DEF Typed, Worker, Entry, Gates, Ticks, Steps, Shape, Trip,
      Debts, Loop, Leaving, WorkerGate, TickGate, OnTick, Clear, OwedFrom, Kept
  <2> QED BY <2>1, <2>2, <2>3, <2>4, <2>5
<1> QED BY <1>1, <1>2

LEMMA TickKillsStep ==
  ASSUME AttemptInv, TickKills
  PROVE  AttemptInv'
<1> USE AttemptAssumption DEF AttemptInv, Stopped, Done, Active, Cards, Away, ghosts
<1>1. CASE tick.live
  <2>a. /\ w' = Unwound("cancelled") /\ gate' = [Ended EXCEPT !["tick"] = NoGate]
        /\ tick' = [tick EXCEPT !.pc = "ship", !.state = gate["tick"].cur]
        /\ en' = [en EXCEPT !.issue = gate["tick"].cur, !.cleanup = TRUE]
        /\ UNCHANGED <<card, pending, owed, ghosts, svc>>
        /\ tick.pc = "gate" /\ gate["tick"].pc = "passed"
    BY <1>1 DEF TickKills
  <2>b. /\ Unwound("cancelled") \in Worker /\ Unwound("cancelled").pc \in Leaving
        /\ w.pc \in Leaving => Unwound("cancelled") = w /\ gate'["worker"] = gate["worker"]
        /\ w.pc \notin Leaving => /\ Unwound("cancelled").pc = "leave"
                                  /\ gate'["worker"].pc = "off"
        /\ gate' \in Gates /\ gate'["tick"].pc = "off" /\ gate["tick"].cur \in Cards
    <3>1. Ended \in Gates /\ gate'["worker"] = Ended["worker"] /\ gate["tick"].cur \in Cards
      BY <2>a, Unwinds DEF Gates, Typed
    <3>2. gate' \in Gates /\ gate'["tick"].pc = "off"
      BY <2>a, <3>1 DEF Gates, NoGate, GateSteps
    <3> QED BY <3>1, <3>2, Unwinds
  <2>1. Typed'
    BY <1>1, <2>a, <2>b DEF Typed, Worker, Entry, Gates, Ticks, Steps, Leaving, Loop,
      GateSteps
  <2>2. GatesRun'
    BY <1>1, <2>a, <2>b DEF Typed, GatesRun, Debts
  <2>3. Shape'
    BY <1>1, <2>a, <2>b DEF Typed, Worker, Entry, Gates, Ticks, Steps, Shape, Loop, Leaving
  <2>4. ASSUME excused' = {}  PROVE Trip'
    BY <1>1, <2>a, <2>b, <2>4 DEF Typed, Worker, Entry, Gates, Ticks, Steps, Shape, Trip,
      Debts, Loop, Leaving, WorkerGate, TickGate, OnTick
  <2>5. ASSUME excused' = {}  PROVE Debts'
    BY <1>1, <2>a, <2>b, <2>5 DEF Typed, Worker, Entry, Gates, Ticks, Steps, Shape, Trip,
      Debts, Loop, Leaving, WorkerGate, TickGate, OnTick, Clear, OwedFrom, Kept
  <2> QED BY <2>1, <2>2, <2>3, <2>4, <2>5
<1>2. CASE ~tick.live
  <2>a. /\ gate' = [gate EXCEPT !["tick"] = NoGate]
        /\ tick' = [tick EXCEPT !.pc = "ship", !.state = gate["tick"].cur]
        /\ UNCHANGED <<card, pending, owed, ghosts, w, en, svc>>
        /\ tick.pc = "gate" /\ gate["tick"].pc = "passed"
    BY <1>2 DEF TickKills, EndGate
  <2>b. gate' \in Gates /\ gate'["tick"].pc = "off" /\ gate["tick"].cur \in Cards
    BY <2>a DEF Gates, NoGate, GateSteps, Typed
  <2>1. Typed'
    <3> DEFINE cur == gate["tick"].cur
    <3>1. tick' = [tick EXCEPT !.pc = "ship", !.state = cur] /\ cur \in Cards
      BY <2>a, <2>b
    <3> HIDE DEF cur
    <3>2. tick' \in Ticks
      BY <3>1 DEF Typed, Ticks
    <3> QED BY <3>2, <2>a, <2>b DEF Typed
  <2>2. GatesRun'
    BY <1>2, <2>a, <2>b DEF Typed, GatesRun, Debts
  <2>3. Shape'
    BY <1>2, <2>a, <2>b DEF Typed, Worker, Entry, Gates, Ticks, Steps, Shape, Loop, Leaving
  <2>4. ASSUME excused' = {}  PROVE Trip'
    BY <1>2, <2>a, <2>b, <2>4 DEF Typed, Worker, Entry, Gates, Ticks, Steps, Shape, Trip,
      Debts, Loop, Leaving, WorkerGate, TickGate, OnTick
  <2>5. ASSUME excused' = {}  PROVE Debts'
    BY <1>2, <2>a, <2>b, <2>5 DEF Typed, Worker, Entry, Gates, Ticks, Steps, Shape, Trip,
      Debts, Loop, Leaving, WorkerGate, TickGate, OnTick, Clear, OwedFrom, Kept
  <2> QED BY <2>1, <2>2, <2>3, <2>4, <2>5
<1> QED BY <1>1, <1>2

LEMMA StallCancelStep ==
  ASSUME AttemptInv, StallCancel
  PROVE  AttemptInv'
<1> USE AttemptAssumption DEF AttemptInv, Stopped, Done, Active, Cards, Away, ghosts
<1>a. /\ w' = Unwound("cancelled") /\ gate' = Ended /\ w.pc \notin Leaving
      /\ UNCHANGED <<card, pending, owed, ghosts, en, tick, svc>> /\ svc = "up" /\ en.in
  BY DEF StallCancel, TickReads
<1>b. /\ w' \in Worker /\ w'.pc = "leave"
      /\ gate' \in Gates /\ gate'["tick"] = gate["tick"] /\ gate'["worker"].pc = "off"
  BY <1>a, Unwinds
<1>1. Typed'
  BY <1>a, <1>b DEF Typed, Worker, Entry, Gates, Ticks, Steps, Leaving, Loop, GateSteps
<1>2. GatesRun'
  BY <1>a, <1>b DEF Typed, GatesRun, Debts
<1>3. Shape'
  BY <1>a, <1>b DEF Typed, Worker, Entry, Gates, Ticks, Steps, Shape, Loop, Leaving
<1>4. ASSUME excused' = {}  PROVE Trip'
  BY <1>a, <1>b, <1>4 DEF Typed, Worker, Entry, Gates, Ticks, Steps, Shape, Trip, Debts,
    Loop, Leaving, WorkerGate, TickGate, OnTick
<1>5. ASSUME excused' = {}  PROVE Debts'
  BY <1>a, <1>b, <1>5 DEF Typed, Worker, Entry, Gates, Ticks, Steps, Shape, Trip, Debts,
    Loop, Leaving, WorkerGate, TickGate, OnTick, Clear, OwedFrom, Kept
<1> QED BY <1>1, <1>2, <1>3, <1>4, <1>5

LEMMA StopStep ==
  ASSUME AttemptInv, Stop
  PROVE  AttemptInv'
<1> USE AttemptAssumption DEF AttemptInv, Stopped, Done, Active, Cards, Away, ghosts
<1>a. /\ w' = Unwound("shutdown") /\ gate' = [Ended EXCEPT !["tick"] = NoGate]
      /\ UNCHANGED <<card, pending, owed, ghosts, en>> /\ svc' = "stopping" /\ svc = "up"
      /\ tick' = [pc |-> "idle", live |-> FALSE, state |-> 0]
  BY DEF Stop, NoTick
<1>b. /\ w' \in Worker /\ w'.pc \in Leaving
      /\ w.pc \in Leaving => w' = w /\ gate'["worker"] = gate["worker"]
      /\ w.pc \notin Leaving => w'.pc = "leave" /\ gate'["worker"].pc = "off"
  <2>1. Ended \in Gates /\ gate'["worker"] = Ended["worker"]
    BY <1>a, Unwinds DEF Gates
  <2> QED BY <1>a, <2>1, Unwinds
<1>c. gate' \in Gates /\ gate'["tick"].pc = "off"
  BY <1>a, Unwinds DEF Gates, NoGate, GateSteps
<1>1. Typed'
  BY <1>a, <1>b, <1>c DEF Typed, Worker, Entry, Gates, Ticks, Steps, Leaving, Loop,
    GateSteps
<1>2. GatesRun'
  BY <1>a, <1>b, <1>c DEF Typed, GatesRun, Debts
<1>3. Shape'
  BY <1>a, <1>b, <1>c DEF Typed, Worker, Entry, Gates, Ticks, Steps, Shape, Loop, Leaving
<1>4. ASSUME excused' = {}  PROVE Trip'
  BY <1>a, <1>b, <1>c, <1>4 DEF Typed, Worker, Entry, Gates, Ticks, Steps, Shape, Trip,
    Debts, Loop, Leaving, WorkerGate, TickGate, OnTick
<1>5. ASSUME excused' = {}  PROVE Debts'
  BY <1>a, <1>b, <1>c, <1>5 DEF Typed, Worker, Entry, Gates, Ticks, Steps, Shape, Trip,
    Debts, Loop, Leaving, WorkerGate, TickGate, OnTick, Clear, OwedFrom, Kept
<1> QED BY <1>1, <1>2, <1>3, <1>4, <1>5

LEMMA StartupStep ==
  ASSUME AttemptInv, Startup
  PROVE  AttemptInv'
<1> USE AttemptAssumption DEF AttemptInv, Stopped, Done, Active, Cards, Away, ghosts,
  Startup, Ship, ShipFails, Fault, Crossed
<1>1. Typed'
  BY DEF Typed, Worker, Entry, Gates, Ticks, Steps, Leaving, Loop, GateSteps
<1>2. GatesRun'
  <2>1. CASE debt' = debt
    BY <2>1 DEF GatesRun
  <2>2. CASE debt' # debt
    <3>1. card = Done /\ Crossed(pending, Done) = {} /\ debt' = owed /\ excused' = excused
      BY <2>2 DEF Startup, Ship, ShipFails
    <3>2. ASSUME excused = {}, NEW l \in owed  PROVE FALSE
      <4>1. l \in Gated /\ l \in 1..N /\ pending # 0 /\ pending <= l /\ pending \in 1..N
        BY <3>1, <3>2 DEF Typed, Debts, Kept, Shape
      <4>2. l \in Crossed(pending, Done)
        BY <4>1 DEF Crossed
      <4> QED BY <3>1, <4>2
    <3> QED BY <3>1, <3>2 DEF GatesRun
  <2> QED BY <2>1, <2>2
<1>3. Shape'
  BY DEF Typed, Worker, Entry, Gates, Ticks, Steps, Shape, Loop, Leaving
<1>4. ASSUME excused' = {}  PROVE Trip'
  BY <1>4 DEF Typed, Worker, Entry, Gates, Ticks, Steps, Shape, Trip, Debts, Loop, Leaving,
    WorkerGate, TickGate, OnTick
<1>5. ASSUME excused' = {}  PROVE Debts'
  BY <1>5 DEF Typed, Worker, Entry, Gates, Ticks, Steps, Shape, Trip, Debts, Loop, Leaving,
    WorkerGate, TickGate, OnTick, Clear, OwedFrom, Kept
<1> QED BY <1>1, <1>2, <1>3, <1>4, <1>5

LEMMA PhaseGatedStep ==
  ASSUME AttemptInv, PhaseGated
  PROVE  AttemptInv'
<1> USE AttemptAssumption DEF AttemptInv, Stopped, Done, Active, Cards, Away, ghosts,
  PhaseGated, Returned, EndGate, NoGate
<1>1. Typed'
  <2>1. w' \in Worker
    <3>1. gate["worker"].cur \in Cards
      BY DEF Typed, Gates
    <3> QED BY <3>1, WorkerMoves DEF Typed, Steps, Loop
  <2> QED BY <2>1 DEF Typed, Worker, Entry, Gates, Ticks, Steps, Leaving, Loop, GateSteps
<1>2. GatesRun'
  BY DEF Typed, GatesRun, Debts
<1>3. Shape'
  BY DEF Typed, Worker, Entry, Gates, Ticks, Steps, Shape, Loop, Leaving
<1>4. ASSUME excused' = {}  PROVE Trip'
  BY <1>4 DEF Typed, Worker, Entry, Gates, Ticks, Steps, Shape, Trip, Debts, Loop, Leaving,
    WorkerGate, TickGate, OnTick
<1>5. ASSUME excused' = {}  PROVE Debts'
  BY <1>5 DEF Typed, Worker, Entry, Gates, Ticks, Steps, Shape, Trip, Debts, Loop, Leaving,
    WorkerGate, TickGate, OnTick, Clear, OwedFrom, Kept
<1> QED BY <1>1, <1>2, <1>3, <1>4, <1>5

LEMMA CountTurnStep ==
  ASSUME AttemptInv, CountTurn
  PROVE  AttemptInv'
<1> USE AttemptAssumption DEF AttemptInv, Stopped, Done, Active, Cards, Away, ghosts,
  CountTurn
<1>1. Typed'
  <2>1. w' \in Worker
    BY WorkerMoves DEF Typed, Steps, Loop, Leaving
  <2> QED BY <2>1 DEF Typed, Worker, Entry, Gates, Ticks, Steps, Leaving, Loop, GateSteps
<1>2. GatesRun'
  BY DEF Typed, GatesRun, Debts
<1>3. Shape'
  BY DEF Typed, Worker, Entry, Gates, Ticks, Steps, Shape, Loop, Leaving
<1>4. ASSUME excused' = {}  PROVE Trip'
  BY <1>4 DEF Typed, Worker, Entry, Gates, Ticks, Steps, Shape, Trip, Debts, Loop, Leaving,
    WorkerGate, TickGate, OnTick
<1>5. ASSUME excused' = {}  PROVE Debts'
  BY <1>5 DEF Typed, Worker, Entry, Gates, Ticks, Steps, Shape, Trip, Debts, Loop, Leaving,
    WorkerGate, TickGate, OnTick, Clear, OwedFrom, Kept
<1> QED BY <1>1, <1>2, <1>3, <1>4, <1>5

LEMMA DispatchStep ==
  ASSUME AttemptInv, Dispatch
  PROVE  AttemptInv'
<1> USE AttemptAssumption DEF AttemptInv, Stopped, Done, Active, Cards, Away, ghosts,
  Dispatch, Excuse, NoWorker, NoEntry
<1>1. Typed'
  <2>1. NoWorker \in Worker /\ NoEntry \in Entry
    BY DEF NoWorker, NoEntry, Worker, Entry, Steps, Leaving
  <2>2. card \in Cards /\ "recover" \in Steps
    BY DEF Typed, Steps, Loop
  <2>3. w' \in Worker
    BY <2>1, <2>2, WorkerMoves
  <2>4. en' \in Entry
    <3> HIDE DEF NoEntry
    <3> QED BY <2>1, <2>2 DEF Entry
  <2> QED BY <2>3, <2>4 DEF Typed, Ticks
<1>2. GatesRun'
  BY DEF Typed, GatesRun, Debts
<1>3. Shape'
  BY DEF Typed, Worker, Entry, Gates, Ticks, Steps, Shape, Loop, Leaving
<1>4. ASSUME excused' = {}  PROVE Trip'
  BY <1>4 DEF Typed, Worker, Entry, Gates, Ticks, Steps, Shape, Trip, Debts, Loop, Leaving,
    WorkerGate, TickGate, OnTick
<1>5. ASSUME excused' = {}  PROVE Debts'
  BY <1>5 DEF Typed, Worker, Entry, Gates, Ticks, Steps, Shape, Trip, Debts, Loop, Leaving,
    WorkerGate, TickGate, OnTick, Clear, OwedFrom, Kept
<1> QED BY <1>1, <1>2, <1>3, <1>4, <1>5

LEMMA LoopTopStep ==
  ASSUME AttemptInv, LoopTop
  PROVE  AttemptInv'
<1> USE AttemptAssumption DEF AttemptInv, Stopped, Done, Active, Cards, Away, ghosts,
  LoopTop, Remembered, GatesFrom, Crossed
<1>1. Typed'
  <2>1. w' \in Worker
    <3>1. w \in Worker /\ w.seen \in Cards
      BY DEF Typed, Worker
    <3> QED BY <3>1, WorkerMoves DEF Steps, Loop, Leaving
  <2> QED BY <2>1 DEF Typed, Worker, Entry, Gates, Ticks, Steps, Leaving, Loop, GateSteps
<1>2. GatesRun'
  BY DEF Typed, GatesRun, Debts
<1>3. Shape'
  BY DEF Typed, Worker, Entry, Gates, Ticks, Steps, Shape, Loop, Leaving
<1>4. ASSUME excused' = {}  PROVE Trip'
  BY <1>4 DEF Typed, Worker, Entry, Gates, Ticks, Steps, Shape, Trip, Debts, Loop, Leaving,
    WorkerGate, TickGate, OnTick
<1>5. ASSUME excused' = {}  PROVE Debts'
  BY <1>5 DEF Typed, Worker, Entry, Gates, Ticks, Steps, Shape, Trip, Debts, Loop, Leaving,
    WorkerGate, TickGate, OnTick, Clear, OwedFrom, Kept
<1> QED BY <1>1, <1>2, <1>3, <1>4, <1>5

LEMMA DoneGatedStep ==
  ASSUME AttemptInv, DoneGated
  PROVE  AttemptInv'
<1> USE AttemptAssumption DEF AttemptInv, Stopped, Done, Active, Cards, Away, ghosts,
  DoneGated, Returned, EndGate, NoGate
<1>1. Typed'
  <2> DEFINE back == gate["worker"].pc = "rewound"
             over == back /\ dbg.rewinds + 1 > MaxAttempts
             now  == IF over THEN Stopped ELSE gate["worker"].cur
             next == IF back \/ now \notin Active THEN "leave" ELSE "count"
  <2>1. now \in Cards /\ next \in Steps
    BY DEF Typed, Gates, Steps, Loop, Leaving
  <2>2. w' = [w EXCEPT !.seen = now, !.pc = next] /\ en' = [en EXCEPT !.issue = now]
    BY DEF DoneGated
  <2> HIDE DEF now, next
  <2>3. w' \in Worker
    <3> w \in Worker
      BY DEF Typed
    <3> HIDE DEF AttemptInv, DoneGated
    <3> QED BY <2>1, <2>2, WorkerMoves
  <2>4. en' \in Entry
    BY <2>1, <2>2 DEF Typed, Entry
  <2> QED BY <2>3, <2>4 DEF Typed, Worker, Entry, Gates, Ticks, Steps, Leaving, Loop,
    GateSteps
<1>2. GatesRun'
  BY DEF Typed, GatesRun, Debts
<1>3. Shape'
  BY DEF Typed, Worker, Entry, Gates, Ticks, Steps, Shape, Loop, Leaving
<1>4. ASSUME excused' = {}  PROVE Trip'
  BY <1>4 DEF Typed, Worker, Entry, Gates, Ticks, Steps, Shape, Trip, Debts, Loop, Leaving,
    WorkerGate, TickGate, OnTick
<1>5. ASSUME excused' = {}  PROVE Debts'
  BY <1>5 DEF Typed, Worker, Entry, Gates, Ticks, Steps, Shape, Trip, Debts, Loop, Leaving,
    WorkerGate, TickGate, OnTick, Clear, OwedFrom, Kept
<1> QED BY <1>1, <1>2, <1>3, <1>4, <1>5

LEMMA GateRewindStep ==
  ASSUME AttemptInv, NEW a \in {"worker", "tick"}, GateRewind(a)
  PROVE  AttemptInv'
<1> USE AttemptAssumption DEF AttemptInv, Stopped, Done, Active, Cards, Away, ghosts,
  GateRewind, Seen
<1>1. Typed'
  BY DEF Typed, Worker, Entry, Gates, Ticks, Steps, Leaving, Loop, GateSteps
<1>2. GatesRun'
  BY DEF Typed, GatesRun, Debts
<1>3. Shape'
  BY DEF Typed, Worker, Entry, Gates, Ticks, Steps, Shape, Loop, Leaving
<1>4. ASSUME excused' = {}  PROVE Trip'
  BY <1>4 DEF Typed, Worker, Entry, Gates, Ticks, Steps, Shape, Trip, Debts, Loop, Leaving,
    WorkerGate, TickGate, OnTick
<1>5. ASSUME excused' = {}  PROVE Debts'
  BY <1>5 DEF Typed, Worker, Entry, Gates, Ticks, Steps, Shape, Trip, Debts, Loop, Leaving,
    WorkerGate, TickGate, OnTick, Clear, OwedFrom, Kept
<1> QED BY <1>1, <1>2, <1>3, <1>4, <1>5

LEMMA GatePassStep ==
  ASSUME AttemptInv, NEW a \in {"worker", "tick"}, GatePass(a)
  PROVE  AttemptInv'
<1> USE AttemptAssumption DEF AttemptInv, Stopped, Done, Active, Cards, Away, ghosts,
  GatePass, Crossed
<1>1. Typed'
  BY DEF Typed, Worker, Entry, Gates, Ticks, Steps, Leaving, Loop, GateSteps
<1>2. GatesRun'
  BY DEF Typed, GatesRun, Debts
<1>3. Shape'
  BY DEF Typed, Worker, Entry, Gates, Ticks, Steps, Shape, Loop, Leaving
<1>4. ASSUME excused' = {}  PROVE Trip'
  BY <1>4 DEF Typed, Worker, Entry, Gates, Ticks, Steps, Shape, Trip, Debts, Loop, Leaving,
    WorkerGate, TickGate, OnTick
<1>5. ASSUME excused' = {}  PROVE Debts'
  <2>1. CASE a = "worker"
    BY <1>5, <2>1 DEF Typed, Worker, Entry, Gates, Ticks, Steps, Shape, Trip, Debts, Loop,
      Leaving, WorkerGate, TickGate, OnTick, Clear, OwedFrom, Kept
  <2>2. CASE a = "tick"
    BY <1>5, <2>2 DEF Typed, Worker, Entry, Gates, Ticks, Steps, Shape, Trip, Debts, Loop,
      Leaving, WorkerGate, TickGate, OnTick, Clear, OwedFrom, Kept
  <2> QED BY <2>1, <2>2
<1> QED BY <1>1, <1>2, <1>3, <1>4, <1>5

(* A refresh that fails while the card has moved is an excuse.             *)
LEMMA GateRefreshStep ==
  ASSUME AttemptInv, NEW a \in {"worker", "tick"}, GateRefresh(a)
  PROVE  AttemptInv'
<1> USE AttemptAssumption DEF AttemptInv, Stopped, Done, Active, Cards, Away, ghosts
<1>0. PICK got \in {card, gate[a].cur}, pc \in {"run", "contract"} :
        /\ gate' = [gate EXCEPT ![a].cur = got, ![a].pc = pc]
        /\ pc = IF RunsCommands(gate[a].from, got) THEN "run" ELSE "contract"
        /\ en' = IF got = card THEN Seen(card) ELSE en
        /\ excused' = Excuse(got # card, "stale")
  BY DEF GateRefresh
<1>a. /\ gate[a].pc = "refresh" /\ a \in DOMAIN gate /\ got \in Cards
      /\ UNCHANGED <<card, pending, owed, work, debt, w, tick, hold, svc>>
  BY <1>0 DEF GateRefresh, Typed, Gates
<1>b. /\ got # card => excused' # {}
      /\ got = card => excused' = excused
  BY <1>0 DEF Excuse
<1> HIDE DEF GateRefresh
<1>c. gate' \in Gates
  BY <1>0, <1>a DEF Typed, Gates, GateSteps
<1>d. /\ gate'[a].pc = pc /\ gate'[a].cur = got /\ gate'[a].from = gate[a].from
      /\ \A b \in {"worker", "tick"} \ {a} : gate'[b] = gate[b]
  BY <1>0, <1>a DEF Typed, Gates
<1>e. /\ en' \in Entry /\ en'.in = en.in /\ en'.at = en.at /\ en'.cleanup = en.cleanup
      /\ en'.turns = en.turns /\ en'.why = en.why
      /\ got = card /\ en.in => en'.issue = card
      /\ got # card \/ ~en.in => en'.issue = en.issue
  BY <1>0, <1>a DEF Typed, Entry, Seen
<1>1. Typed'
  BY <1>a, <1>c, <1>e DEF Typed
<1>2. GatesRun'
  BY <1>a, <1>b DEF Typed, GatesRun, Debts
<1>f. \A b \in {"worker", "tick"} :
        /\ gate'[b].from = gate[b].from
        /\ gate'[b].pc # "off" <=> gate[b].pc # "off"
        /\ b # a => gate'[b] = gate[b]
  BY <1>0, <1>a, <1>d
<1>3. Shape'
  BY <1>a, <1>e, <1>f DEF Shape
<1>4. ASSUME excused' = {}
      PROVE  got = card /\ excused = {} /\ (en.in => en'.issue = card)
  BY <1>b, <1>e, <1>4
<1>5. ASSUME excused' = {}  PROVE Trip'
  <2>1. Trip /\ (w.pc \in Loop => en.in)
    BY <1>4, <1>5 DEF Shape
  <2>2. /\ gate'[a].cur = card /\ gate[a].pc = "refresh" /\ gate'[a].pc \in {"run", "contract"}
        /\ w.pc \in Loop => en'.issue = card
    BY <1>0, <1>4, <1>5, <1>a, <1>d, <2>1
  <2> HIDE DEF AttemptInv, Done, Active, Cards, Away
  <2>3. CASE a = "worker"
    BY <1>a, <1>e, <1>f, <2>1, <2>2, <2>3 DEF Trip, WorkerGate, TickGate, OnTick
  <2>4. CASE a = "tick"
    BY <1>a, <1>e, <1>f, <2>1, <2>2, <2>4 DEF Trip, WorkerGate, TickGate, OnTick
  <2> QED BY <2>3, <2>4
<1>6. ASSUME excused' = {}  PROVE Debts'
  <2> DEFINE from == gate[a].from
  <2>1. Trip /\ Debts
    BY <1>4, <1>6
  <2>2. /\ gate[a].pc = "refresh" /\ gate'[a].pc = pc /\ gate'[a].cur = card
        /\ pc = IF RunsCommands(from, card) THEN "run" ELSE "contract"
    BY <1>0, <1>4, <1>6, <1>a, <1>d
  <2>3. from \in Active
    BY <2>1, <2>2 DEF Debts
  <2>4. OwedFrom(from)
    <3>1. CASE a = "worker"
      <4>1. w.pc \in {"recovering", "gate", "donegate", "exitgate"}
        BY <2>2, <3>1 DEF Shape
      <4>2. w.pc # "recovering" => en.at # 0 /\ w.pc \notin Away /\ from = en.at
        BY <2>1, <3>1, <4>1 DEF Trip, WorkerGate
      <4> QED BY <2>1, <3>1, <4>1, <4>2 DEF Debts, WorkerGate
    <3>2. CASE a = "tick"
      BY <2>1, <2>2, <3>2 DEF Debts, TickGate, OnTick
    <3> QED BY <3>1, <3>2
  <2>5. pc = "run" => from < card
    BY <2>2, <2>3 DEF RunsCommands, IsRewind, Typed
  <2>6. pc = "contract" => Clear(card)
    <3>1. ~GatesFrom(from) => owed = {}
      BY <2>3, <2>4 DEF GatesFrom, Crossed, OwedFrom, Typed
    <3>2. card # Stopped /\ (card = from \/ card < from) => Clear(card)
      BY <2>3, <2>4 DEF OwedFrom, Clear, Typed
    <3> QED BY <2>2, <3>1, <3>2 DEF RunsCommands, IsRewind, Clear
  <2>7. (w.pc \in {"recovering", "gate"} => card \in Active) /\ card <= card
    BY <2>1 DEF Trip, Loop, Typed
  <2> HIDE DEF AttemptInv, Done, Away, from
  <2>8. ASSUME NEW b \in {"worker", "tick"}
        PROVE  /\ gate'[b].pc = "run" => card <= gate'[b].cur /\ gate'[b].from < gate'[b].cur
               /\ gate'[b].pc \in {"contract", "passed"} => Clear(card)
               /\ gate'[b].pc \in {"refresh", "run", "contract", "passed", "rewind", "rewound"} =>
                    gate'[b].from \in Active
    <3>1. CASE b = a
      BY <1>0, <1>f, <2>2, <2>3, <2>5, <2>6, <2>7, <3>1 DEF from
    <3>2. CASE b # a
      <4>1. gate'[b] = gate[b]
        BY <1>f, <3>2
      <4> QED BY <2>1, <4>1 DEF Debts
    <3> QED BY <3>1, <3>2
  <2>9. UNCHANGED <<card, pending, owed, w, tick, svc, en.at, en.cleanup>>
    BY <1>a, <1>e
  <2>10. /\ OnTick' => OwedFrom(TickGate'.from)
         /\ w.pc = "recovering" => OwedFrom(WorkerGate'.from)
    BY <1>a, <1>f, <2>1, <2>2, <2>4, <1>d DEF Debts, OnTick, TickGate, WorkerGate, from
  <2>11. /\ w.pc \in {"recovering", "gate"} /\ WorkerGate'.pc \in {"contract", "passed", "rewound"} =>
              OwedFrom(card)
         /\ w.pc = "exitgate" /\ WorkerGate'.pc = "rewound" => Clear(card)
    <3>1. CASE a = "worker"
      BY <1>0, <2>2, <2>6, <2>7, <3>1 DEF Clear, OwedFrom, WorkerGate
    <3>2. CASE a = "tick"
      BY <1>f, <2>1, <3>2 DEF Debts, WorkerGate
    <3> QED BY <3>1, <3>2
  <2> QED BY <2>1, <2>8, <2>9, <2>10, <2>11 DEF Debts, Kept, Clear, OwedFrom
<1> QED BY <1>1, <1>2, <1>3, <1>5, <1>6

USE AttemptAssumption DEF Typed, Worker, Entry, Gates, Ticks, Steps, Leaving, Loop,
  GateSteps, Shape, Trip, Debts, WorkerGate, TickGate, OnTick, Clear, OwedFrom, Kept,
  GatesRun, AttemptInv, Stopped, Done, Active, Cards, Away, ghosts

-----------------------------------------------------------------------------
(* Every step keeps the invariant; those below need its definitions only.  *)

LEMMA RecoveredStep ==
  ASSUME AttemptInv, Recovered
  PROVE  AttemptInv'
<1> USE DEF Recovered, Returned, EndGate, NoGate
<1>1. Typed'
  <2>1. w' \in Worker
    <3>1. gate["worker"].cur \in Cards
      OBVIOUS
    <3> QED BY <3>1, WorkerMoves
  <2> QED BY <2>1
<1>2. Shape' /\ GatesRun'
  OBVIOUS
<1>3. excused' = {} => Trip' /\ Debts'
  OBVIOUS
<1> QED BY <1>1, <1>2, <1>3

LEMMA TurnOkStep ==
  ASSUME AttemptInv, TurnOk
  PROVE  AttemptInv'
<1> USE DEF TurnOk
<1>1. Typed'
  <2>1. w \in Worker /\ w.cur \in Cards
    OBVIOUS
  <2>2. w' \in Worker
    BY <2>1, WorkerMoves
  <2> QED BY <2>2
<1>2. Shape' /\ GatesRun'
  OBVIOUS
<1>3. excused' = {} => Trip' /\ Debts'
  OBVIOUS
<1> QED BY <1>1, <1>2, <1>3

LEMMA OperatorMovesStep ==
  ASSUME AttemptInv, NEW to \in Cards, OperatorMoves(to)
  PROVE  AttemptInv'
<1> USE DEF OperatorMoves, Waived, Excuse
<1>1. Typed'
  <2>1. owed' \subseteq owed
    BY DEF OperatorMoves, Waived
  <2>2. owed' \subseteq Gated
    BY <2>1
  <2>3. card' \in Cards /\ UNCHANGED <<pending, w, en, gate, tick, svc>>
    BY DEF OperatorMoves
  <2> QED BY <2>2, <2>3
<1>2. Shape' /\ GatesRun'
  OBVIOUS
<1>3. excused' = {} => Trip' /\ Debts'
  OBVIOUS
<1> QED BY <1>1, <1>2, <1>3

LEMMA PopEntryStep ==
  ASSUME AttemptInv, PopEntry
  PROVE  AttemptInv'
<1> USE DEF PopEntry, Go
<1>1. Typed'
  OBVIOUS
<1>2. Shape' /\ GatesRun'
  OBVIOUS
<1>3. excused' = {} => Trip' /\ Debts'
  OBVIOUS
<1> QED BY <1>1, <1>2, <1>3

(* Only the operator moves the card of a held worker.                      *)
LEMMA ResumedStep ==
  ASSUME AttemptInv, Resumed
  PROVE  AttemptInv'
<1>0. PICK got \in {card, w.seen} :
        /\ w' = [w EXCEPT !.pc = "loop", !.seen = got]
        /\ en' = IF got = card THEN [en EXCEPT !.issue = card] ELSE en
  BY DEF Resumed
<1>a. /\ w.pc = "held" /\ got \in Cards
      /\ UNCHANGED <<card, pending, owed, ghosts, gate, tick, svc>>
  BY <1>0 DEF Resumed
<1>1. Typed'
  <2>1. w' \in Worker
    BY <1>0, <1>a, WorkerMoves
  <2> QED BY <1>0, <1>a, <2>1
<1>2. Shape' /\ GatesRun'
  BY <1>0, <1>a
<1>3. excused' = {} => got = card
  BY <1>0, <1>a
<1>4. excused' = {} => Trip'
  BY <1>0, <1>a, <1>3
<1>5. excused' = {} => Debts'
  BY <1>0, <1>a, <1>3
<1> QED BY <1>1, <1>2, <1>4, <1>5

LEMMA AgentMovesStep ==
  ASSUME AttemptInv, NEW to \in Cards, AgentMoves(to)
  PROVE  AttemptInv'
<1> USE DEF AgentMoves, Go, Excuse
<1>1. Typed'
  OBVIOUS
<1>2. Shape' /\ GatesRun'
  OBVIOUS
<1>3. excused' = {} => Trip' /\ Debts'
  OBVIOUS
<1> QED BY <1>1, <1>2, <1>3

LEMMA OpenSessionStep ==
  ASSUME AttemptInv, OpenSession
  PROVE  AttemptInv'
<1> USE DEF OpenSession
<1>1. Typed'
  OBVIOUS
<1>2. Shape' /\ GatesRun'
  OBVIOUS
<1>3. excused' = {} => Trip' /\ Debts'
  OBVIOUS
<1> QED BY <1>1, <1>2, <1>3

LEMMA SetupFailsStep ==
  ASSUME AttemptInv, SetupFails
  PROVE  AttemptInv'
<1> USE DEF SetupFails, Leave, Fault
<1>1. Typed'
  OBVIOUS
<1>2. Shape' /\ GatesRun'
  OBVIOUS
<1>3. excused' = {} => Trip' /\ Debts'
  OBVIOUS
<1> QED BY <1>1, <1>2, <1>3

LEMMA StartTurnStep ==
  ASSUME AttemptInv, StartTurn
  PROVE  AttemptInv'
<1> USE DEF StartTurn, Go, Owing
<1>1. Typed'
  OBVIOUS
<1>2. Shape' /\ GatesRun'
  OBVIOUS
<1>3. excused' = {} => Trip' /\ Debts'
  OBVIOUS
<1> QED BY <1>1, <1>2, <1>3

LEMMA TurnErrorStep ==
  ASSUME AttemptInv, TurnError
  PROVE  AttemptInv'
<1> USE DEF TurnError, Leave, Fault
<1>1. Typed'
  OBVIOUS
<1>2. Shape' /\ GatesRun'
  OBVIOUS
<1>3. excused' = {} => Trip' /\ Debts'
  OBVIOUS
<1> QED BY <1>1, <1>2, <1>3

LEMMA TickShipsStep ==
  ASSUME AttemptInv, TickShips
  PROVE  AttemptInv'
<1> USE DEF TickShips, Ship, ShipFails, Fault, NoTick
<1>1. Typed'
  OBVIOUS
<1>2. Shape'
  OBVIOUS
<1>3. GatesRun'
  OBVIOUS
<1>4. excused' = {} => Trip' /\ Debts'
  OBVIOUS
<1> QED BY <1>1, <1>2, <1>3, <1>4

(* An exit that cannot read a card that has moved is excused; one that can *)
(* gates what its last turn owes.                                          *)
LEMMA AskExitGateStep ==
  ASSUME AttemptInv, AskExitGate
  PROVE  AttemptInv'
<1>0. PICK got \in {card, en.issue} :
        /\ en' = [en EXCEPT !.issue = got]
        /\ excused' = Excuse(got # card, "stale")
        /\ IF MovedOn(en.at, got)
           THEN EnterGate("worker", en.at, got) /\ Go("exitgate")
           ELSE Go("mark") /\ UNCHANGED gate
  BY DEF AskExitGate
<1>a. /\ w.pc = "ask" /\ GatesExit /\ got \in Cards
      /\ UNCHANGED <<card, pending, owed, work, debt, tick, svc>>
  BY <1>0 DEF AskExitGate
<1>b. /\ got # card => excused' # {}
      /\ got = card => excused' = excused
  BY <1>0 DEF Excuse
<1>1. Typed'
  BY <1>0, <1>a DEF EnterGate, Go
<1>2. Shape' /\ GatesRun'
  BY <1>0, <1>a, <1>b DEF EnterGate, Go
<1>3. excused' = {} => got = card
  BY <1>b
<1>4. excused' = {} => Trip' /\ Debts'
  BY <1>0, <1>a, <1>b, <1>3 DEF GatesExit, MovedOn, GatesFrom, Crossed, IsRewind, EnterGate, Go
<1> QED BY <1>1, <1>2, <1>4

(* A worker's exit: the gate it still has to face, then what the exit does.*)
LEMMA ExitStepKeeps ==
  ASSUME AttemptInv, ExitStep
  PROVE  AttemptInv'
<1>1. CASE PopEntry
  BY <1>1, PopEntryStep
<1>2. CASE AskExitGate
  BY <1>2, AskExitGateStep
<1>3. CASE ExitGated
  BY <1>3 DEF ExitGated, Returned, EndGate, NoGate, Go
<1>4. CASE MarkExit
  BY <1>4 DEF MarkExit, Go, Excuse, Forgotten, Remembered, GatesFrom, Crossed, Fault
<1>5. CASE ExitError
  BY <1>5 DEF ExitError, Account, Released, NoWorker, Fault
<1>6. CASE ExitQuietly
  BY <1>6 DEF ExitQuietly, Account, Released, NoWorker
<1>7. CASE ExitNoStage
  BY <1>7 DEF ExitNoStage, Stops, NormalExit, Account, Released, NoWorker
<1>8. CASE ExitSpent
  BY <1>8 DEF ExitSpent, Stops, NormalExit, Account, Released, NoWorker
<1>9. CASE ExitDone
  BY <1>9 DEF ExitDone, Finalize, NormalExit, Ship, ShipFails, Fault, Account, Released,
    NoWorker
<1>10. CASE ExitMaxTurns
  BY <1>10 DEF ExitMaxTurns, Finalize, NormalExit, Account, Released, NoWorker
<1>11. CASE ExitContinue
  BY <1>11 DEF ExitContinue, Finalize, NormalExit, Account, Released, NoWorker
<1>12. CASE Settled
  BY <1>12 DEF Settled, NoWorker
<1>13. CASE LeaveUngated
  BY <1>13 DEF LeaveUngated, GatesExit, GatesFrom, Crossed, Go
<1> QED BY <1>1, <1>2, <1>3, <1>4, <1>5, <1>6, <1>7, <1>8, <1>9, <1>10, <1>11, <1>12,
  <1>13 DEF ExitStep

(* The tick, which reads the card while the worker runs.                   *)
LEMMA TickStepKeeps ==
  ASSUME AttemptInv, TickStep
  PROVE  AttemptInv'
<1>1. CASE TickActive
  BY <1>1 DEF TickActive, TickReads
<1>2. CASE TickTerminal
  BY <1>2, TickTerminalStep
<1>3. CASE TickRewound
  BY <1>3 DEF TickRewound, NoTick, EndGate, NoGate
<1>4. CASE TickKills
  BY <1>4, TickKillsStep
<1>5. CASE TickShips
  BY <1>5, TickShipsStep
<1>6. CASE StallCancel
  BY <1>6, StallCancelStep
<1>7. CASE ForceEject
  BY <1>7 DEF ForceEject, NoWorker, NoEntry, Excuse, Unrecorded, Fault
<1> QED BY <1>1, <1>2, <1>3, <1>4, <1>5, <1>6, <1>7 DEF TickStep

(* The worker's turns and gates.                                           *)
LEMMA WorkerStepKeeps ==
  ASSUME AttemptInv, WorkerStep
  PROVE  AttemptInv'
<1>1. CASE Dispatch
  BY <1>1, DispatchStep
<1>2. CASE RecoverGate
  BY <1>2 DEF RecoverGate, Go, EnterGate, Crossed
<1>3. CASE Recovered
  BY <1>3, RecoveredStep
<1>4. CASE OpenSession
  BY <1>4, OpenSessionStep
<1>5. CASE PauseGate
  BY <1>5 DEF PauseGate, Go
<1>6. CASE Resumed
  BY <1>6, ResumedStep
<1>7. CASE LoopTop
  BY <1>7, LoopTopStep
<1>8. CASE Transition
  BY <1>8 DEF Transition, EnterGate, Go, Checked, GatesFrom, Crossed, IsRewind
<1>9. CASE PhaseGated
  BY <1>9, PhaseGatedStep
<1>10. CASE CountRewind
  BY <1>10 DEF CountRewind, Go
<1>11. CASE Rebuild
  BY <1>11 DEF Rebuild, Go
<1>12. CASE SetupFails
  BY <1>12, SetupFailsStep
<1>13. CASE StartTurn
  BY <1>13, StartTurnStep
<1>14. CASE TurnOk
  BY <1>14, TurnOkStep
<1>15. CASE TurnError
  BY <1>15, TurnErrorStep
<1>16. CASE Result
  BY <1>16, ResultStep
<1>17. CASE DoneGated
  BY <1>17, DoneGatedStep
<1>18. CASE CountTurn
  BY <1>18, CountTurnStep
<1>19. ASSUME NEW to \in Cards, AgentMoves(to) PROVE AttemptInv'
  BY <1>19, AgentMovesStep
<1> QED BY <1>1, <1>2, <1>3, <1>4, <1>5, <1>6, <1>7, <1>8, <1>9, <1>10, <1>11, <1>12, <1>13,
  <1>14, <1>15, <1>16, <1>17, <1>18, <1>19 DEF WorkerStep

(* The service and the operator.                                           *)
LEMMA ServiceStepKeeps ==
  ASSUME AttemptInv, ServiceStep
  PROVE  AttemptInv'
<1>1. CASE Stop
  BY <1>1, StopStep
<1>2. CASE Drained
  BY <1>2 DEF Drained
<1>3. CASE Crash
  BY <1>3 DEF Crash, NoWorker, NoEntry, NoTick, NoGate, Excuse, Unrecorded
<1>4. CASE Startup
  BY <1>4, StartupStep
<1>5. CASE OperatorHolds
  BY <1>5 DEF OperatorHolds
<1>6. ASSUME NEW to \in Cards, OperatorMoves(to) PROVE AttemptInv'
  BY <1>6, OperatorMovesStep
<1> QED BY <1>1, <1>2, <1>3, <1>4, <1>5, <1>6 DEF ServiceStep

(* An evaluation, the worker's or the tick's.                              *)
LEMMA GateStepKeeps ==
  ASSUME AttemptInv, NEW a \in {"worker", "tick"}, GateStep(a)
  PROVE  AttemptInv'
<1>1. CASE GateRefresh(a)
  BY <1>1, GateRefreshStep
<1>2. CASE GatePass(a)
  BY <1>2, GatePassStep
<1>3. CASE GateFail(a)
  BY <1>3 DEF GateFail, Crossed, Fault
<1>4. CASE GateContract(a)
  BY <1>4 DEF GateContract
<1>5. CASE ContractFails(a)
  BY <1>5 DEF ContractFails, Fault
<1>6. CASE GateRewind(a)
  BY <1>6, GateRewindStep
<1> QED BY <1>1, <1>2, <1>3, <1>4, <1>5, <1>6 DEF GateStep

HIDE DEF Typed, Worker, Entry, Gates, Ticks, Steps, Leaving, Loop, GateSteps, Shape, Trip,
  Debts, WorkerGate, TickGate, OnTick, Clear, OwedFrom, Kept, GatesRun, AttemptInv, Stopped,
  Done, Active, Cards, Away, ghosts

LEMMA InitSound == Init => AttemptInv
  BY AttemptAssumption DEF Init, NoWorker, NoEntry, NoGate, NoTick, AttemptInv, GatesRun,
    Stopped, Done, Active, Cards, Away, Typed, Worker, Entry, Gates, Ticks, Steps, Leaving,
    Loop, GateSteps, Shape, Trip, Debts, WorkerGate, TickGate, OnTick, Clear, OwedFrom, Kept

LEMMA NextKeeps == AttemptInv /\ [Next]_vars => AttemptInv'
<1> SUFFICES ASSUME AttemptInv, [Next]_vars PROVE AttemptInv'
  OBVIOUS
<1>1. CASE UNCHANGED vars
  <2>1. UNCHANGED <<card, pending, owed, excused, work, debt, w, en, gate, tick, dbg, hold, svc>>
    BY <1>1 DEF vars
  <2>2. Typed' /\ Shape' /\ GatesRun'
    BY <2>1 DEF AttemptInv, Typed, Shape, GatesRun
  <2>3. WorkerGate' = WorkerGate /\ TickGate' = TickGate
    BY <2>1 DEF WorkerGate, TickGate
  <2>4. (Trip <=> Trip') /\ (Debts <=> Debts')
    BY <2>1, <2>3 DEF Trip, Debts, OnTick, Clear, OwedFrom, Kept
  <2> QED BY <2>1, <2>2, <2>4 DEF AttemptInv
<1>2. ASSUME NEW a \in DOMAIN gate, GateStep(a) PROVE AttemptInv'
  <2>1. a \in {"worker", "tick"}
    BY DEF AttemptInv, Typed, Gates
  <2> QED BY <1>2, <2>1, GateStepKeeps
<1> QED BY <1>1, <1>2, WorkerStepKeeps, ExitStepKeeps, TickStepKeeps, ServiceStepKeeps DEF
  Next

(* In every reachable state of an attempt the lanes owed are on record or  *)
(* still before the worker (_remember_turn_lane, _evaluate_stage_gates).   *)
THEOREM AttemptIsSound == Spec => []AttemptInv
  BY InitSound, NextKeeps, PTL DEF Spec

(* The command of every gated lane a worker took its card through has      *)
(* passed before the card is merged, for every board, every set of gated   *)
(* lanes and every bound, but for the windows excused lists                *)
(* (workflow/verify.py, worker_exit.py: "must still face the verify gate").*)
THEOREM GatesAreRun == Spec => []GatesRun
<1>1. AttemptInv => GatesRun
  BY DEF AttemptInv
<1> QED BY <1>1, AttemptIsSound, PTL

-----------------------------------------------------------------------------
(* Blocked tickets *)

(* A set of natural numbers has a least element. *)
LEMMA LeastExists ==
  ASSUME NEW T \in SUBSET Nat, T # {}
  PROVE  \E x \in T : \A y \in T : x <= y
<1>1. PICK x \in T : \A y \in T : ~ (<<y, x>> \in OpToRel(<, Nat))
  BY NatLessThanWellFounded, WFMin
<1>2. ASSUME NEW y \in T PROVE x <= y
  <2>1. ~(y < x)
    BY <1>1 DEF OpToRel
  <2> QED BY <2>1
<1> QED BY <1>2

(* Where the tick has a ticket at hand. *)
AtHand == {"sweep", "demote", "reblock", "rnote", "rstate", "recover", "hnote", "hstate", "open"}

(* The types of what the proof speaks of. *)
FixTyped ==
  /\ st \in [Tickets -> States] /\ finished \subseteq Fixes
  /\ left \subseteq Tickets /\ target \in {"Active", "Review"} /\ point \in AtHand \cup {"idle", "fetch", "dispatch", "list"}
  /\ op \in [Callers -> {"none", "lock", "scan", "relink", "renote", "create", "link", "note"}]

(* What the tick works through has been seen on the board. *)
Listed ==
  /\ point \in AtHand => left # {}
  /\ \A t \in left : st[t] # "none"

(* A fix ticket is created under the lock, after a scan that found none. *)
OneCaller ==
  /\ op["tick"] # "none" => point = "open"
  /\ \A a \in Callers : op[a] \notin {"none", "lock"} => lock = a
  /\ \A a \in Callers : op[a] = "create" => OpenFixes \ finished = {}

(* The invariant of the sweep over Blocked tickets. *)
FixInv ==
  /\ FixTyped /\ Listed /\ OneCaller /\ OneOpenFix
  /\ \A f \in Fixes : st[f] = "Done" => f \in finished

(* The ticket the tick works on is one of those it lists. *)
LEMMA LeastTicket ==
  ASSUME FixInv, left # {}
  PROVE  current \in left /\ current \in Tickets /\ st[current] # "none"
<1>1. left \in SUBSET Nat
  BY FixesAssumption DEF FixInv, FixTyped, Tickets
<1>2. \E x \in left : \A y \in left : x <= y
  BY <1>1, LeastExists
<1>3. current \in left
  BY <1>2 DEF current, Min
<1> QED BY <1>3 DEF FixInv, FixTyped, Listed

(* No ticket is made: whatever else the board goes through, at most the     *)
(* fix tickets that were open are open.                                    *)
LEMMA NoneMade ==
  ASSUME FixInv, finished \subseteq finished',
         \A f \in Fixes : st'[f] # "none" => st[f] # "none"
  PROVE  OpenFixes' \ finished' \subseteq OpenFixes \ finished /\ OneOpenFix'
<1>1. OpenFixes' \ finished' \subseteq OpenFixes \ finished
  BY DEF FixInv, OpenFixes
<1> QED BY <1>1 DEF FixInv, OneOpenFix

(* A step that makes no ticket keeps the invariant if it keeps the order of
   tick and callers. *)
LEMMA FixKeeps ==
  ASSUME FixInv, FixTyped', Listed', finished \subseteq finished',
         \A f \in Fixes : st'[f] # "none" => st[f] # "none",
         \A f \in Fixes : st'[f] = "Done" => f \in finished',
         op'["tick"] # "none" => point' = "open",
         \A a \in Callers : /\ op'[a] \notin {"none", "lock"} => lock' = a
                            /\ op'[a] = "create" => OpenFixes \ finished = {}
  PROVE  FixInv'
<1>1. OpenFixes' \ finished' \subseteq OpenFixes \ finished /\ OneOpenFix'
  BY NoneMade
<1>2. OneCaller'
  BY <1>1 DEF OneCaller
<1> QED BY <1>1, <1>2 DEF FixInv

(* A move of a ticket that is on the board. *)
LEMMA MoveKeeps ==
  ASSUME FixInv, NEW t \in Tickets, NEW s \in States \ {"none"}, t = 0 \/ st[t] # "none",
         st' = [st EXCEPT ![t] = s], s = "Done" /\ t \in Fixes => t \in finished', finished \subseteq finished'
  PROVE  /\ st' \in [Tickets -> States]
         /\ \A f \in Fixes : st'[f] # "none" => st[f] # "none"
         /\ \A f \in Fixes : st'[f] = "Done" => f \in finished'
         /\ \A x \in Tickets : st[x] # "none" => st'[x] # "none"
<1>1. st \in [Tickets -> States] /\ \A f \in Fixes : f \in Tickets /\ f # 0
  BY FixesAssumption DEF FixInv, FixTyped, Tickets
<1>2. \A x \in Tickets : st'[x] = IF x = t THEN s ELSE st[x]
  BY <1>1
<1>3. st' \in [Tickets -> States]
  BY <1>1
<1>4. \A f \in Fixes : st[f] = "Done" => f \in finished
  BY DEF FixInv
<1> QED BY <1>1, <1>2, <1>3, <1>4

(* On to the next one. *)
LEMMA LeftShrinks ==
  ASSUME FixInv, left # {}, NEW go \in {"fetch", "idle"}, NEW on \in {"sweep", "recover"},
         \/ left = {current} /\ point' = go /\ left' = {}
         \/ left # {current} /\ point' = on /\ left' = left \ {current},
         \A x \in Tickets : st[x] # "none" => st'[x] # "none"
  PROVE  Listed' /\ left' \subseteq Tickets /\ point' \in AtHand \cup {"idle", "fetch"} /\ point' # "open"
<1>1. current \in left
  BY LeastTicket
<1>2. left' \subseteq left /\ (point' \in AtHand => left' # {})
  BY <1>1 DEF AtHand
<1>3. left \subseteq Tickets /\ \A t \in left : st[t] # "none"
  BY DEF FixInv, FixTyped, Listed
<1> QED BY <1>2, <1>3 DEF Listed, AtHand

(* The first part of a tick: fix tickets that reached Done. *)
LEMMA SweepKeeps ==
  ASSUME FixInv, SweepFetch \/ SweepNext \/ DemoteFix \/ ReblockSource \/ ReopenNote \/ ReopenSource
  PROVE  FixInv'
<1> USE DEF FixInv
<1>0. UNCHANGED <<finished, op, lock, target>>
  BY DEF SweepFetch, SweepNext, DemoteFix, ReblockSource, ReopenNote, ReopenSource, Board, Opening
<1>1. op["tick"] = "none" /\ point # "open"
  BY DEF OneCaller, SweepFetch, SweepNext, DemoteFix, ReblockSource, ReopenNote, ReopenSource
<1>2. ASSUME st' = st, FixTyped', Listed' PROVE FixInv'
  BY <1>0, <1>1, <1>2, FixKeeps DEF OneCaller
<1>3. ASSUME NextFix, left # {}, st' = st PROVE FixInv'
  <2>1. Listed' /\ left' \subseteq Tickets /\ point' \in AtHand \cup {"idle", "fetch"}
    BY <1>3, LeftShrinks DEF NextFix
  <2>2. FixTyped'
    BY <1>0, <1>3, <2>1 DEF FixTyped
  <2> QED BY <1>2, <1>3, <2>1, <2>2
<1>4. ASSUME NEW t \in Tickets, NEW s \in {"Active", "Blocked", "Review"}, Moved(t, s), t = 0 \/ st[t] # "none",
             left # {}, NextFix \/ (point' \in AtHand /\ left' = left)
      PROVE  FixInv'
  <2>1. st' = [st EXCEPT ![t] = s] /\ s \in States \ {"none"} /\ s # "Done"
    BY <1>4 DEF Moved, States
  <2>2. /\ st' \in [Tickets -> States]
        /\ \A f \in Fixes : st'[f] # "none" => st[f] # "none"
        /\ \A f \in Fixes : st'[f] = "Done" => f \in finished'
        /\ \A x \in Tickets : st[x] # "none" => st'[x] # "none"
    BY <1>0, <1>4, <2>1, MoveKeeps
  <2>3. Listed' /\ left' \subseteq Tickets /\ point' \in AtHand \cup {"idle", "fetch"}
    <3>1. CASE NextFix
      BY <1>4, <2>2, <3>1, LeftShrinks DEF NextFix
    <3>2. CASE point' \in AtHand /\ left' = left
      BY <1>4, <2>2, <3>2 DEF Listed, FixTyped
    <3> QED BY <1>4, <3>1, <3>2
  <2>4. FixTyped'
    BY <1>0, <2>2, <2>3 DEF FixTyped
  <2> QED BY <1>0, <1>1, <2>2, <2>3, <2>4, FixKeeps DEF OneCaller
<1>5. CASE SweepFetch
  <2>1. st' = st /\ \/ point' = "sweep" /\ left' = DoneFixes /\ DoneFixes # {}
                    \/ point' \in {"fetch", "idle"} /\ left' = left
    BY <1>5 DEF SweepFetch, Board
  <2>2. DoneFixes \subseteq Tickets /\ \A f \in DoneFixes : st[f] # "none"
    BY DEF DoneFixes, Tickets
  <2>3. Listed'
    BY <2>1, <2>2 DEF Listed, AtHand
  <2>4. FixTyped'
    BY <1>0, <2>1, <2>2 DEF FixTyped, AtHand
  <2> QED BY <1>2, <2>1, <2>3, <2>4
<1>6. CASE SweepNext
  <2>1. st' = st /\ left # {} /\ (NextFix \/ (left' = left /\ point' \in {"demote", "rstate", "rnote"}))
    BY <1>6 DEF SweepNext, Board, Listed, AtHand
  <2>2. CASE NextFix
    BY <1>3, <2>1, <2>2
  <2>3. CASE left' = left /\ point' \in {"demote", "rstate", "rnote"}
    BY <1>0, <1>2, <2>1, <2>3 DEF Listed, FixTyped, AtHand
  <2> QED BY <2>1, <2>2, <2>3
<1>7. CASE DemoteFix
  <2>1. left # {} /\ \E ok \in BOOLEAN : Demote(ok)
    BY <1>7 DEF DemoteFix, Listed, AtHand
  <2>2. CASE Demote(FALSE)
    <3>1. st' = st /\ left' = {} /\ point' = "idle"
      BY <2>2 DEF Demote
    <3> QED BY <1>0, <1>2, <3>1 DEF Listed, FixTyped, AtHand
  <2>3. CASE Demote(TRUE)
    <3>1. Moved(current, "Review") /\ (NextFix \/ (point' = "reblock" /\ left' = left))
      BY <2>3 DEF Demote
    <3>2. current \in Tickets /\ st[current] # "none"
      BY <2>1, LeastTicket
    <3> QED BY <1>4, <2>1, <3>1, <3>2 DEF AtHand
  <2> QED BY <2>1, <2>2, <2>3
<1>8. CASE ReblockSource
  <2>1. NextFix /\ left # {} /\ (Moved(0, "Blocked") \/ st' = st)
    BY <1>8 DEF ReblockSource, Listed, AtHand
  <2>2. 0 \in Tickets
    BY DEF Tickets
  <2> QED BY <1>3, <1>4, <2>1, <2>2
<1>9. CASE ReopenNote
  <2>1. left' = left /\ st' = st /\ point' \in {"rstate", "demote"} /\ left # {}
    BY <1>9 DEF ReopenNote, Listed, AtHand
  <2> QED BY <1>0, <1>2, <2>1 DEF Listed, FixTyped, AtHand
<1>10. CASE ReopenSource
  <2>1. /\ left # {}
        /\ \/ Moved(0, "Active") /\ NextFix
           \/ st' = st /\ left' = left /\ point' = "demote"
    BY <1>10 DEF ReopenSource, Listed, AtHand
  <2>2. 0 \in Tickets
    BY DEF Tickets
  <2>3. CASE Moved(0, "Active") /\ NextFix
    BY <1>4, <2>1, <2>2, <2>3
  <2>4. CASE st' = st /\ left' = left /\ point' = "demote"
    BY <1>0, <1>2, <2>1, <2>4 DEF Listed, FixTyped, AtHand
  <2> QED BY <2>1, <2>3, <2>4
<1> QED BY <1>5, <1>6, <1>7, <1>8, <1>9, <1>10

(* Steps that leave the board and the callers alone. *)
LEMMA TickKeeps ==
  ASSUME FixInv, FetchCandidates \/ DispatchSource \/ ListBlocked
  PROVE  FixInv'
<1> USE DEF FixInv
<1>0. UNCHANGED <<st, finished, op, lock, target>> /\ point \in {"fetch", "dispatch", "list"}
  BY DEF FetchCandidates, DispatchSource, ListBlocked, Board, Opening
<1>1. op["tick"] = "none"
  BY <1>0 DEF OneCaller
<1>2. ASSUME FixTyped', Listed' PROVE FixInv'
  BY <1>0, <1>1, <1>2, FixKeeps DEF OneCaller
<1>3. CASE FetchCandidates \/ DispatchSource
  <2>1. left' = left /\ point' \in {"idle", "dispatch", "list"}
    BY <1>3 DEF FetchCandidates, DispatchSource
  <2> QED BY <1>0, <1>2, <2>1 DEF Listed, FixTyped, AtHand
<1>4. CASE ListBlocked
  <2>1. \/ /\ left' \subseteq {t \in Tickets : st[t] = "Blocked"}
           /\ point' = IF left' = {} THEN "idle" ELSE "recover"
        \/ left' = left /\ point' = "idle"
    BY <1>4 DEF ListBlocked
  <2>2. left' \subseteq Tickets /\ \A t \in left' : st[t] # "none"
    BY <2>1 DEF FixTyped, Listed
  <2>3. Listed' /\ FixTyped'
    BY <1>0, <2>1, <2>2 DEF Listed, FixTyped, AtHand
  <2> QED BY <1>2, <2>3
<1> QED BY <1>3, <1>4

(* The third part: rescues, and the way to a fix ticket. *)
LEMMA RescueKeeps ==
  ASSUME FixInv, TryRescue \/ RescueNote \/ RescueMove \/ OpenFix
  PROVE  FixInv'
<1> USE DEF FixInv
<1>0. UNCHANGED <<finished, lock>> /\ point \in {"recover", "hnote", "hstate"} /\ left # {} /\ op["tick"] = "none"
  <2>1. UNCHANGED <<finished, lock>> /\ point \in {"recover", "hnote", "hstate"}
    BY DEF TryRescue, RescueNote, RescueMove, OpenFix, Board, Opening
  <2> QED BY <2>1 DEF Listed, OneCaller, AtHand
<1>1. current \in Tickets /\ st[current] # "none"
  BY <1>0, LeastTicket
<1>2. ASSUME st' = st, target' \in {"Active", "Review"},
             \/ GoOpen
             \/ left' = left /\ op' = op /\ point' \in {"hnote", "hstate"}
      PROVE  FixInv'
  <2>1. \/ left' = left /\ point' = "open" /\ op' = [op EXCEPT !["tick"] = "lock"]
        \/ NextTicket /\ op' = op
        \/ left' = left /\ op' = op /\ point' \in {"hnote", "hstate"}
    BY <1>2 DEF GoOpen
  <2>2. Listed' /\ left' \subseteq Tickets /\ point' \in AtHand \cup {"idle", "fetch"}
    <3>1. CASE left' = left
      BY <1>0, <1>2, <2>1, <3>1, LeftShrinks DEF Listed, FixTyped, AtHand, NextTicket
    <3>2. CASE NextTicket
      BY <1>0, <1>2, <3>2, LeftShrinks DEF NextTicket
    <3> QED BY <2>1, <3>1, <3>2
  <2>3. op' = op \/ (point' = "open" /\ op' = [op EXCEPT !["tick"] = "lock"])
    BY <2>1
  <2>4. \A a \in Callers : op'[a] = op[a] \/ op'[a] = "lock"
    BY <2>3 DEF FixTyped
  <2>5. op'["tick"] # "none" => point' = "open"
    BY <1>0, <2>3
  <2>6. FixTyped'
    BY <1>0, <1>2, <2>2, <2>3 DEF FixTyped, Callers
  <2> QED BY <1>0, <1>2, <2>2, <2>4, <2>5, <2>6, FixKeeps DEF OneCaller
<1>3. CASE TryRescue
  <2>1. /\ st' = st /\ target' \in {"Active", "Review"}
        /\ GoOpen \/ (left' = left /\ op' = op /\ point' = "hnote")
    BY <1>3 DEF TryRescue, Board, RescueTarget, FixTyped
  <2> QED BY <1>2, <2>1
<1>4. CASE RescueNote
  <2>1. /\ st' = st /\ target' = target
        /\ GoOpen \/ (left' = left /\ op' = op /\ point' = "hstate")
    BY <1>4 DEF RescueNote
  <2> QED BY <1>2, <2>1 DEF FixTyped
<1>5. CASE RescueMove
  <2>1. target' = "Review" /\ ((NextTicket /\ Moved(current, target) /\ op' = op) \/ (GoOpen /\ st' = st))
    BY <1>5 DEF RescueMove
  <2>2. CASE GoOpen /\ st' = st
    BY <1>2, <2>1, <2>2
  <2>3. CASE NextTicket /\ Moved(current, target) /\ op' = op
    <3>1. st' = [st EXCEPT ![current] = target] /\ target \in States \ {"none"} /\ target # "Done"
      BY <2>3 DEF Moved, States, FixTyped
    <3>2. /\ st' \in [Tickets -> States]
          /\ \A f \in Fixes : st'[f] # "none" => st[f] # "none"
          /\ \A f \in Fixes : st'[f] = "Done" => f \in finished'
          /\ \A x \in Tickets : st[x] # "none" => st'[x] # "none"
      BY <1>0, <1>1, <3>1, MoveKeeps
    <3>3. Listed' /\ left' \subseteq Tickets /\ point' \in AtHand \cup {"idle", "fetch"}
      BY <1>0, <2>3, <3>2, LeftShrinks DEF NextTicket
    <3>4. FixTyped'
      BY <1>0, <2>1, <2>3, <3>2, <3>3 DEF FixTyped
    <3> QED BY <1>0, <2>3, <3>2, <3>3, <3>4, FixKeeps DEF OneCaller
  <2> QED BY <2>1, <2>2, <2>3
<1>6. CASE OpenFix
  <2>1. st' = st /\ target' = target /\ GoOpen
    BY <1>6 DEF OpenFix, Board
  <2> QED BY <1>2, <2>1 DEF FixTyped
<1> QED BY <1>3, <1>4, <1>5, <1>6

(* A caller comes back with a ticket, or without one. *)
LEMMA ReturnKeeps ==
  ASSUME FixInv, NEW a \in Callers, op[a] \notin {"none", "lock"}, Return(a), UNCHANGED <<st, finished, target>>
  PROVE  FixInv'
<1> USE DEF FixInv
<1>1. op' = [op EXCEPT ![a] = "none"] /\ lock = a /\ lock' = "none"
  BY DEF Return, OneCaller
<1>2. /\ op' \in [Callers -> {"none", "lock", "scan", "relink", "renote", "create", "link", "note"}]
      /\ op'[a] = "none" /\ \A b \in Callers \ {a} : op'[b] = op[b] /\ op[b] \in {"none", "lock"}
  BY <1>1 DEF OneCaller, FixTyped
<1>3. Listed' /\ left' \subseteq Tickets /\ point' \in AtHand \cup {point, "idle"}
      /\ (op'["tick"] # "none" => point' = "open")
  <2>1. CASE a = "tick"
    <3>1. NextTicket /\ point = "open" /\ left # {}
      BY <2>1 DEF Return, OneCaller, Listed, AtHand
    <3>2. Listed' /\ left' \subseteq Tickets /\ point' \in {"recover", "idle"}
      BY <3>1, LeftShrinks DEF NextTicket
    <3> QED BY <1>2, <2>1, <3>2 DEF AtHand
  <2>2. CASE a = "manual"
    <3>1. UNCHANGED <<point, left>> /\ op'["tick"] = op["tick"]
      BY <1>2, <2>2 DEF Return, Callers
    <3> QED BY <3>1 DEF Listed, FixTyped, OneCaller
  <2> QED BY <2>1, <2>2 DEF Callers
<1>4. FixTyped'
  BY <1>2, <1>3 DEF FixTyped
<1>5. \A b \in Callers : op'[b] \in {"none", "lock"}
  BY <1>2
<1> QED BY <1>3, <1>4, <1>5, FixKeeps

(* A caller goes on under the lock. *)
LEMMA CallerKeeps ==
  ASSUME FixInv, NEW a \in Callers, NEW o \in {"scan", "relink", "renote", "create", "link", "note"},
         op' = [op EXCEPT ![a] = o], lock' = a, op[a] # "none", \A b \in Callers \ {a} : op[b] \in {"none", "lock"},
         o = "create" => OpenFixes = {},
         UNCHANGED <<st, finished, target, point, left>>
  PROVE  FixInv'
<1> USE DEF FixInv
<1>1. /\ op' \in [Callers -> {"none", "lock", "scan", "relink", "renote", "create", "link", "note"}]
      /\ op'[a] = o /\ \A b \in Callers \ {a} : op'[b] = op[b]
  BY DEF FixTyped
<1>2. FixTyped'
  BY <1>1 DEF FixTyped, Callers
<1>3. op'["tick"] # "none" => point' = "open"
  BY <1>1 DEF OneCaller, Callers
<1>4. Listed'
  BY DEF Listed
<1> QED BY <1>1, <1>2, <1>3, <1>4, FixKeeps

(* So do the steps of an opening, the creation itself among them. *)
LEMMA OpenKeeps ==
  ASSUME FixInv, NEW a \in Callers, Open(a)
  PROVE  FixInv'
<1> USE DEF FixInv
<1>1. UNCHANGED <<finished, target>>
  BY DEF Open, TakeLock, ScanBoard, RelinkFix, RenoteFix, CreateFix, LinkFix, NoteFix, Board
<1>2. \A b \in Callers \ {a} : op[a] \notin {"none", "lock"} => op[b] \in {"none", "lock"}
  BY DEF OneCaller
<1>3. CASE TakeLock(a)
  <2>1. /\ op[a] = "lock" /\ lock = "none" /\ lock' = a /\ op' = [op EXCEPT ![a] = "scan"]
        /\ UNCHANGED <<st, point, left>>
    BY <1>3 DEF TakeLock, Board
  <2>2. \A b \in Callers : op[b] \in {"none", "lock"}
    BY <2>1 DEF OneCaller, Callers
  <2> QED BY <1>1, <2>1, <2>2, CallerKeeps
<1>4. CASE ScanBoard(a)
  <2>1. /\ op[a] = "scan" /\ lock = a /\ st' = st
        /\ \/ Return(a)
           \/ op' = [op EXCEPT ![a] = "relink"] /\ UNCHANGED <<point, left, lock>>
           \/ op' = [op EXCEPT ![a] = "create"] /\ OpenFixes = {} /\ UNCHANGED <<point, left, lock>>
    BY <1>4 DEF ScanBoard, Board, OneCaller, Scan
  <2> QED BY <1>1, <1>2, <2>1, CallerKeeps, ReturnKeeps
<1>5. CASE RelinkFix(a)
  <2>1. /\ op[a] = "relink" /\ lock = a /\ st' = st
        /\ Return(a) \/ (op' = [op EXCEPT ![a] = "renote"] /\ UNCHANGED <<point, left, lock>>)
    BY <1>5 DEF RelinkFix, OneCaller
  <2> QED BY <1>1, <1>2, <2>1, CallerKeeps, ReturnKeeps
<1>6. CASE RenoteFix(a) \/ NoteFix(a)
  <2>1. op[a] \in {"renote", "note"} /\ Return(a) /\ st' = st
    BY <1>6 DEF RenoteFix, NoteFix
  <2> QED BY <1>1, <2>1, ReturnKeeps
<1>7. CASE LinkFix(a)
  <2>1. op[a] = "link" /\ op' = [op EXCEPT ![a] = "note"] /\ lock = a /\ UNCHANGED <<st, point, left, lock>>
    BY <1>7 DEF LinkFix, OneCaller
  <2> QED BY <1>1, <1>2, <2>1, CallerKeeps
<1>8. CASE CreateFix(a)
  <2>1. /\ op[a] = "create" /\ lock = a
        /\ \/ Return(a) /\ st' = st
           \/ /\ Unmade # {} /\ st' = [st EXCEPT ![Min(Unmade)] = "Active"]
              /\ op' = [op EXCEPT ![a] = "link"] /\ UNCHANGED <<point, left, lock>>
    BY <1>8 DEF CreateFix, OneCaller
  <2>2. CASE Return(a) /\ st' = st
    BY <1>1, <2>1, <2>2, ReturnKeeps
  <2>3. CASE /\ Unmade # {} /\ st' = [st EXCEPT ![Min(Unmade)] = "Active"]
             /\ op' = [op EXCEPT ![a] = "link"] /\ UNCHANGED <<point, left, lock>>
    <3> DEFINE m == Min(Unmade)
    <3>1. Unmade \in SUBSET Nat
      BY FixesAssumption DEF Unmade
    <3>2. m \in Unmade
      BY <2>3, <3>1, LeastExists DEF Min
    <3> HIDE DEF m
    <3>3. m \in Tickets /\ m \in Fixes
      BY <3>2 DEF Unmade, Tickets
    <3>4. st' = [st EXCEPT ![m] = "Active"]
      BY <2>3 DEF m
    <3>5. /\ st' \in [Tickets -> States]
          /\ \A t \in Tickets : st'[t] = IF t = m THEN "Active" ELSE st[t]
      BY <3>3, <3>4 DEF FixTyped, States
    <3>6. OpenFixes \ finished = {}
      BY <2>1 DEF OneCaller
    <3>7. OpenFixes' \ finished' \subseteq {m}
      BY <1>1, <3>5, <3>6 DEF OpenFixes, Tickets
    <3>8. OneOpenFix'
      BY <3>7 DEF OneOpenFix
    <3>9. /\ op' \in [Callers -> {"none", "lock", "scan", "relink", "renote", "create", "link", "note"}]
          /\ op'[a] = "link" /\ \A b \in Callers \ {a} : op'[b] = op[b] /\ op[b] \in {"none", "lock"}
      BY <1>2, <2>1, <2>3 DEF FixTyped
    <3>10. FixTyped'
      BY <1>1, <2>3, <3>5, <3>9 DEF FixTyped
    <3>11. Listed'
      BY <2>3, <3>5 DEF Listed, FixTyped
    <3>12. OneCaller'
      <4>1. op'["tick"] # "none" => op["tick"] # "none"
        BY <2>1, <3>9 DEF Callers
      <4> QED BY <2>1, <2>3, <3>9, <4>1 DEF OneCaller
    <3>13. \A f \in Fixes : st'[f] = "Done" => f \in finished'
      BY <1>1, <3>5 DEF Tickets
    <3> QED BY <3>8, <3>10, <3>11, <3>12, <3>13
  <2> QED BY <2>1, <2>2, <2>3
<1> QED BY <1>3, <1>4, <1>5, <1>6, <1>7, <1>8 DEF Open

(* What workers and operators do to the tickets. *)
LEMMA EditsKeep ==
  ASSUME FixInv, Recover \/ FixNotes \/ FixMoves \/ SourceMoved \/ OperatorAnswers \/ RunEnds \/ ServiceDies
  PROVE  FixInv'
<1> USE DEF FixInv
<1>1. CASE Recover
  <2>1. /\ op["manual"] = "none" /\ op' = [op EXCEPT !["manual"] = "lock"]
        /\ UNCHANGED <<st, finished, target, point, left, lock>>
    BY <1>1 DEF Recover, Board
  <2>2. op'["tick"] = op["tick"] /\ \A b \in Callers : op'[b] = op[b] \/ op'[b] = "lock"
    BY <2>1 DEF FixTyped, Callers
  <2>3. FixTyped' /\ Listed'
    BY <2>1 DEF FixTyped, Listed, Callers
  <2> QED BY <2>1, <2>2, <2>3, FixKeeps DEF OneCaller
<1>2. ASSUME NEW t \in Tickets, NEW s \in States \ {"none"}, t = 0 \/ st[t] # "none",
             st' = st \/ st' = [st EXCEPT ![t] = s], EditsOnly
      PROVE  FixInv'
  <2>1. /\ finished' = finished \cup {f \in Fixes : st'[f] = "Done"}
        /\ UNCHANGED <<target, point, left, op, lock>>
    BY <1>2 DEF EditsOnly, Opening
  <2>2. /\ st' \in [Tickets -> States]
        /\ \A f \in Fixes : st'[f] # "none" => st[f] # "none"
        /\ \A x \in Tickets : st[x] # "none" => st'[x] # "none"
    <3>1. CASE st' = st
      BY <3>1 DEF FixTyped
    <3>2. CASE st' = [st EXCEPT ![t] = s]
      <4>1. \A x \in Tickets : st'[x] = IF x = t THEN s ELSE st[x]
        BY <3>2 DEF FixTyped
      <4>2. \A f \in Fixes : f \in Tickets /\ f # 0
        BY FixesAssumption DEF Tickets
      <4>3. st' \in [Tickets -> States]
        BY <3>2 DEF FixTyped
      <4> QED BY <1>2, <4>1, <4>2, <4>3
    <3> QED BY <1>2, <3>1, <3>2
  <2>3. finished \subseteq finished' /\ \A f \in Fixes : st'[f] = "Done" => f \in finished'
    BY <2>1
  <2>4. Listed'
    BY <2>1, <2>2 DEF Listed, FixTyped
  <2>5. FixTyped'
    BY <2>1, <2>2 DEF FixTyped
  <2> QED BY <2>1, <2>2, <2>3, <2>4, <2>5, FixKeeps DEF OneCaller
<1>3. {"Active", "Blocked", "Review", "Done"} = States \ {"none"} /\ 0 \in Tickets /\ Fixes \subseteq Tickets
  BY DEF States, Tickets
<1>4. CASE FixNotes
  <2>1. st' = st /\ EditsOnly
    BY <1>4 DEF FixNotes
  <2> QED BY <1>2, <1>3, <2>1
<1>5. CASE FixMoves
  <2>1. EditsOnly /\ \E f \in Fixes, s \in {"Blocked", "Review", "Done"} : st[f] = "Active" /\ st' = [st EXCEPT ![f] = s]
    BY <1>5 DEF FixMoves
  <2> QED BY <1>2, <1>3, <2>1
<1>6. CASE SourceMoved
  <2>1. EditsOnly /\ st' = [st EXCEPT ![0] = "Active"]
    BY <1>6 DEF SourceMoved
  <2> QED BY <1>2, <1>3, <2>1
<1>7. CASE OperatorAnswers
  <2>1. EditsOnly /\ \E f \in Fixes, s \in {"Active", "Done"} :
          st[f] \in {"Review", "Blocked"} /\ st' = [st EXCEPT ![f] = s]
    BY <1>7 DEF OperatorAnswers
  <2> QED BY <1>2, <1>3, <2>1
<1>8. CASE RunEnds
  <2>1. EditsOnly /\ \E s \in {"Blocked", "Done"} : st' = [st EXCEPT ![0] = s]
    BY <1>8 DEF RunEnds
  <2> QED BY <1>2, <1>3, <2>1
<1>9. CASE ServiceDies
  <2>1. /\ point' = "idle" /\ op' = [a \in Callers |-> "none"] /\ left' = {} /\ target' = "Review"
        /\ UNCHANGED <<st, finished>>
    BY <1>9 DEF ServiceDies, Board
  <2>2. FixTyped' /\ Listed'
    BY <2>1 DEF FixTyped, Listed, AtHand
  <2>3. \A a \in Callers : op'[a] = "none"
    BY <2>1
  <2>4. op'["tick"] = "none"
    BY <2>3 DEF Callers
  <2> QED BY <2>1, <2>2, <2>3, <2>4, FixKeeps
<1> QED BY <1>1, <1>4, <1>5, <1>6, <1>7, <1>8, <1>9

(* At the start the source is Blocked and has no fix ticket. *)
LEMMA FixStarts == InitFixes => FixInv
<1> SUFFICES ASSUME InitFixes PROVE FixInv
  OBVIOUS
<1>1. /\ st = [t \in Tickets |-> IF t = 0 THEN "Blocked" ELSE "none"] /\ finished = {} /\ left = {}
      /\ point = "idle" /\ target = "Review" /\ op = [a \in Callers |-> "none"]
  BY DEF InitFixes
<1>2. \A f \in Fixes : st[f] = "none"
  BY <1>1, FixesAssumption DEF Tickets
<1>3. FixTyped /\ Listed
  BY <1>1 DEF FixTyped, Listed, AtHand, States
<1>4. OneCaller
  BY <1>1 DEF OneCaller, Callers
<1> QED BY <1>2, <1>3, <1>4 DEF FixInv, OneOpenFix, OpenFixes

(* The inductive invariant of blocked-ticket recovery: one caller at a time is
   past the lock, it creates a fix ticket only after a scan that found none
   unfinished, and the tick works on tickets that are on the board
   (blocked_recovery.py _open_blocked_rca_for_issue,
   _tracker_call_active_rca_for_source, _auto_recover_blocked_sources). *)
THEOREM RecoveryIsSound == FixSpec => []FixInv
<1>1. FixInv /\ [NextFixes]_fixVars => FixInv'
  <2> SUFFICES ASSUME FixInv, [NextFixes]_fixVars PROVE FixInv'
    OBVIOUS
  <2>1. CASE UNCHANGED fixVars
    BY <2>1 DEF fixVars, FixInv, FixTyped, Listed, OneCaller, OneOpenFix, OpenFixes
  <2>2. CASE NextFixes
    BY <2>2, SweepKeeps, TickKeeps, RescueKeeps, OpenKeeps, EditsKeep DEF NextFixes, FixTick
  <2> QED BY <2>1, <2>2
<1> QED BY <1>1, FixStarts, PTL DEF FixSpec

(* A source has at most one open fix ticket that was never finished, whatever
   the tick, operators and workers do and whatever write is refused or cut off
   (blocked_recovery.py _open_blocked_rca_for_issue, under the lock of
   _blocked_rca_creation_lock), for any number of fix tickets, edits and crashes. *)
THEOREM FixIsSingle == FixSpec => []OneOpenFix
<1>1. FixInv => OneOpenFix
  BY DEF FixInv
<1> QED BY <1>1, RecoveryIsSound, PTL

-----------------------------------------------------------------------------
(* Ticket files *)

(* A job, wherever it stands. *)
JobRec == [pc : {"idle", "scan", "wait", "parse", "reread", "compare", "write", "exists"} \cup Over,
           kind : AllKinds, fields : SUBSET Fields, seen : Body, want : SUBSET TicketIds,
           ticket : 0..MaxId, part : {"all", "strip", "move"}, look : Nat, token : Nat \X Nat, latest : Text, draft : Text, tries : Nat]

(* The types of what the proof speaks of. *)
BoardTyped ==
  /\ file \in [TicketIds -> File] /\ flock \in [TicketIds -> Writers \cup {None}]
  /\ job \in [Writers -> JobRec]

(* A text that nobody has changed. *)
NoChanges(x) == x.by = {} /\ x.body.by = {}

(* A job is what its operation makes it. *)
Fits(j) ==
  /\ j.part # "all" => j.kind = "activate"
  /\ j.pc = "scan" => j.kind = "patch"
  /\ j.pc \in {"wait", "parse", "reread", "compare"} => j.kind # "create"
  /\ j.pc \in {"parse", "reread", "compare", "write"} => j.kind # "delete"
  /\ j.pc = "exists" => j.kind = "create"
  /\ j.pc \in Over \/ (j.pc = "idle" /\ j.part = "all") \/ j.ticket \in TicketIds
  /\ j.kind = "create" \/ (j.pc = "idle" /\ j.part = "all") => NoChanges(j.latest)
  /\ j.kind # "patch" \/ (j.pc = "idle" /\ j.part = "all") => j.fields = {}

(* A text with stamp s and changes xs comes after one with that other stamp:*)
(* where the stamps are the same, its stamped edits are among those of `by`.*)
Follows(xs, s, stamp, by) == stamp <= s /\ (s = stamp => xs \cap Stamped \subseteq by)

(* What a job has made of one part of its file, the front matter or the    *)
(* body: the changes in the file by now, in what the job parsed last and in *)
(* its draft.                                                              *)
Holds(j, s, xs, latest, draft) ==
  /\ j.pc \in {"compare", "write"} \/ (j.pc = "reread" /\ j.kind # "resolve") => xs \cap Writers \subseteq draft
  /\ j.pc = "reread" /\ j.kind # "resolve" => Follows(xs, s, j.token[1], draft)
  /\ j.pc = "compare" => xs \cap Writers \subseteq latest /\ Follows(xs, s, j.latest.stamp, latest)
  /\ j.pc = "write" \/ (j.pc = "compare" /\ (j.kind = "resolve" \/ j.latest.stamp = j.token[1]))
       => latest \cap Stamped \subseteq draft
  /\ j.pc \in {"compare", "write"} => latest \subseteq xs

(* A job that puts a description in the place of the body. *)
Described(j) == "description" \in j.fields

(* What a job has made of its file, whose text is x by now.                *)
InHand(x, j) ==
  /\ Holds(j, x.stamp, x.by, j.latest.by, j.draft.by)
  /\ IF Described(j) THEN j.pc \in {"reread", "compare", "write"} => j.seen.by \subseteq j.draft.body.by
     ELSE Holds(j, x.stamp, x.body.by, j.latest.body.by, j.draft.body.by)

(* What a job keeps of text x in what it makes of it. *)
Keeps(j, x, d) ==
  /\ x.by \subseteq d.by
  /\ IF Described(j) THEN j.seen.by \subseteq d.body.by ELSE x.body.by \subseteq d.body.by

(* Where a job is between taking its lock and giving it back. *)
AtWork == {"parse", "reread", "compare", "write"}

(* A job at work on a file holds its lock. *)
JobSound(q) ==
  /\ Fits(job[q])
  /\ job[q].pc \in AtWork => /\ job[q].ticket \in TicketIds /\ flock[job[q].ticket] = q
                             /\ InHand(file[job[q].ticket].text, job[q])

(* A file that is not there has no changes in it. *)
Absent == \A t \in TicketIds : ~file[t].there => NoChanges(file[t].text)

(* The invariant of the board of files. *)
BoardInv == BoardTyped /\ Absent /\ \A q \in Writers : JobSound(q)

(* Writers keep to their own jobs, and to files nobody else has locked. *)
LEMMA WriterKeeps ==
  ASSUME BoardInv, NEW q \in Writers, NEW j \in JobRec, job' = [job EXCEPT ![q] = j],
         file' \in [TicketIds -> File], flock' \in [TicketIds -> Writers \cup {None}],
         \A t \in TicketIds : flock[t] \in Writers \ {q} => flock'[t] = flock[t] /\ file'[t] = file[t],
         Absent', Fits(j),
         j.pc \in AtWork => /\ j.ticket \in TicketIds /\ flock'[j.ticket] = q
                            /\ InHand(file'[j.ticket].text, j)
  PROVE  BoardInv'
<1>1. job' \in [Writers -> JobRec] /\ job'[q] = j /\ \A v \in Writers \ {q} : job'[v] = job[v]
  BY DEF BoardInv, BoardTyped
<1>2. BoardTyped'
  BY <1>1 DEF BoardTyped
<1>3. JobSound(q)'
  BY <1>1 DEF JobSound
<1>4. ASSUME NEW v \in Writers \ {q} PROVE JobSound(v)'
  <2>1. JobSound(v) /\ job'[v] = job[v]
    BY <1>1 DEF BoardInv
  <2>2. job[v].pc \in AtWork => /\ job[v].ticket \in TicketIds /\ flock'[job[v].ticket] = v
                                /\ file'[job[v].ticket] = file[job[v].ticket]
    BY <2>1 DEF JobSound
  <2> QED BY <2>1, <2>2 DEF JobSound
<1> QED BY <1>2, <1>3, <1>4 DEF BoardInv

(* A job whose text others only add to. *)
LEMMA HoldsGrows ==
  ASSUME NEW j \in JobRec, NEW s \in Nat, NEW r \in Nat, NEW xs, NEW ys, NEW latest, NEW draft,
         Holds(j, s, xs, latest, draft), xs \subseteq ys, ys \cap Writers = xs \cap Writers, s <= r,
         r = s => ys \cap Stamped = xs \cap Stamped
  PROVE  Holds(j, r, ys, latest, draft)
<1>1. j.latest.stamp \in Nat /\ j.token[1] \in Nat
  BY DEF Text, JobRec
<1>2. ASSUME NEW k \in Nat, NEW b, Follows(xs, s, k, b) PROVE Follows(ys, r, k, b)
  BY <1>2 DEF Follows
<1> QED BY <1>1, <1>2 DEF Holds

(* The same of both parts of its file. *)
LEMMA InHandGrows ==
  ASSUME NEW x \in Text, NEW y \in Text, NEW j \in JobRec, InHand(x, j), x.by \subseteq y.by,
         y.by \cap Writers = x.by \cap Writers, x.stamp <= y.stamp,
         y.stamp = x.stamp => y.by \cap Stamped = x.by \cap Stamped,
         x.body.by \subseteq y.body.by, y.body.by \cap Writers = x.body.by \cap Writers,
         y.stamp = x.stamp => y.body.by \cap Stamped = x.body.by \cap Stamped
  PROVE  InHand(y, j)
<1>1. x.stamp \in Nat /\ y.stamp \in Nat
  BY DEF Text
<1>2. Holds(j, y.stamp, y.by, j.latest.by, j.draft.by)
  BY <1>1, HoldsGrows DEF InHand
<1>3. ~Described(j) => Holds(j, y.stamp, y.body.by, j.latest.body.by, j.draft.body.by)
  BY <1>1, HoldsGrows DEF InHand
<1> QED BY <1>2, <1>3 DEF InHand

(* One field of a body, or of a text, is set: the others stay.              *)
LEMMA BodyFlag ==
  ASSUME NEW m \in Body, NEW e \in BOOLEAN, NEW z,
         z \in {[m EXCEPT !.warn = e], [m EXCEPT !.recovery = e], [m EXCEPT !.artifacts = e]}
  PROVE  z \in Body /\ z.by = m.by
  BY DEF Body

LEMMA BodyBy ==
  ASSUME NEW m \in Body, NEW by \in SUBSET (Writers \cup Hands)
  PROVE  LET z == [m EXCEPT !.by = by] IN z \in Body /\ z.by = by
  BY DEF Body

LEMMA TextField ==
  ASSUME NEW y \in Text, NEW e \in BOOLEAN, NEW d \in SUBSET TicketIds, NEW z,
         z \in {[y EXCEPT !.active = e], [y EXCEPT !.pinned = e], [y EXCEPT !.blocked_by = d]}
  PROVE  z \in Text /\ z.by = y.by /\ z.body = y.body
  BY DEF Text

LEMMA TextBody ==
  ASSUME NEW y \in Text, NEW n \in Body
  PROVE  LET z == [y EXCEPT !.body = n] IN z \in Text /\ z.by = y.by /\ z.body = n
  BY DEF Text

LEMMA TextStamp ==
  ASSUME NEW y \in Text, NEW s \in Nat
  PROVE  LET z == [y EXCEPT !.stamp = s] IN z \in Text /\ z.by = y.by /\ z.body = y.body
  BY DEF Text

LEMMA TextBy ==
  ASSUME NEW y \in Text, NEW by \in SUBSET (Writers \cup Hands)
  PROVE  LET z == [y EXCEPT !.by = by] IN z \in Text /\ z.by = by /\ z.body = y.body
  BY DEF Text

(* What a `mutate` callback returns has all the changes it was given, but  *)
(* for the body where a description replaces it.                           *)
LEMMA MutateAdds ==
  ASSUME BoardInv, NEW q \in Writers, NEW x \in Text, job[q].kind \notin {"create", "delete"}
  PROVE  Mutate(q, x) \in Text /\ Keeps(job[q], x, Mutate(q, x))
<1> DEFINE All == Writers \cup Hands
<1>1. /\ job[q].kind \in AllKinds /\ job[q].want \in SUBSET TicketIds /\ job[q].seen \in Body
      /\ Fits(job[q]) /\ q \in All
  BY DEF BoardInv, BoardTyped, JobRec, JobSound
<1>2. \A m \in Body : m.by \in SUBSET All
  BY DEF Body
<1>3. x.by \in SUBSET All /\ x.body \in Body /\ x.stamp \in Nat
  BY DEF Text
<1> HIDE DEF Body, Text
<1>4. x.stamp + 1 \in Nat /\ x.by \cup {q} \in SUBSET All
  BY <1>1, <1>3
<1>5. Touch(q, x) \in Text /\ Touch(q, x).by = x.by \cup {q} /\ Touch(q, x).body = x.body
  <2> DEFINE y == [x EXCEPT !.by = x.by \cup {q}]
  <2>1. y \in Text /\ y.by = x.by \cup {q} /\ y.body = x.body
    BY TextBy, <1>4
  <2>2. Touch(q, x) = [y EXCEPT !.stamp = x.stamp + 1]
    BY DEF Touch
  <2> HIDE DEF y
  <2> QED BY TextStamp, <1>4, <2>1, <2>2
<1>6. ASSUME NEW a \in BOOLEAN
       PROVE  /\ Transitioned(q, x, a) \in Text /\ x.by \subseteq Transitioned(q, x, a).by
              /\ Transitioned(q, x, a).body = x.body
  BY TextField, <1>5 DEF Transitioned
<1>7. /\ RecordAgentKind(q, x) \in Text /\ x.by \subseteq RecordAgentKind(q, x).by
       /\ RecordAgentKind(q, x).body = x.body
  BY TextField, <1>5 DEF RecordAgentKind
<1>8. ASSUME NEW m \in Body
       PROVE  LET y == Rewritten(q, x, m) IN y \in Text /\ y.by = x.by /\ m.by \subseteq y.body.by
  <2>1. m.by \cup {q} \in SUBSET All
    BY <1>1, <1>2
  <2> DEFINE y == [x EXCEPT !.stamp = x.stamp + 1]
             n == [m EXCEPT !.by = m.by \cup {q}]
  <2>2. y \in Text /\ y.by = x.by
    BY TextStamp, <1>4
  <2>3. n \in Body /\ n.by = m.by \cup {q}
    BY BodyBy, <2>1
  <2>4. Rewritten(q, x, m) = [y EXCEPT !.body = n]
    BY DEF Rewritten
  <2> HIDE DEF y, n
  <2> QED BY TextBody, <2>2, <2>3, <2>4
<1>9. /\ AppendNote(q, x) \in Text /\ x.by = AppendNote(q, x).by
       /\ x.body.by \subseteq AppendNote(q, x).body.by
  <2> DEFINE m == [x.body EXCEPT !.warn = TRUE, !.recovery = TRUE]
  <2>1. m \in Body /\ m.by = x.body.by
    BY BodyFlag, <1>3
  <2> QED BY <1>8, <2>1 DEF AppendNote
<1>10. /\ UpsertArtifacts(q, x) \in Text /\ x.by = UpsertArtifacts(q, x).by
       /\ x.body.by \subseteq UpsertArtifacts(q, x).body.by
  <2>1. [x.body EXCEPT !.artifacts = TRUE] \in Body /\ [x.body EXCEPT !.artifacts = TRUE].by = x.body.by
    BY BodyFlag, <1>3
  <2> QED BY <1>8, <2>1 DEF UpsertArtifacts
<1>11. /\ StripWarnings(x) \in Text /\ x.by = StripWarnings(x).by
       /\ x.body.by = StripWarnings(x).body.by
  <2> DEFINE m == [x.body EXCEPT !.warn = FALSE]
  <2>1. m \in Body /\ m.by = x.body.by
    BY BodyFlag, <1>3
  <2>2. StripWarnings(x) = [x EXCEPT !.body = m]
    BY DEF StripWarnings
  <2> HIDE DEF m
  <2> QED BY TextBody, <2>1, <2>2
<1>12. /\ ResolveRecovery(q, x) \in Text /\ x.by = ResolveRecovery(q, x).by
       /\ x.body.by \subseteq ResolveRecovery(q, x).body.by
  <2> DEFINE m == [x.body EXCEPT !.by = x.body.by \cup {q}]
             y == [x EXCEPT !.body = m]
             n == [y.body EXCEPT !.recovery = FALSE]
  <2>1. m \in Body /\ m.by = x.body.by \cup {q}
    BY <1>1, <1>2, BodyBy, <1>3
  <2>2. y \in Text /\ y.by = x.by /\ y.body = m
    BY TextBody, <2>1
  <2>3. ResolveRecovery(q, x) = [y EXCEPT !.body = n]
    BY DEF ResolveRecovery
  <2> HIDE DEF m, y
  <2>4. n \in Body /\ n.by = m.by
    BY BodyFlag, <2>1, <2>2
  <2> HIDE DEF n
  <2> QED BY TextBody, <2>1, <2>2, <2>3, <2>4
<1>13. UpdateFields(q, x) \in Text /\ Keeps(job[q], x, UpdateFields(q, x))
  <2> DEFINE y == Touch(q, x)
             d == IF Given(q, "blocked_by") THEN job[q].want ELSE y.blocked_by
             y1 == [y EXCEPT !.blocked_by = d]
             a == (y.active \/ Given(q, "open")) /\ ~Given(q, "close")
             y2 == [y1 EXCEPT !.active = a]
             p == (y.pinned \/ Given(q, "pin")) /\ ~Given(q, "unpin")
             y3 == [y2 EXCEPT !.pinned = p]
             n == IF Given(q, "description")
                  THEN [job[q].seen EXCEPT !.by = job[q].seen.by \cup {q}] ELSE y.body
  <2>1. UpdateFields(q, x) = [y3 EXCEPT !.body = n]
    BY DEF UpdateFields
  <2>2. /\ n \in Body
        /\ n.by = IF Described(job[q]) THEN job[q].seen.by \cup {q} ELSE x.body.by
    BY <1>1, <1>2, BodyBy, <1>3, <1>5 DEF Given, Described
  <2>3. d \in SUBSET TicketIds /\ a \in BOOLEAN /\ p \in BOOLEAN
    <3>1. y.blocked_by \in SUBSET TicketIds
      BY <1>5 DEF Text
    <3> QED BY <1>1, <3>1
  <2> HIDE DEF y, d, a, p, n
  <2>4. y1 \in Text /\ y1.by = y.by /\ y1.body = y.body
    BY TextField, <1>5, <2>3 DEF y
  <2> HIDE DEF y1
  <2>5. y2 \in Text /\ y2.by = y.by
    BY TextField, <2>3, <2>4
  <2> HIDE DEF y2
  <2>6. y3 \in Text /\ y3.by = y.by
    BY TextField, <2>3, <2>5
  <2> HIDE DEF y3
  <2>7. UpdateFields(q, x) \in Text /\ UpdateFields(q, x).by = y.by /\ UpdateFields(q, x).body = n
    BY TextBody, <2>1, <2>2, <2>6
  <2> QED BY <1>5, <2>2, <2>7 DEF Keeps, y
<1>14. job[q].kind # "patch" => ~Described(job[q])
  BY <1>1 DEF Fits, Described
<1>15. job[q].part = "strip" => job[q].kind = "activate"
  BY <1>1 DEF Fits
<1> QED BY <1>1, <1>6, <1>7, <1>9, <1>10, <1>11, <1>12, <1>13, <1>14, <1>15
     DEF Mutate, AllKinds, Keeps

(* The empty text. *)
LEMMA BlankText == NoBody \in Body /\ Blank \in Text /\ NoChanges(Blank)
<1>1. NoBody \in Body /\ NoBody.by = {}
  BY DEF NoBody, Body
<1>2. Blank.by = {} /\ Blank.body = NoBody
  BY DEF Blank
<1> HIDE DEF NoBody, Body
<1>3. Blank \in Text
  BY <1>1 DEF Blank, Text
<1> QED BY <1>1, <1>2, <1>3 DEF NoChanges

(* An operation that ends gives its locks back. *)
LEMMA FinishKeeps ==
  ASSUME BoardInv, NEW q \in Writers, NEW end \in Over, Finish(q, end), job[q].pc \notin Over,
         file' \in [TicketIds -> File], Absent',
         \A t \in TicketIds : flock[t] \in Writers \ {q} => file'[t] = file[t]
  PROVE  BoardInv'
<1>1. flock' = [t \in TicketIds |-> IF flock[t] = q THEN None ELSE flock[t]]
  BY DEF Finish, Release
<1>2. flock' \in [TicketIds -> Writers \cup {None}] /\ \A t \in TicketIds : flock[t] \in Writers \ {q} => flock'[t] = flock[t]
  BY <1>1 DEF BoardInv, BoardTyped
<1>3. job[q] \in JobRec /\ Fits(job[q])
  BY DEF BoardInv, BoardTyped, JobSound
<1> DEFINE j == IF job[q].part = "strip" /\ end = "done" THEN [job[q] EXCEPT !.pc = "idle", !.part = "move"]
                ELSE [IdleJob EXCEPT !.pc = end]
<1>4. job' = [job EXCEPT ![q] = j]
  BY DEF Finish, Set
<1>5. NoBody \in Body /\ Blank \in Text /\ NoChanges(Blank)
  BY BlankText
<1>6. IdleJob \in JobRec /\ IdleJob.latest = Blank /\ IdleJob.part = "all" /\ IdleJob.kind = "note" /\ IdleJob.fields = {}
  <2>1. 0 \in 0..MaxId
    BY BoardAssumption
  <2> QED BY <1>5, <2>1 DEF IdleJob, JobRec, AllKinds
<1>7. j \in JobRec /\ Fits(j) /\ j.pc \notin AtWork
  <2>1. CASE job[q].part = "strip" /\ end = "done"
    <3>1. j = [job[q] EXCEPT !.pc = "idle", !.part = "move"]
      BY <2>1
    <3>2. j \in JobRec /\ j.pc = "idle" /\ j.part = "move" /\ j.kind = job[q].kind /\ j.latest = job[q].latest
          /\ j.ticket = job[q].ticket /\ j.fields = job[q].fields
      BY <1>3, <3>1 DEF JobRec
    <3> HIDE DEF j
    <3>3. job[q].kind = "activate" /\ j.ticket \in TicketIds
      BY <1>3, <2>1, <3>2 DEF Fits
    <3> QED BY <1>3, <2>1, <3>2 DEF Fits, AtWork
  <2>2. CASE ~(job[q].part = "strip" /\ end = "done")
    <3>1. j = [IdleJob EXCEPT !.pc = end]
      BY <2>2
    <3>2. j \in JobRec /\ j.pc = end /\ j.part = "all" /\ j.kind = "note" /\ j.latest = Blank /\ j.fields = {}
      BY <1>6, <3>1 DEF JobRec
    <3> HIDE DEF j
    <3> QED BY <1>5, <3>2 DEF Fits, AtWork, Over
  <2> QED BY <2>1, <2>2
<1> HIDE DEF j
<1> QED BY <1>2, <1>4, <1>7, WriterKeeps

(* Files and locks are as they were. *)
LEMMA JobKeeps ==
  ASSUME BoardInv, NEW q \in Writers, NEW j \in JobRec, job' = [job EXCEPT ![q] = j], UNCHANGED <<file, flock>>,
         Fits(j),
         j.pc \in AtWork => job[q].pc \in AtWork /\ j.ticket = job[q].ticket /\ InHand(file[j.ticket].text, j)
  PROVE  BoardInv'
<1>1. /\ file' \in [TicketIds -> File] /\ flock' \in [TicketIds -> Writers \cup {None}] /\ Absent'
  BY DEF BoardInv, BoardTyped, Absent
<1>2. job[q].pc \in AtWork => job[q].ticket \in TicketIds /\ flock[job[q].ticket] = q
  BY DEF BoardInv, JobSound
<1> QED BY <1>1, <1>2, WriterKeeps

(* At the start nobody is at work and no ticket was changed. *)
LEMMA BoardStarts == InitBoard => BoardInv
<1> SUFFICES ASSUME InitBoard PROVE BoardInv
  OBVIOUS
<1>1. /\ Blank \in Text /\ NoChanges(Blank) /\ NoFile \in File /\ NoChanges(NoFile.text)
      /\ NoBody \in Body
  BY BlankText DEF NoFile, File, Shapes
<1>2. IdleJob \in JobRec /\ IdleJob.pc = "idle" /\ IdleJob.latest = Blank /\ IdleJob.part = "all"
      /\ IdleJob.kind = "note" /\ IdleJob.fields = {}
  <2>1. 0 \in 0..MaxId
    BY BoardAssumption
  <2> QED BY <1>1, <2>1 DEF IdleJob, JobRec, AllKinds
<1>3. PICK fresh \in [Old -> BOOLEAN] :
        file = [t \in TicketIds |->
                   IF t \notin Old THEN NoFile
                   ELSE [NoFile EXCEPT !.there = TRUE,
                           !.text = [Blank EXCEPT !.active = fresh[t],
                                       !.body.warn = ~fresh[t], !.body.recovery = ~fresh[t]]]]
  BY DEF InitBoard
<1>4. ASSUME NEW t \in TicketIds PROVE file[t] \in File /\ NoChanges(file[t].text)
  <2>1. CASE t \notin Old
    BY <1>1, <1>3, <2>1
  <2>2. CASE t \in Old
    <3> DEFINE x == [Blank EXCEPT !.active = fresh[t], !.body.warn = ~fresh[t], !.body.recovery = ~fresh[t]]
    <3>1. fresh[t] \in BOOLEAN /\ (~fresh[t]) \in BOOLEAN
      BY <2>2
    <3>2. x \in Text /\ NoChanges(x)
      <4> DEFINE y == [Blank EXCEPT !.active = fresh[t]]
                 m == [y.body EXCEPT !.warn = ~fresh[t]]
                 z == [y EXCEPT !.body = m]
                 n == [z.body EXCEPT !.recovery = ~fresh[t]]
      <4>1. y \in Text /\ y.by = {} /\ y.body \in Body /\ y.body.by = {}
        <5>1. Blank \in Text /\ Blank.by = {} /\ Blank.body \in Body /\ Blank.body.by = {}
          BY BlankText DEF NoChanges, Text
        <5>2. y \in Text /\ y.by = Blank.by /\ y.body = Blank.body
          <6> HIDE DEF Text, Body, Blank
          <6> QED BY <3>1, <5>1, TextField
        <5> QED BY <5>1, <5>2
      <4>2. x = [z EXCEPT !.body = n]
        OBVIOUS
      <4> HIDE DEF y, x
      <4>3. m \in Body /\ m.by = {}
        BY <3>1, <4>1, BodyFlag
      <4> HIDE DEF m
      <4>4. z \in Text /\ z.by = {} /\ z.body = m
        BY <4>1, <4>3, TextBody
      <4> HIDE DEF z
      <4>5. n \in Body /\ n.by = {}
        BY <3>1, <4>3, <4>4, BodyFlag
      <4> HIDE DEF n
      <4> QED BY <4>2, <4>4, <4>5, TextBody DEF NoChanges
    <3>3. file[t] = [NoFile EXCEPT !.there = TRUE, !.text = x]
      BY <1>3, <2>2
    <3> HIDE DEF x
    <3> QED BY <1>1, <3>2, <3>3 DEF File
  <2> QED BY <2>1, <2>2
<1>5. file \in [TicketIds -> File]
  BY <1>3, <1>4
<1>6. /\ flock \in [TicketIds -> Writers \cup {None}] /\ job \in [Writers -> JobRec]
      /\ \A q \in Writers : job[q] = IdleJob
  BY <1>2 DEF InitBoard
<1>7. \A q \in Writers : JobSound(q)
  BY <1>1, <1>2, <1>6 DEF JobSound, Fits, AtWork
<1> QED BY <1>4, <1>5, <1>6, <1>7 DEF BoardInv, BoardTyped, Absent

(* The ways into an operation on a ticket, up to its lock. *)
LEMMA WayIn ==
  ASSUME BoardInv, NEW q \in Writers, Begin(q) \/ BeginMove(q) \/ Validate(q)
  PROVE  BoardInv'
<1>1. UNCHANGED <<file, flock>> /\ job[q] \in JobRec /\ Fits(job[q])
  BY DEF Begin, BeginMove, Validate, BoardInv, BoardTyped, JobSound
<1>2. CASE Begin(q)
  <2>1. PICK k \in Operations[q] \ {"create"}, t \in Targets[q], g \in SUBSET Fields, b \in Lists \cup {{}} :
          /\ k # "patch" => g = {}
          /\ Set(q, [job[q] EXCEPT !.kind = k, !.ticket = t, !.fields = g, !.want = b,
                   !.seen = IF "description" \in g THEN file[t].text.body ELSE @,
                   !.part = IF k = "activate" THEN "strip" ELSE "all",
                   !.pc = CASE ~file[t].there -> "failed"
                            [] file[t].there /\ "blocked_by" \in g -> "scan"
                            [] OTHER -> "wait"])
    BY <1>2, BoardAssumption DEF Begin
  <2> DEFINE p == IF k = "activate" THEN "strip" ELSE "all"
             e == IF "description" \in g THEN file[t].text.body ELSE job[q].seen
             c == CASE ~file[t].there -> "failed" [] file[t].there /\ "blocked_by" \in g -> "scan" [] OTHER -> "wait"
             j == [job[q] EXCEPT !.kind = k, !.ticket = t, !.fields = g, !.want = b, !.seen = e, !.part = p, !.pc = c]
  <2>2. k \in AllKinds /\ k # "create" /\ t \in 0..MaxId /\ t \in TicketIds /\ b \in SUBSET TicketIds /\ p \in {"all", "strip", "move"}
    <3>1. k \in AllKinds /\ k # "create" /\ b \in SUBSET TicketIds /\ p \in {"all", "strip", "move"}
      BY BoardAssumption
    <3>2. t \in TicketIds
      BY BoardAssumption
    <3>3. t \in 0..MaxId
      BY <3>2, BoardAssumption DEF TicketIds
    <3> QED BY <3>1, <3>2, <3>3
  <2>3. c \in {"failed", "scan", "wait"} /\ (c = "scan" => k = "patch") /\ (p # "all" => k = "activate")
    BY <2>1, BoardAssumption DEF TicketIds
  <2>7. e \in Body
    <3>1. file[t] \in File /\ job[q].seen \in Body
      BY <1>1, <2>2 DEF BoardInv, BoardTyped, JobRec
    <3>2. file[t].text \in Text
      BY <3>1 DEF File
    <3> QED BY <3>1, <3>2 DEF Text
  <2>4. job' = [job EXCEPT ![q] = j]
    BY <2>1 DEF Set
  <2> HIDE DEF p, c, e
  <2>5. j \in JobRec /\ j.pc = c /\ j.kind = k /\ j.part = p /\ j.latest = job[q].latest /\ j.ticket \in TicketIds
        /\ j.fields = g
    BY <1>1, <2>2, <2>3, <2>7 DEF JobRec, Over
  <2> HIDE DEF j
  <2>6. Fits(j) /\ j.pc \notin AtWork
    BY <2>1, <2>2, <2>3, <2>5 DEF Fits, AtWork, Over
  <2> QED BY <1>1, <2>4, <2>5, <2>6, JobKeeps
<1>3. CASE BeginMove(q) \/ Validate(q)
  <2>1. PICK c \in {"wait", "failed"} : Set(q, [job[q] EXCEPT !.pc = c])
    BY <1>3 DEF BeginMove, Validate
  <2> DEFINE j == [job[q] EXCEPT !.pc = c]
  <2>2. j \in JobRec /\ j.pc = c /\ j.kind = job[q].kind /\ j.part = job[q].part /\ j.latest = job[q].latest
        /\ j.ticket = job[q].ticket /\ j.fields = job[q].fields
    BY <1>1 DEF JobRec, Over
  <2>3. job' = [job EXCEPT ![q] = j]
    BY <2>1 DEF Set
  <2>4. job[q].kind # "create" /\ job[q].ticket \in TicketIds
    BY <1>1, <1>3 DEF BeginMove, Validate, Fits, Over
  <2> HIDE DEF j
  <2>5. Fits(j) /\ j.pc \notin AtWork
    BY <1>1, <2>2, <2>4 DEF Fits, AtWork, Over
  <2> QED BY <1>1, <2>2, <2>3, <2>5, JobKeeps
<1> QED BY <1>2, <1>3

(* The lock is taken. *)
LEMMA LockTicketKeeps ==
  ASSUME BoardInv, NEW q \in Writers, LockTicket(q)
  PROVE  BoardInv'
<1> DEFINE t == job[q].ticket
<1>1. /\ job[q] \in JobRec /\ Fits(job[q]) /\ job[q].pc = "wait" /\ job[q].kind # "delete" /\ flock[t] = None
      /\ file' = file /\ file \in [TicketIds -> File] /\ flock \in [TicketIds -> Writers \cup {None}]
  BY DEF LockTicket, BoardInv, BoardTyped, JobSound
<1>4. t \in TicketIds /\ job[q].kind # "create"
  BY <1>1 DEF Fits, Over
<1>2. CASE file[t].there
  <2> DEFINE c == IF job[q].kind = "resolve" THEN "reread" ELSE "parse"
             j == [job[q] EXCEPT !.look = file[t].mtime, !.tries = 0, !.pc = c]
  <2>1. flock' = [flock EXCEPT ![t] = q] /\ job' = [job EXCEPT ![q] = j]
    BY <1>2 DEF LockTicket, Set
  <2>2. t \in TicketIds /\ file[t].mtime \in Nat /\ c \in {"reread", "parse"}
    BY <1>1, <1>4 DEF File
  <2>3. j \in JobRec /\ j.pc = c /\ j.kind = job[q].kind /\ j.part = job[q].part /\ j.latest = job[q].latest
        /\ j.ticket = t /\ j.fields = job[q].fields
    <3> HIDE DEF c
    <3> QED BY <1>1, <2>2 DEF JobRec
  <2>4. c = "reread" => job[q].kind = "resolve"
    OBVIOUS
  <2> HIDE DEF c, j
  <2>5. flock' \in [TicketIds -> Writers \cup {None}] /\ flock'[t] = q
        /\ \A u \in TicketIds : flock[u] \in Writers \ {q} => flock'[u] = flock[u]
    BY <1>1, <2>1, <2>2, BoardAssumption
  <2>6. Fits(j) /\ InHand(file'[t].text, j)
    BY <1>1, <1>4, <2>2, <2>3, <2>4 DEF Fits, InHand, Holds, Described, Over
  <2>7. Absent'
    BY <1>1 DEF BoardInv, Absent
  <2> QED BY <1>1, <2>1, <2>2, <2>3, <2>5, <2>6, <2>7, WriterKeeps
<1>3. CASE ~file[t].there
  <2> DEFINE j == [job[q] EXCEPT !.pc = "failed"]
  <2>1. flock' = flock /\ job' = [job EXCEPT ![q] = j]
    BY <1>3 DEF LockTicket, Set
  <2>2. j \in JobRec /\ j.pc = "failed" /\ j.kind = job[q].kind /\ j.part = job[q].part /\ j.latest = job[q].latest
        /\ j.ticket = job[q].ticket /\ j.fields = job[q].fields
    BY <1>1 DEF JobRec, Over
  <2> HIDE DEF j
  <2>3. Fits(j) /\ j.pc \notin AtWork
    BY <1>1, <2>2 DEF Fits, AtWork, Over
  <2> QED BY <1>1, <2>1, <2>2, <2>3, JobKeeps
<1> QED BY <1>2, <1>3

(* What the invariant says of a job at work. *)
LEMMA AtWorkKnows ==
  ASSUME BoardInv, NEW q \in Writers, job[q].pc \in AtWork
  PROVE  LET t == job[q].ticket IN
         /\ t \in TicketIds /\ flock[t] = q /\ InHand(file[t].text, job[q])
         /\ file[t].text \in Text /\ file[t].mtime \in Nat /\ file[t].text.stamp \in Nat
         /\ job[q] \in JobRec /\ Fits(job[q]) /\ job[q].pc \notin Over /\ job[q].pc # "idle"
<1>1. job[q] \in JobRec /\ Fits(job[q]) /\ job[q].ticket \in TicketIds /\ flock[job[q].ticket] = q
      /\ InHand(file[job[q].ticket].text, job[q])
  BY DEF BoardInv, BoardTyped, JobSound
<1>2. file[job[q].ticket] \in File
  BY <1>1 DEF BoardInv, BoardTyped
<1>3. file[job[q].ticket].text \in Text /\ file[job[q].ticket].mtime \in Nat
  BY <1>2 DEF File
<1>4. file[job[q].ticket].text.stamp \in Nat
  BY <1>3 DEF Text
<1> QED BY <1>1, <1>3, <1>4 DEF AtWork, Over

(* An operation ends without a save. *)
LEMMA GiveUpKeeps ==
  ASSUME BoardInv, NEW q \in Writers, NEW end \in Over, Finish(q, end), job[q].pc \notin Over, file' = file
  PROVE  BoardInv'
  BY FinishKeeps DEF BoardInv, BoardTyped, Absent

(* The first parse: the draft has what the file has. *)
LEMMA ParseKeeps ==
  ASSUME BoardInv, NEW q \in Writers, Parse(q)
  PROVE  BoardInv'
<1> DEFINE t == job[q].ticket
           x == file[t].text
           d == Mutate(q, x)
           j == [job[q] EXCEPT !.pc = "reread", !.latest = x, !.token = <<x.stamp, job[q].look>>, !.draft = d]
<1>1. job[q].pc = "parse" /\ file' = file
  BY DEF Parse
<1>2. /\ t \in TicketIds /\ x \in Text /\ x.stamp \in Nat
      /\ job[q] \in JobRec /\ Fits(job[q]) /\ job[q].pc \notin Over
  BY <1>1, AtWorkKnows DEF AtWork
<1>3. (\E end \in Over : Finish(q, end)) \/ (job' = [job EXCEPT ![q] = j] /\ flock' = flock)
  BY DEF Parse, Set, Over
<1>4. CASE \E end \in Over : Finish(q, end)
  BY <1>1, <1>2, <1>4, GiveUpKeeps
<1>5. CASE job' = [job EXCEPT ![q] = j] /\ flock' = flock
  <2>1. job[q].kind \notin {"create", "delete"}
    BY <1>1, <1>2 DEF Fits
  <2>2. d \in Text /\ Keeps(job[q], x, d)
    BY <1>2, <2>1, MutateAdds
  <2> HIDE DEF d
  <2>3. <<x.stamp, job[q].look>> \in Nat \X Nat /\ <<x.stamp, job[q].look>>[1] = x.stamp
    BY <1>2 DEF JobRec
  <2> HIDE DEF x
  <2>4. j \in JobRec /\ j.pc = "reread" /\ j.kind = job[q].kind /\ j.part = job[q].part /\ j.ticket = t
        /\ j.token[1] = x.stamp /\ j.draft = d /\ j.latest = x /\ j.fields = job[q].fields /\ j.seen = job[q].seen
    BY <1>2, <2>2, <2>3 DEF JobRec
  <2> HIDE DEF j
  <2>5. Fits(j)
    BY <1>2, <2>1, <2>4 DEF Fits
  <2>6. InHand(x, j)
    BY <1>2, <2>2, <2>4 DEF InHand, Holds, Follows, Keeps, Described
  <2> QED BY <1>1, <1>5, <2>4, <2>5, <2>6, JobKeeps DEF AtWork, x
<1> QED BY <1>3, <1>4, <1>5

(* The second parse: what changed since then is seen. *)
LEMMA RereadKeeps ==
  ASSUME BoardInv, NEW q \in Writers, Reread(q)
  PROVE  BoardInv'
<1> DEFINE t == job[q].ticket
           x == file[t].text
           d == IF job[q].kind = "resolve" THEN Mutate(q, x) ELSE job[q].draft
           j == [job[q] EXCEPT !.pc = "compare", !.latest = x, !.draft = d]
<1>1. job[q].pc = "reread" /\ file' = file
  BY DEF Reread
<1>2. /\ t \in TicketIds /\ x \in Text /\ x.stamp \in Nat /\ InHand(x, job[q])
      /\ job[q] \in JobRec /\ Fits(job[q]) /\ job[q].pc \notin Over
  BY <1>1, AtWorkKnows DEF AtWork
<1>3. (\E end \in Over : Finish(q, end)) \/ (job' = [job EXCEPT ![q] = j] /\ flock' = flock)
  BY DEF Reread, Set, Over
<1>4. CASE \E end \in Over : Finish(q, end)
  BY <1>1, <1>2, <1>4, GiveUpKeeps
<1>5. CASE job' = [job EXCEPT ![q] = j] /\ flock' = flock
  <2>1. job[q].kind \notin {"create", "delete"} /\ job[q].draft \in Text
    BY <1>1, <1>2 DEF Fits, JobRec
  <2>2. d \in Text /\ (job[q].kind = "resolve" => Keeps(job[q], x, d)) /\ (job[q].kind # "resolve" => d = job[q].draft)
    BY <1>2, <2>1, MutateAdds
  <2> HIDE DEF d, x
  <2>4. j \in JobRec /\ j.pc = "compare" /\ j.kind = job[q].kind /\ j.part = job[q].part /\ j.ticket = t
        /\ j.token = job[q].token /\ j.draft = d /\ j.latest = x /\ j.fields = job[q].fields /\ j.seen = job[q].seen
    BY <1>2, <2>2 DEF JobRec
  <2> HIDE DEF j
  <2>5. Fits(j)
    BY <1>2, <2>1, <2>4 DEF Fits
  <2>6. InHand(x, j)
    <3>1. job[q].kind = "resolve" => ~Described(j)
      BY <1>2, <2>4 DEF Fits, Described
    <3> QED BY <1>1, <1>2, <2>2, <2>4, <3>1 DEF InHand, Holds, Follows, Keeps, Described
  <2> QED BY <1>1, <1>5, <2>4, <2>5, <2>6, JobKeeps DEF AtWork, x
<1> QED BY <1>3, <1>4, <1>5

(* The comparison: the same stamp, or the change applied once more. *)
LEMMA CompareKeeps ==
  ASSUME BoardInv, NEW q \in Writers, Compare(q)
  PROVE  BoardInv'
<1> DEFINE t == job[q].ticket
           x == file[t].text
           tok == <<job[q].latest.stamp, file[t].mtime>>
           d == Mutate(q, job[q].latest)
           c == IF job[q].tries = Rounds - 1 THEN "write" ELSE "reread"
           a == [job[q] EXCEPT !.pc = "write"]
           n == job[q].tries + 1
           b == [job[q] EXCEPT !.token = tok, !.tries = n, !.draft = d, !.pc = c]
<1>1. job[q].pc = "compare" /\ job[q].kind # "resolve" /\ file' = file
  BY DEF Compare
<1>2. /\ t \in TicketIds /\ x \in Text /\ x.stamp \in Nat /\ file[t].mtime \in Nat /\ InHand(x, job[q])
      /\ job[q] \in JobRec /\ Fits(job[q]) /\ job[q].pc \notin Over
  BY <1>1, AtWorkKnows DEF AtWork
<1>3. job[q].kind \notin {"create", "delete"} /\ job[q].latest \in Text /\ job[q].latest.stamp \in Nat /\ job[q].tries \in Nat
  BY <1>1, <1>2 DEF Fits, JobRec, Text
<1>4. \/ \E end \in Over : Finish(q, end)
      \/ job' = [job EXCEPT ![q] = a] /\ flock' = flock /\ tok = job[q].token
      \/ job' = [job EXCEPT ![q] = b] /\ flock' = flock
  BY DEF Compare, Reapply, Set, Over
<1>5. CASE \E end \in Over : Finish(q, end)
  BY <1>1, <1>2, <1>5, GiveUpKeeps
<1>6. CASE job' = [job EXCEPT ![q] = a] /\ flock' = flock /\ tok = job[q].token
  <2>1. job[q].token[1] = job[q].latest.stamp
    BY <1>6
  <2> HIDE DEF x
  <2>2. a \in JobRec /\ a.pc = "write" /\ a.kind = job[q].kind /\ a.part = job[q].part /\ a.ticket = t
        /\ a.draft = job[q].draft /\ a.latest = job[q].latest /\ a.fields = job[q].fields /\ a.seen = job[q].seen
    BY <1>2 DEF JobRec
  <2> HIDE DEF a
  <2>3. Fits(a)
    BY <1>2, <1>3, <2>2 DEF Fits
  <2>4. InHand(x, a)
    BY <1>1, <1>2, <2>1, <2>2 DEF InHand, Holds, Described
  <2> QED BY <1>1, <1>6, <2>2, <2>3, <2>4, JobKeeps DEF AtWork, x
<1>7. CASE job' = [job EXCEPT ![q] = b] /\ flock' = flock
  <2>1. d \in Text /\ Keeps(job[q], job[q].latest, d)
    BY <1>3, MutateAdds
  <2>2. tok \in Nat \X Nat /\ tok[1] = job[q].latest.stamp /\ c \in {"write", "reread"} /\ n \in Nat
    BY <1>2, <1>3
  <2> HIDE DEF d, x, tok, c, n
  <2>3. b \in JobRec /\ b.pc = c /\ b.kind = job[q].kind /\ b.part = job[q].part /\ b.ticket = t
        /\ b.draft = d /\ b.latest = job[q].latest /\ b.token = tok /\ b.fields = job[q].fields /\ b.seen = job[q].seen
    BY <1>2, <1>3, <2>1, <2>2 DEF JobRec
  <2> HIDE DEF b
  <2>4. Fits(b)
    BY <1>2, <1>3, <2>2, <2>3 DEF Fits
  <2>5. InHand(x, b)
    BY <1>1, <1>2, <2>1, <2>2, <2>3 DEF InHand, Holds, Follows, Keeps, Described
  <2> QED BY <1>1, <1>7, <2>2, <2>3, <2>4, <2>5, JobKeeps DEF AtWork, x
<1> QED BY <1>4, <1>5, <1>6, <1>7

(* The comparison of a recovery splice. *)
LEMMA CompareBytesKeeps ==
  ASSUME BoardInv, NEW q \in Writers, CompareBytes(q)
  PROVE  BoardInv'
<1> DEFINE t == job[q].ticket
           x == file[t].text
           a == [job[q] EXCEPT !.pc = "write"]
           n == job[q].tries + 1
           b == [job[q] EXCEPT !.pc = "reread", !.tries = n]
<1>1. job[q].pc = "compare" /\ job[q].kind = "resolve" /\ file' = file
  BY DEF CompareBytes
<1>2. /\ t \in TicketIds /\ InHand(x, job[q]) /\ job[q] \in JobRec /\ Fits(job[q]) /\ job[q].pc \notin Over
  BY <1>1, AtWorkKnows DEF AtWork
<1>3. \/ \E end \in Over : Finish(q, end)
      \/ job' = [job EXCEPT ![q] = a] /\ flock' = flock
      \/ job' = [job EXCEPT ![q] = b] /\ flock' = flock
  BY DEF CompareBytes, Set, Over
<1>4. CASE \E end \in Over : Finish(q, end)
  BY <1>1, <1>2, <1>4, GiveUpKeeps
<1>5. CASE job' = [job EXCEPT ![q] = a] /\ flock' = flock
  <2> HIDE DEF x
  <2>1. a \in JobRec /\ a.pc = "write" /\ a.kind = job[q].kind /\ a.part = job[q].part /\ a.ticket = t
        /\ a.draft = job[q].draft /\ a.latest = job[q].latest /\ a.fields = job[q].fields /\ a.seen = job[q].seen
    BY <1>2 DEF JobRec
  <2> HIDE DEF a
  <2>2. Fits(a)
    BY <1>1, <1>2, <2>1 DEF Fits
  <2>3. InHand(x, a)
    BY <1>1, <1>2, <2>1 DEF InHand, Holds, Described
  <2> QED BY <1>1, <1>5, <2>1, <2>2, <2>3, JobKeeps DEF AtWork, x
<1>6. CASE job' = [job EXCEPT ![q] = b] /\ flock' = flock
  <2>0. n \in Nat
    BY <1>2 DEF JobRec
  <2> HIDE DEF x, n
  <2>1. b \in JobRec /\ b.pc = "reread" /\ b.kind = job[q].kind /\ b.part = job[q].part /\ b.ticket = t
        /\ b.fields = job[q].fields
    BY <1>2, <2>0 DEF JobRec
  <2> HIDE DEF b
  <2>2. Fits(b)
    BY <1>1, <1>2, <2>1 DEF Fits
  <2>3. InHand(x, b)
    <3>1. ~Described(b)
      BY <1>1, <1>2, <2>1 DEF Fits, Described
    <3> QED BY <1>1, <2>1, <3>1 DEF InHand, Holds
  <2> QED BY <1>1, <1>6, <2>1, <2>2, <2>3, JobKeeps DEF AtWork, x
<1> QED BY <1>3, <1>4, <1>5, <1>6

(* The rename. *)
LEMMA WriteKeeps ==
  ASSUME BoardInv, NEW q \in Writers, WriteTicket(q)
  PROVE  BoardInv'
<1> DEFINE t == job[q].ticket
<1>1. job[q].pc = "write" /\ Finish(q, "done")
      /\ file' = [file EXCEPT ![t] = [there |-> TRUE, shape |-> "fine", text |-> job[q].draft, mtime |-> file[t].mtime + 1]]
  BY DEF WriteTicket
<1>2. t \in TicketIds /\ flock[t] = q /\ file[t].mtime \in Nat /\ job[q] \in JobRec /\ job[q].pc \notin Over
  BY <1>1, AtWorkKnows DEF AtWork
<1> DEFINE f == [there |-> TRUE, shape |-> "fine", text |-> job[q].draft, mtime |-> file[t].mtime + 1]
<1>3. f \in File /\ f.there
  BY <1>2 DEF File, JobRec, Shapes
<1> HIDE DEF f
<1>4. file' = [file EXCEPT ![t] = f] /\ file \in [TicketIds -> File]
  BY <1>1 DEF f, BoardInv, BoardTyped
<1>5. file' \in [TicketIds -> File] /\ \A u \in TicketIds : file'[u] = IF u = t THEN f ELSE file[u]
  BY <1>2, <1>3, <1>4
<1>6. Absent'
  BY <1>3, <1>5 DEF BoardInv, Absent
<1> QED BY <1>1, <1>2, <1>5, <1>6, FinishKeeps DEF Over

(* A deletion under nobody's lock. *)
LEMMA DeleteKeeps ==
  ASSUME BoardInv, NEW q \in Writers, Delete(q)
  PROVE  BoardInv'
<1> DEFINE t == job[q].ticket
<1>1. /\ job[q].pc = "wait" /\ job[q].kind = "delete" /\ flock[t] = None /\ file' = [file EXCEPT ![t] = NoFile] /\ flock' = flock
      /\ job[q] \in JobRec /\ Fits(job[q]) /\ file \in [TicketIds -> File] /\ flock \in [TicketIds -> Writers \cup {None}]
  BY DEF Delete, BoardInv, BoardTyped, JobSound
<1>2. PICK c \in {"done", "failed"} : job' = [job EXCEPT ![q] = [job[q] EXCEPT !.pc = c]]
  BY DEF Delete, Set
<1> DEFINE j == [job[q] EXCEPT !.pc = c]
<1>3. j \in JobRec /\ j.pc = c /\ j.kind = job[q].kind /\ j.part = job[q].part /\ j.latest = job[q].latest /\ j.ticket = t
      /\ j.fields = job[q].fields
  BY <1>1 DEF JobRec, Over
<1>4. NoFile \in File /\ NoChanges(NoFile.text)
  BY BlankText DEF NoFile, File, Shapes
<1>5. file' \in [TicketIds -> File] /\ \A u \in TicketIds : file'[u] = IF u = t THEN NoFile ELSE file[u]
  BY <1>1, <1>4
<1>6. Absent'
  BY <1>4, <1>5 DEF BoardInv, Absent
<1>7. \A u \in TicketIds : flock[u] \in Writers \ {q} => flock'[u] = flock[u] /\ file'[u] = file[u]
  BY <1>1, <1>5, BoardAssumption
<1>8. job' = [job EXCEPT ![q] = j]
  BY <1>2
<1> HIDE DEF j
<1>9. Fits(j) /\ j.pc \notin AtWork
  BY <1>1, <1>3 DEF Fits, AtWork, Over
<1> QED BY <1>1, <1>3, <1>5, <1>6, <1>7, <1>8, <1>9, WriterKeeps

(* Some ticket has the highest number, and the next one follows it. *)
LEMMA NextIsANumber ==
  ASSUME BoardInv, NextIdentifier <= MaxId
  PROVE  NextIdentifier \in TicketIds
<1> DEFINE Highest(n) == (n = 0 \/ file[n].there) /\ \A t \in TicketIds : file[t].there => t <= n
           Above == {m \in Nat : m <= MaxId /\ \A t \in TicketIds : file[t].there => t <= m}
<1>1. MaxId \in Nat /\ TicketIds = 1..MaxId
  BY BoardAssumption DEF TicketIds
<1>2. MaxId \in Above
  BY <1>1
<1>3. PICK m \in Above : \A k \in Above : m <= k
  BY <1>2, LeastExists
<1>4. m \in 0..MaxId /\ Highest(m)
  <2>1. m \in Nat /\ m <= MaxId /\ \A t \in TicketIds : file[t].there => t <= m
    BY <1>3
  <2>2. ASSUME m # 0, ~file[m].there PROVE FALSE
    <3>1. m - 1 \in Nat /\ m - 1 <= MaxId
      BY <1>1, <2>1, <2>2
    <3>2. \A t \in TicketIds : file[t].there => t <= m - 1
      BY <1>1, <2>1, <2>2
    <3>3. m - 1 \in Above
      BY <3>1, <3>2
    <3> QED BY <1>3, <2>1, <3>3
  <2> QED BY <1>1, <2>1, <2>2
<1> DEFINE top == CHOOSE n \in 0..MaxId : Highest(n)
<1>5. top \in 0..MaxId
  BY <1>4
<1>6. NextIdentifier = 1 + top
  BY DEF NextIdentifier
<1> HIDE DEF top
<1> QED BY <1>1, <1>5, <1>6

(* A new ticket gets its number. *)
LEMMA AllocateKeeps ==
  ASSUME BoardInv, NEW q \in Writers, AllocateId(q)
  PROVE  BoardInv'
<1>1. UNCHANGED <<file, flock>> /\ job[q].pc = "idle" /\ job[q].part = "all" /\ job[q] \in JobRec /\ Fits(job[q])
  BY DEF AllocateId, BoardInv, BoardTyped, JobSound
<1>2. NoChanges(job[q].latest) /\ job[q].fields = {}
  BY <1>1 DEF Fits
<1>3. CASE \E b \in Lists : NextIdentifier <= MaxId /\ Set(q, [job[q] EXCEPT !.pc = "exists", !.kind = "create",
                           !.want = b, !.ticket = NextIdentifier])
  <2>1. PICK b \in Lists : NextIdentifier <= MaxId /\ Set(q, [job[q] EXCEPT !.pc = "exists", !.kind = "create",
                           !.want = b, !.ticket = NextIdentifier])
    BY <1>3
  <2> DEFINE n == NextIdentifier
             j == [job[q] EXCEPT !.pc = "exists", !.kind = "create", !.want = b, !.ticket = n]
  <2>2. n \in TicketIds /\ b \in SUBSET TicketIds
    BY <2>1, NextIsANumber, BoardAssumption
  <2>3. job' = [job EXCEPT ![q] = j]
    BY <2>1 DEF Set
  <2> HIDE DEF n
  <2>4. n \in 0..MaxId
    BY <2>2, BoardAssumption DEF TicketIds
  <2>5. j \in JobRec /\ j.pc = "exists" /\ j.kind = "create" /\ j.part = "all" /\ j.latest = job[q].latest /\ j.ticket = n
        /\ j.fields = job[q].fields
    BY <1>1, <2>2, <2>4 DEF JobRec, AllKinds
  <2> HIDE DEF j
  <2>6. Fits(j) /\ j.pc \notin AtWork
    BY <1>2, <2>2, <2>5 DEF Fits, AtWork, Over
  <2> QED BY <1>1, <2>3, <2>5, <2>6, JobKeeps
<1>4. CASE Set(q, [job[q] EXCEPT !.pc = "failed"])
  <2> DEFINE j == [job[q] EXCEPT !.pc = "failed"]
  <2>1. j \in JobRec /\ j.pc = "failed" /\ j.part = "all" /\ j.latest = job[q].latest /\ j.fields = job[q].fields
    BY <1>1 DEF JobRec, Over
  <2>2. job' = [job EXCEPT ![q] = j]
    BY <1>4 DEF Set
  <2> HIDE DEF j
  <2>3. Fits(j) /\ j.pc \notin AtWork
    BY <1>2, <2>1 DEF Fits, AtWork, Over
  <2> QED BY <1>1, <2>1, <2>2, <2>3, JobKeeps
<1> QED BY <1>3, <1>4 DEF AllocateId

(* A new ticket gets its lock, or the next number. *)
LEMMA CreateKeeps ==
  ASSUME BoardInv, NEW q \in Writers, CreateExists(q)
  PROVE  BoardInv'
<1> DEFINE t == job[q].ticket
<1>1. /\ job[q].pc = "exists" /\ file' = file /\ flock[t] = None
      /\ job[q] \in JobRec /\ Fits(job[q]) /\ file \in [TicketIds -> File] /\ flock \in [TicketIds -> Writers \cup {None}]
  BY DEF CreateExists, BoardInv, BoardTyped, JobSound
<1>2. job[q].kind = "create" /\ job[q].part = "all" /\ NoChanges(job[q].latest) /\ job[q].fields = {} /\ t \in TicketIds
  BY <1>1 DEF Fits, Over
<1>3. CASE Finish(q, "failed")
  BY <1>1, <1>3, GiveUpKeeps DEF Over
<1>4. CASE NextIdentifier <= MaxId /\ Set(q, [job[q] EXCEPT !.ticket = NextIdentifier]) /\ flock' = flock
  <2> DEFINE n == NextIdentifier
             j == [job[q] EXCEPT !.ticket = n]
  <2>2. n \in TicketIds
    BY <1>4, NextIsANumber
  <2>3. job' = [job EXCEPT ![q] = j]
    BY <1>4 DEF Set
  <2> HIDE DEF n
  <2>4. n \in 0..MaxId
    BY <2>2, BoardAssumption DEF TicketIds
  <2>5. j \in JobRec /\ j.pc = "exists" /\ j.kind = "create" /\ j.part = "all" /\ j.latest = job[q].latest /\ j.ticket = n
        /\ j.fields = job[q].fields
    BY <1>1, <1>2, <2>4 DEF JobRec
  <2> HIDE DEF j
  <2>6. Fits(j) /\ j.pc \notin AtWork
    BY <1>2, <2>2, <2>5 DEF Fits, AtWork, Over
  <2> QED BY <1>1, <1>4, <2>3, <2>5, <2>6, JobKeeps
<1>5. CASE ~file[t].there /\ flock' = [flock EXCEPT ![t] = q] /\ Set(q, [job[q] EXCEPT !.pc = "write", !.draft = NewTicket(q)])
  <2> DEFINE d == NewTicket(q)
             j == [job[q] EXCEPT !.pc = "write", !.draft = d]
  <2>1. d \in Text
    <3>1. {q} \in SUBSET (Writers \cup Hands) /\ job[q].want \in SUBSET TicketIds
      BY <1>1 DEF JobRec
    <3> DEFINE y == [Blank EXCEPT !.by = {q}]
               m == [y.body EXCEPT !.by = {q}]
               z == [y EXCEPT !.body = m]
    <3>2. y \in Text /\ y.body \in Body
      BY <3>1, BlankText, TextBy DEF Text
    <3>3. d = [z EXCEPT !.blocked_by = job[q].want]
      BY DEF NewTicket
    <3> HIDE DEF d, y
    <3>4. m \in Body
      BY <3>1, <3>2, BodyBy
    <3> HIDE DEF m
    <3>5. z \in Text
      BY <3>2, <3>4, TextBody
    <3> HIDE DEF z
    <3> QED BY <3>1, <3>3, <3>5, TextField
  <2>2. job' = [job EXCEPT ![q] = j]
    BY <1>5 DEF Set
  <2> HIDE DEF d
  <2>3. j \in JobRec /\ j.pc = "write" /\ j.kind = "create" /\ j.part = "all" /\ j.latest = job[q].latest /\ j.ticket = t
        /\ j.fields = {}
    BY <1>1, <1>2, <2>1 DEF JobRec
  <2> HIDE DEF j
  <2>4. Fits(j)
    BY <1>2, <2>3 DEF Fits, Over
  <2>5. NoChanges(file[t].text)
    BY <1>2, <1>5 DEF BoardInv, Absent
  <2>6. InHand(file[t].text, j)
    BY <1>2, <2>3, <2>5 DEF InHand, Holds, Described, NoChanges
  <2>7. flock' \in [TicketIds -> Writers \cup {None}] /\ flock'[t] = q
        /\ \A u \in TicketIds : flock[u] \in Writers \ {q} => flock'[u] = flock[u]
    BY <1>1, <1>2, <1>5, BoardAssumption
  <2>8. Absent'
    BY <1>1 DEF BoardInv, Absent
  <2> QED BY <1>1, <1>2, <2>2, <2>3, <2>4, <2>6, <2>7, <2>8, WriterKeeps
<1> QED BY <1>3, <1>4, <1>5 DEF CreateExists

(* What a direct edit leaves of its file. *)
LEMMA EditAdds ==
  ASSUME BoardInv, NEW h \in Hands, HandEdit(h)
  PROVE  /\ file' \in [TicketIds -> File] /\ UNCHANGED <<flock, job>>
         /\ \A t \in TicketIds : file'[t] = file[t] \/ file'[t].there
         /\ \A t \in TicketIds :
              /\ file[t].text.by \subseteq file'[t].text.by
              /\ file'[t].text.by \cap Writers = file[t].text.by \cap Writers
              /\ file[t].text.stamp <= file'[t].text.stamp
              /\ file'[t].text.stamp = file[t].text.stamp => file'[t].text.by \cap Stamped = file[t].text.by \cap Stamped
              /\ file[t].text.body.by \subseteq file'[t].text.body.by
              /\ file'[t].text.body.by \cap Writers = file[t].text.body.by \cap Writers
              /\ file'[t].text.stamp = file[t].text.stamp => file'[t].text.body.by \cap Stamped = file[t].text.body.by \cap Stamped
<1>1. PICK t \in TicketIds, shape \in Damage \cup {"fine"} :
         file' = [file EXCEPT ![t] =
              [there |-> TRUE, shape |-> shape, mtime |-> file[t].mtime + 1,
               text |-> [file[t].text EXCEPT !.by = file[t].text.by \cup {h},
                   !.body.by = file[t].text.body.by \cup {h},
                   !.stamp = IF h \in Stamped THEN file[t].text.stamp + 1 ELSE file[t].text.stamp]]]
  BY DEF HandEdit
<1>2. file \in [TicketIds -> File] /\ UNCHANGED <<flock, job>>
  BY DEF BoardInv, BoardTyped, HandEdit
<1> DEFINE x == file[t].text
           b == x.by \cup {h}
           s == IF h \in Stamped THEN x.stamp + 1 ELSE x.stamp
           c == x.body.by \cup {h}
           z == [x.body EXCEPT !.by = c]
           y == [x EXCEPT !.by = b, !.body.by = c, !.stamp = s]
           m == file[t].mtime + 1
           f == [there |-> TRUE, shape |-> shape, mtime |-> m, text |-> y]
<1>3. x \in Text /\ m \in Nat
  <2>1. file[t] \in File
    BY <1>2
  <2> QED BY <2>1 DEF File
<1>11. x.body \in Body
  BY <1>3 DEF Text
<1>4. /\ b \in SUBSET (Writers \cup Hands) /\ s \in Nat /\ x.stamp \in Nat
      /\ c \in SUBSET (Writers \cup Hands) /\ z \in Body /\ z.by = c
  BY <1>3, <1>11 DEF Text, Body
<1>5. x.by \subseteq b /\ b \cap Writers = x.by \cap Writers /\ x.stamp <= s /\ (s = x.stamp => b \cap Stamped = x.by \cap Stamped)
      /\ x.body.by \subseteq c /\ c \cap Writers = x.body.by \cap Writers
      /\ (s = x.stamp => c \cap Stamped = x.body.by \cap Stamped)
  BY <1>4, BoardAssumption
<1>6. file' = [file EXCEPT ![t] = f]
  BY <1>1
<1>12. y = [x EXCEPT !.by = b, !.body = z, !.stamp = s]
  BY <1>3 DEF Text
<1> HIDE DEF b, c, s, m, x, y, z
<1>7. y \in Text /\ y.by = b /\ y.stamp = s /\ y.body = z
  BY <1>3, <1>4, <1>12 DEF Text
<1>8. f \in File /\ f.there /\ f.text = y
  <2>1. shape \in Shapes
    BY DamageAssumption DEF Shapes
  <2> QED BY <1>3, <1>7, <2>1 DEF File
<1> HIDE DEF f
<1>9. file' \in [TicketIds -> File] /\ \A u \in TicketIds : file'[u] = IF u = t THEN f ELSE file[u]
  BY <1>2, <1>6, <1>8
<1>10. \A u \in TicketIds : file[u].text.stamp \in Nat
  BY <1>2 DEF File, Text
<1> QED BY <1>2, <1>4, <1>5, <1>7, <1>8, <1>9, <1>10 DEF x

(* A direct edit keeps what the jobs at work know of the file. *)
LEMMA EditKeeps ==
  ASSUME BoardInv, NEW h \in Hands, HandEdit(h)
  PROVE  BoardInv'
<1>1. BoardTyped' /\ UNCHANGED <<flock, job>>
  BY EditAdds DEF BoardInv, BoardTyped
<1>2. Absent'
  BY EditAdds DEF BoardInv, Absent
<1>3. ASSUME NEW q \in Writers PROVE JobSound(q)'
  <2>1. JobSound(q) /\ job[q] \in JobRec
    BY DEF BoardInv, BoardTyped
  <2>2. ASSUME job[q].pc \in AtWork PROVE InHand(file'[job[q].ticket].text, job[q])
    <3> DEFINE t == job[q].ticket
    <3>1. t \in TicketIds /\ InHand(file[t].text, job[q])
      BY <2>1, <2>2 DEF JobSound
    <3>2. file[t] \in File /\ file'[t] \in File
      BY <3>1, EditAdds DEF BoardInv, BoardTyped
    <3>3. file[t].text \in Text /\ file'[t].text \in Text
      BY <3>2 DEF File
    <3> QED BY <2>1, <3>1, <3>3, EditAdds, InHandGrows
  <2> QED BY <1>1, <2>1, <2>2 DEF JobSound
<1> QED BY <1>1, <1>2, <1>3 DEF BoardInv

(* Every step keeps the invariant. *)
LEMMA BoardMoves ==
  ASSUME BoardInv, [NextBoard]_boardVars
  PROVE  BoardInv'
<1>1. CASE UNCHANGED boardVars
  BY <1>1 DEF boardVars, BoardInv, BoardTyped, Absent, JobSound
<1>2. ASSUME NEW q \in Writers, WriterStep(q) PROVE BoardInv'
  BY <1>2, WayIn, LockTicketKeeps, ParseKeeps, RereadKeeps, CompareKeeps, CompareBytesKeeps, WriteKeeps,
     DeleteKeeps, AllocateKeeps, CreateKeeps DEF WriterStep
<1>3. ASSUME NEW q \in Writers, WriterDies(q) PROVE BoardInv'
  BY <1>3, GiveUpKeeps DEF WriterDies, Over
<1> QED BY <1>1, <1>2, <1>3, EditKeeps DEF NextBoard

(* The inductive invariant of the ticket files: a job between its lock and its
   save holds that lock, its draft has every tracker write that is in the file,
   and what it parsed carries a stamp no later than the file's; if the stamps
   are equal so are the stamped edits (trackers/file.py _mutate_ticket,
   _write_ticket_with_updated_at_cas, _exclusive_lock). *)
THEOREM BoardIsSound == BoardSpec => []BoardInv
<1> QED BY BoardStarts, BoardMoves, PTL DEF BoardSpec

(* Which steps change a file, and how. *)
LEMMA OnlyTheseWrite ==
  ASSUME BoardInv, NextBoard
  PROVE  \/ file' = file
         \/ \E h \in Hands : HandEdit(h)
         \/ \E q \in Writers : WriteTicket(q) \/ Delete(q)
<1>1. ASSUME NEW q \in Writers, WriterStep(q), ~WriteTicket(q), ~Delete(q) PROVE file' = file
  BY <1>1 DEF WriterStep, Begin, BeginMove, Validate, LockTicket, Parse, Reread, Compare, CompareBytes, AllocateId,
     CreateExists
<1>2. ASSUME NEW q \in Writers, WriterDies(q) PROVE file' = file
  BY <1>2 DEF WriterDies
<1> QED BY <1>1, <1>2 DEF NextBoard

(* A save undoes nothing: its draft has it all. *)
LEMMA SaveUndoesNothing ==
  ASSUME BoardInv, NEW q \in Writers, WriteTicket(q)
  PROVE  TrackerWritesKept /\ StampedEditsKept
<1> DEFINE t == job[q].ticket
<1>1. job[q].pc = "write"
  BY DEF WriteTicket
<1>2. t \in TicketIds /\ flock[t] = q /\ InHand(file[t].text, job[q])
  BY <1>1, AtWorkKnows DEF AtWork
<1>3. file'[t].text = job[q].draft /\ \A u \in TicketIds \ {t} : file'[u] = file[u]
  BY <1>2 DEF WriteTicket, BoardInv, BoardTyped
<1>4. TrackerWritesKept
  <2>1. ASSUME NEW u \in TicketIds
        PROVE  /\ file[u].text.by \cap Writers \subseteq file'[u].text.by
               /\ \A v \in file[u].text.body.by \cap Writers :
                    \/ v \in file'[u].text.body.by
                    \/ \E o \in Writers : Describing(o, u) /\ v \notin job[o].seen.by
    <3>1. CASE u = t /\ Described(job[q])
      <4>1. Describing(q, t)
        BY <1>1, <3>1 DEF Describing, Describes, Given, Described
      <4> QED BY <1>1, <1>2, <1>3, <3>1, <4>1 DEF InHand, Holds
    <3>2. CASE u = t /\ ~Described(job[q])
      BY <1>1, <1>2, <1>3, <3>2 DEF InHand, Holds
    <3>3. CASE u # t
      BY <1>3, <3>3
    <3> QED BY <3>1, <3>2, <3>3
  <2> QED BY <2>1 DEF TrackerWritesKept
<1>5. ASSUME NEW v \in Writers, job[v].pc = "write", file'[job[v].ticket] # file[job[v].ticket]
      PROVE  /\ job[v].latest.by \cap Stamped \subseteq file'[job[v].ticket].text.by
             /\ Describes(v) \/ job[v].latest.body.by \cap Stamped \subseteq file'[job[v].ticket].text.body.by
  <2>1. job[v].ticket \in TicketIds /\ flock[job[v].ticket] = v
    BY <1>5, AtWorkKnows DEF AtWork
  <2>2. v = q
    BY <1>2, <1>3, <1>5, <2>1
  <2> QED BY <1>1, <1>2, <1>3, <2>2 DEF InHand, Holds, Describes, Given, Described
<1> QED BY <1>4, <1>5 DEF StampedEditsKept

(* Nor does a deletion: nobody is at work on that file. *)
LEMMA DeleteUndoesNothing ==
  ASSUME BoardInv, NEW q \in Writers, Delete(q)
  PROVE  TrackerWritesKept /\ StampedEditsKept
<1> DEFINE t == job[q].ticket
<1>1. job[q].pc = "wait" /\ flock[t] = None /\ file' = [file EXCEPT ![t] = NoFile] /\ file \in [TicketIds -> File]
      /\ Fits(job[q])
  BY DEF Delete, BoardInv, BoardTyped, JobSound
<1>2. t \in TicketIds
  BY <1>1 DEF Fits, Over
<1>3. file'[t] = NoFile /\ ~NoFile.there /\ \A u \in TicketIds \ {t} : file'[u] = file[u]
  BY <1>1, <1>2 DEF NoFile
<1>4. TrackerWritesKept
  BY <1>3 DEF TrackerWritesKept
<1>5. ASSUME NEW v \in Writers, job[v].pc = "write" PROVE file'[job[v].ticket] = file[job[v].ticket]
  <2>1. job[v].ticket \in TicketIds /\ flock[job[v].ticket] = v
    BY <1>5, AtWorkKnows DEF AtWork
  <2>2. job[v].ticket # t
    BY <1>1, <2>1, BoardAssumption
  <2> QED BY <1>3, <2>1, <2>2
<1> QED BY <1>4, <1>5 DEF StampedEditsKept

(* Nor does a direct edit, which only adds. *)
LEMMA EditUndoesNothing ==
  ASSUME BoardInv, NEW h \in Hands, HandEdit(h)
  PROVE  TrackerWritesKept /\ StampedEditsKept
<1>1. TrackerWritesKept
  BY EditAdds DEF TrackerWritesKept
<1>2. ASSUME NEW v \in Writers, job[v].pc = "write"
      PROVE  /\ job[v].latest.by \cap Stamped \subseteq file'[job[v].ticket].text.by
             /\ Describes(v) \/ job[v].latest.body.by \cap Stamped \subseteq file'[job[v].ticket].text.body.by
  <2>1. job[v].ticket \in TicketIds /\ InHand(file[job[v].ticket].text, job[v])
    BY <1>2, AtWorkKnows DEF AtWork
  <2>2. /\ job[v].latest.by \subseteq file[job[v].ticket].text.by
        /\ Describes(v) \/ job[v].latest.body.by \subseteq file[job[v].ticket].text.body.by
    BY <1>2, <2>1 DEF InHand, Holds, Describes, Given, Described
  <2> QED BY <2>1, <2>2, EditAdds
<1> QED BY <1>1, <1>2 DEF StampedEditsKept

(* A save undoes neither what the tracker wrote to the ticket before nor a
   direct edit with a new `updated_at` that the tracker has read
   (trackers/file.py write_ticket_atomic, _write_ticket_with_updated_at_cas),
   for any number of writers, hands, tickets and rounds. *)
THEOREM SavesKeepEdits == BoardSpec => SavesUndoNothing
<1>1. BoardInv /\ [NextBoard]_boardVars => [TrackerWritesKept /\ StampedEditsKept]_boardVars
  <2> SUFFICES ASSUME BoardInv, NextBoard PROVE TrackerWritesKept /\ StampedEditsKept
    OBVIOUS
  <2>1. CASE file' = file
    BY <2>1 DEF TrackerWritesKept, StampedEditsKept
  <2> QED BY <2>1, OnlyTheseWrite, SaveUndoesNothing, DeleteUndoesNothing, EditUndoesNothing
<1> QED BY <1>1, BoardIsSound, PTL DEF BoardSpec, SavesUndoNothing

=============================================================================
